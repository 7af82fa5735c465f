\* The owner keeps away while a command runs.
SPECIFICATION Spec
CONSTANTS
    None = None
    vaultA = vaultA
    vaultB = vaultB
    cursor = cursor
    claude = claude
    Services = {jira, aws}
    Ides = {cursor, claude}
    Skills = {skill}
    Vaults = {vaultA}
    Offers <- SameOffers
    AdoptFlags = {FALSE}
    CrashIn = {"apply", "revert"}
    Resolves = {TRUE}
    Interleaved = FALSE
    Remakes = FALSE
    Narrows = FALSE
    MaxCommands = 5
    MaxEdits = 2
INVARIANTS
    TypeOK
    Converged
    ConflictsAreTheOwners
    RevertLeavesNoLink
PROPERTIES
    OwnDirsOnly
    RevertKeepsOtherIdes
CHECK_DEADLOCK FALSE
