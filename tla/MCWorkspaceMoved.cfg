\* The AI Vault moves to another directory between two applies.
SPECIFICATION Spec
CONSTANTS
    None = None
    vaultA = vaultA
    vaultB = vaultB
    cursor = cursor
    claude = claude
    Services = {jira}
    Ides = {cursor, claude}
    Skills = {skill}
    Vaults = {vaultA, vaultB}
    Offers <- SameOffers
    AdoptFlags = {FALSE}
    CrashIn = {}
    Resolves = {TRUE}
    Interleaved = FALSE
    Remakes = FALSE
    Narrows = FALSE
    MaxCommands = 4
    MaxEdits = 1
INVARIANTS
    RevertLeavesNoLink
CHECK_DEADLOCK FALSE
