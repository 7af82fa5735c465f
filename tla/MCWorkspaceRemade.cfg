\* The owner makes a service directory that was reverted before.
SPECIFICATION Spec
CONSTANTS
    None = None
    vaultA = vaultA
    vaultB = vaultB
    cursor = cursor
    claude = claude
    Services = {jira}
    Ides = {cursor, claude}
    Skills = {skill}
    Vaults = {vaultA}
    Offers <- SameOffers
    AdoptFlags = {FALSE}
    CrashIn = {}
    Resolves = {TRUE}
    Interleaved = FALSE
    Remakes = TRUE
    Narrows = FALSE
    MaxCommands = 4
    MaxEdits = 1
PROPERTIES
    OwnDirsOnly
CHECK_DEADLOCK FALSE
