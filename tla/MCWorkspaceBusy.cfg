\* The owner works in the directory all the time, and anything may die.
SPECIFICATION Spec
CONSTANTS
    None = None
    vaultA = vaultA
    vaultB = vaultB
    cursor = cursor
    claude = claude
    Services = {jira}
    Ides = {cursor, claude}
    Skills = {skill}
    Vaults = {vaultA, vaultB}
    Offers <- PartialOffers
    AdoptFlags = {FALSE, TRUE}
    CrashIn = {"apply", "revert"}
    Resolves = {FALSE, TRUE}
    Interleaved = TRUE
    Remakes = TRUE
    Narrows = TRUE
    MaxCommands = 3
    MaxEdits = 2
PROPERTIES
    FilledDirsKept
    OwnersDataKept
    RevertRemovesLinksOnly
CHECK_DEADLOCK FALSE
