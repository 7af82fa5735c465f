\* A Groovy and a Python agent on one ticket.
SPECIFICATION Spec
CONSTANTS
    None = None
    NoFile = NoFile
    Damaged = Damaged
    groovy1 = groovy1
    python1 = python1
    low = low
    high = high
    wrong = wrong
    Procs = {groovy1, python1}
    Python = {python1}
    Fields = {phase}
    Legal = {low, high}
    Illegal = wrong
    Initial = low
    DecisionIds = {decision}
    MaxCalls = 2
    MaxEdits = 1
INVARIANTS
    TypeOK
    LostOnlyByOverlap
PROPERTIES
    SavedStatesValid
    DamagedStateKept
    SettledStaysSettled
    ImplementsSharedObject
CHECK_DEADLOCK FALSE
