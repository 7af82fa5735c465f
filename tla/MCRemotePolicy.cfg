\* Two operators with two commands each, and one edit in the console.
SPECIFICATION Spec
CONSTANTS
    None = None
    Gone = Gone
    Procs = {ann, bob}
    Groups = {linux, web}
    MaxCalls = 2
    MaxEdits = 1
INVARIANTS
    TypeOK
    LostOnlyByOverlap
    RestoredOrReported
    ReadyMeansDone
PROPERTIES
    EmptiedOnRequest
    ImplementsSharedObject
SYMMETRY Symmetry
CHECK_DEADLOCK FALSE
