\* Two Groovy processes, one lock.
SPECIFICATION Spec
CONSTANTS
    None = None
    NoFile = NoFile
    Damaged = Damaged
    groovy = groovy
    python = python
    p1 = p1
    p2 = p2
    p3 = p3
    Names = {work, home}
    Paths = {dirA, dirB, gone}
    Dirs = {dirA, dirB}
    Ides = {cursor}
    Runtimes = {groovy}
    DefaultRuntime = groovy
    Procs = {p1, p2}
    RuntimeOf <- SameRuntime
    LockSpace <- SharedTable
    MaxCalls = 1
    MaxDamage = 1
INVARIANTS
    TypeOK
    MutualExclusion
    CommittedChangesKept
    SavedFileLoads
PROPERTIES
    NoNewSharedPaths
    OthersUntouched
    DamagedFileKept
SYMMETRY Symmetry
CHECK_DEADLOCK FALSE
