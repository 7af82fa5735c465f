\* A Python and a Groovy process on a kernel where their locks exclude each
\* other, two commands each: the promise of the registry, and liveness.
SPECIFICATION FairSpec
CONSTANTS
    None = None
    NoFile = NoFile
    Damaged = Damaged
    groovy = groovy
    python = python
    p1 = p1
    p2 = p2
    p3 = p3
    Names = {work}
    Paths = {dirA}
    Dirs = {dirA}
    Ides = {}
    Runtimes = {groovy, python}
    DefaultRuntime = groovy
    Procs = {p1, p2}
    RuntimeOf <- MixedRuntimes
    LockSpace <- SharedTable
    MaxCalls = 2
    MaxDamage = 0
PROPERTIES
    ImplementsAtomicRegistry
    CommandsEnd
CHECK_DEADLOCK FALSE
