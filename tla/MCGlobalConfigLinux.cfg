\* A Groovy and a Python process on Linux, where the two kinds of lock are
\* kept in separate tables.
SPECIFICATION Spec
CONSTANTS
    None = None
    NoFile = NoFile
    Damaged = Damaged
    groovy = groovy
    python = python
    p1 = p1
    p2 = p2
    p3 = p3
    Names = {work, home}
    Paths = {dirA, dirB}
    Dirs = {dirA, dirB}
    Ides = {}
    Runtimes = {groovy, python}
    DefaultRuntime = groovy
    Procs = {p1, p2}
    RuntimeOf <- MixedRuntimes
    LockSpace <- SeparateTables
    MaxCalls = 1
    MaxDamage = 0
INVARIANTS
    CommittedChangesKept
CHECK_DEADLOCK FALSE
