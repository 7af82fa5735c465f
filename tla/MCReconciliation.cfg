\* `reconcile status' on four tickets in three worlds.
SPECIFICATION Spec
CONSTANTS
    Repos = {1, 2, 3}
    Controllers = {1, 2}
    Jobs = {1}
    Apps = {1}
    Unsafe = {3}
    Services = {"svc"}
    Catalog <- MCCatalog
    Within <- MCWithin
    MaxBuilds = 2
    Tickets <- MCTickets
    Worlds <- MCWorlds
    ControllerSets <- MCControllerSets
    Selections <- MCSelections
    Days = {1, 2}
    Created = 1
    Today = 2
    MaxChanges = 1
    MaxFaults = 2
INVARIANTS
    TypeOK
    AlarmsAreReal
    NothingOverlooked
    VerdictsMeanAgreement
PROPERTIES
    ReconcileEnds
CHECK_DEADLOCK FALSE
