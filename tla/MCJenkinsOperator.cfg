CONSTANTS
    MaxFaults = 2
    MaxChanges = 1
    Items <- MCItems
    Root = 0
    Parent <- MCParent
    Above <- MCAbove
    Depth <- MCDepth
    Alphabet <- MCAlphabet
    Odd = {8}
    Trees <- MCTrees
    MaxDepth = 1
    Versions <- MCVersions
    Plugins = {1, 2}
    Cves = {1, 2}
    Urls = {1, 2}
    Installs <- MCInstalls
    Centres <- MCCentres
    Retries = 1
    Calls <- MCCalls
SPECIFICATION Spec
INVARIANTS
    TypeOK
    ExitTellsCause
    ListingFaithful
    ScanComplete
    UpgradesHoldTogether
CHECK_DEADLOCK FALSE
