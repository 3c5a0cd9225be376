SPECIFICATION FairMaintenance
CONSTANTS
    s1 = s1
    s2 = s2
    Sources <- MCSources
    Control = control
    Lifetimes = {1, 2, 3}
    MaxTime = 5
    MaxChain = 3
INVARIANTS
    MaintenanceHasPool
    ServingIsWhole
    NothingLeaks
    OnlyShorteningBlocks
PROPERTIES
    SettlesDown
    ExpiredRowsGo
