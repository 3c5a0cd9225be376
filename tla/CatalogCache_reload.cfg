SPECIFICATION FairSpec
CONSTANTS
    c1 = c1
    c2 = c2
    Call = {c1, c2}
    TTL = 1
    MaxLoad = 1
    MaxTime = 4
    MaxVersion = 2
    NoCall = NoCall
INVARIANTS
    NobodyWaitsInVain
    OneSchemaPerQuery
PROPERTIES
    LoadOnlyWhenStale
    AgeBounded
    CallsEnd
