SPECIFICATION FairSpec
CONSTANTS
    p1 = p1
    p2 = p2
    Proc = {p1, p2}
    Token = {1, 2, 3, 4}
    Family = {1}
    NoProc = NoProc
    NoToken = 0
    NoFamily = 0
INVARIANTS
    RevokedFamilyIsDead
    OneLiveRefresh
PROPERTIES
    ExchangedOnce
    ImplementsGrants
    HandlersEnd
