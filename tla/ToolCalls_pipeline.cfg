SPECIFICATION FairSpec
CONSTANTS
    c1 = c1
    c2 = c2
    t1 = t1
    Call = {c1, c2}
    Token = {t1}
    NoToken = NoToken
    ControlMax = 1
    SourceMax = 1
    MaxBytes = 2
    MaxChunk = 2
    MaxParts = 3
INVARIANTS
    ConnectionsReturned
    AuthorizedSinceArrival
    AuditAgrees
    BodyIntact
PROPERTY
    CallsAreAnswered
