SPECIFICATION Spec
CONSTANTS
    h1 = h1
    h2 = h2
    h3 = h3
    r1 = r1
    r2 = r2
    c1 = c1
    c2 = c2
    Handler = {h1, h2, h3}
    Request = {r1, r2}
    Code = {c1, c2}
    NoRequest = NoRequest
    NoCode = NoCode
SYMMETRY Symmetry
INVARIANTS
    OneFamilyPerRequest
PROPERTIES
    UsedUpForGood
    ImplementsCodeGrant
