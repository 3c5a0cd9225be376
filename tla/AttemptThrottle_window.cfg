SPECIFICATION ThrottleSpec
CONSTANTS
    a1 = a1
    a2 = a2
    a3 = a3
    Attempt = {a1, a2, a3}
    Limit = 2
    Window = 1
    Retention = 1
    MaxTime = 3
    MaxErrors = 1
SYMMETRY Symmetry
INVARIANTS
    GuessesPerWindow
