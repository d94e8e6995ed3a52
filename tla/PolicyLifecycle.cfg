CONSTANTS
    None = None
    standard = standard
    Versions = {standard, v1, v2, v3}
    Default = standard
    Calls = {c1, c2}
    Lazy = TRUE
    MaxActivations = 6

SPECIFICATION Spec
INVARIANT OneActive
INVARIANT RollbackUndoes
PROPERTY PolicyStaysInForce
SYMMETRY Interchangeable
CHECK_DEADLOCK FALSE
