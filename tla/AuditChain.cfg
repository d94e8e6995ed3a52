CONSTANTS
    w1 = w1
    w2 = w2
    w3 = w3
    first = first
    second = second
    Writers = {w1, w2, w3}
    Process <- MCProcess
    Dialects = {"postgresql", "sqlite"}
    Anchorers = {k1, k2}
    Verifiers = {v1}
    MaxRecords = 3
    MaxAnchors = 2

SPECIFICATION Spec
INVARIANT VerifiesUnlessEdited
INVARIANT NobodyLosesTheRace
INVARIANT OnlyNewAnchorsAreMissed
INVARIANT RecomputedChainsAreCaught
PROPERTY HistoryGrows
SYMMETRY Interchangeable
CHECK_DEADLOCK FALSE
