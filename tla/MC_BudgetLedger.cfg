\* Four attempts of two minutes over four clock readings; sessions change hands.
SPECIFICATION Spec
CONSTANTS
    Procs = {p1, p2}
    NoProc = NoProc
    None = None
    Minutes = {m1, m2}
    Times = {0, 1, 2, 3, 4}
    Chunks = {1}
    MaxAttempts = 3
    MaxTotal = 1
    MaxCount = 2
    Spacing = 1
\* A stopped pilot never opens again.
CHECK_DEADLOCK FALSE
SYMMETRY Symmetry
INVARIANTS
    AttemptsIncrease
