\* Two writers contend for one object and for two publications of two files.
\* Three minutes of a second of two clock units, due as they begin, two snapshots;
\* the rest is in the module.
SPECIFICATION SentimentSpec
CONSTANTS
    Writers = {w1, w2}
    Digests = {d1}
    Names = {n1, n2}
    Payloads = 2
    None = None
    Minutes = 3
    Length = 2
    Lag = 0
    Horizon = 2
    Precision = 2
    MaxPlan = 2
    Responses <- Answers
    MaxSnapshots = 2
    MaxClock = 5
    Windows = {2}
    Window = 2
    Decisions = {2, 3}
    Scores <- Engine
SYMMETRY Symmetry
INVARIANTS
    PublishedComplete
    ReplayInOrder
    FirstSeenIsEarliest
PROPERTIES
    ImplementsWriteOnce
    RowsStand
