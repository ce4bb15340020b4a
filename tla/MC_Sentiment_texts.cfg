\* The same, for a state that is replayed in other plans than it was made in;
\* the store waits beside it, with as little as it may have.
SPECIFICATION SentimentSpec
CONSTANTS
    Writers = {w1, w2}
    Digests = {d1}
    Names = {n1}
    Payloads = 1
    None = None
    Minutes = 3
    Length = 2
    Lag = 0
    Horizon = 2
    Precision = 2
    MaxPlan = 2
    Responses <- Answers
    MaxSnapshots = 2
    MaxClock = 5
    Windows = {2}
    Window = 2
    Decisions = {2, 3}
    Scores <- Engine
SYMMETRY Symmetry
INVARIANT
    ReplayReproduces
