\* Two processes, two minutes and six events: a whole exchange with its bytes,
\* a retry or a second minute, and the stop that ends the pilot.
SPECIFICATION Spec
CONSTANTS
    Procs = {p1, p2}
    NoProc = NoProc
    None = None
    Minutes = {m1, m2}
    Times = {0, 1, 2}
    Chunks = {1, 2}
    MaxAttempts = 2
    MaxTotal = 2
    MaxCount = 4
    Spacing = 2
    MaxEvents = 6
SYMMETRY Symmetry
INVARIANTS
    SessionAgrees
    WriteAhead
    AckedSurvives
    DownloadBounded
    RefusedOnlyAfterFault
PROPERTIES
    ImplementsLedger
