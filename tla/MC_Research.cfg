\* Market data, backtests and splits; the bounds are in the module.
SPECIFICATION ResearchSpec
CONSTANTS
    Procs = {p1, p2}
    None = None
    Span = 2
    Lookback = 3
    MaxRetries = 1
    MaxClock = 4
    MaxCrashes = 1
    Horizon = 1
    Markets <- Walks
    Scenarios <- Costs
    Official = 2
    Edge <- Eighth
    Ordinals <- Retained
    Folds = 2
    HoldoutShare = 5
    TestShare = 4
    TestRows = {1, 2, 3}
SYMMETRY Symmetry
\* A backtest and a split end, and a crash may end all updates.
CHECK_DEADLOCK FALSE
INVARIANTS
    ClosedCandlesOnly
    AccountsAgree
    EveryDecisionAnswered
    TradesRealiseLabels
    PurgeSuffices
    NothingFromTheFuture
PROPERTIES
    FetchAdvances
