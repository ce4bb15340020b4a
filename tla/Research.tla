------------------------------ MODULE Research ------------------------------
(***************************************************************************)
(* Market data, splits and backtests.  They share no state while they      *)
(* work: each takes finished files and may take any.  So a behaviour       *)
(* exercises one of them, named by `part`, and the others stay as they     *)
(* began.                                                                  *)
(***************************************************************************)
EXTENDS MarketStore, Sequences

CONSTANTS
    Horizon,
    Markets, Scenarios, Official, Edge,                     \* of Backtest
    Ordinals, Folds, HoldoutShare, TestShare, TestRows      \* of PurgedSplits

VARIABLES
    part,
    market, decisions, positive, scenario, position, book, curve, paths, verdict,  \* Backtest
    phase, rows, size, dev, held, folds, fits, status                       \* PurgedSplits

tradingVars == <<market, decisions, positive, scenario, position, book, curve, paths, verdict>>
splitsVars  == <<phase, rows, size, dev, held, folds, fits, status>>

researchVars == <<part, vars, tradingVars, splitsVars>>

Trading == INSTANCE Backtest WITH status <- verdict
Splits  == INSTANCE PurgedSplits

ASSUME ResearchAssumption ==
    MarketAssumption /\ Trading!BacktestAssumption /\ Splits!SplitsAssumption

-----------------------------------------------------------------------------
\* Where a backtest and a split that are not exercised wait.
TradingWaits ==
    /\ market = CHOOSE m \in Markets : TRUE
    /\ decisions = {0} /\ positive = {}
    /\ scenario = 1 /\ position = 0
    /\ book = Trading!Idle /\ curve = <<>> /\ paths = <<>>
    /\ verdict = "running"

SplitsWait ==
    /\ phase = 1 /\ rows = <<0>> /\ size = 0
    /\ dev = 0 /\ held = 1
    /\ folds = <<>> /\ fits = <<>>
    /\ status = "new"

ResearchInit ==
    /\ part \in {"market", "trading", "splits"}
    /\ Init
    /\ IF part = "trading" THEN Trading!Init ELSE TradingWaits
    /\ IF part = "splits" THEN Splits!Init ELSE SplitsWait

ResearchNext ==
    \/ part = "market"  /\ Next         /\ UNCHANGED <<part, tradingVars, splitsVars>>
    \/ part = "trading" /\ Trading!Next /\ UNCHANGED <<part, vars, splitsVars>>
    \/ part = "splits"  /\ Splits!Next  /\ UNCHANGED <<part, vars, tradingVars>>

ResearchSpec == ResearchInit /\ [][ResearchNext]_researchVars

-----------------------------------------------------------------------------
\* Backtest: the checks of the engine and the report never fail.
AccountsAgree == Trading!AccountsAgree

\* Backtest: no decision to buy is lost or taken twice.
EveryDecisionAnswered == Trading!EveryDecisionAnswered

\* Backtest: a trade earns what its label says.
TradesRealiseLabels == Trading!TradesRealiseLabels

\* PurgedSplits: a split is refused for want of rows only.
PurgeSuffices == Splits!PurgeSuffices

\* PurgedSplits: no fit has seen what decides the labels it is scored on.
NothingFromTheFuture == Splits!NothingFromTheFuture
=============================================================================
