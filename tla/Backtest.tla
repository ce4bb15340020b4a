------------------------------ MODULE Backtest ------------------------------
(***************************************************************************)
(* The fixed-horizon backtest (backtesting/engine.py) and the development  *)
(* report that runs it once per cost scenario (phase2/backtests.py).  The  *)
(* engine walks the market bar by bar: a scheduled exit, a pending entry,  *)
(* the mark of the bar and the decision at its close, in that order.       *)
(*                                                                         *)
(* Money is exact (Fractions).  A probability score is whether it reaches  *)
(* the threshold.                                                          *)
(***************************************************************************)
EXTENDS Fractions, Sequences, FiniteSets, FiniteSetsExt, SequencesExt

CONSTANTS
    Markets,    \* the markets considered: the open of every bar
    Horizon,
    Scenarios,  \* the cost scenarios in SCENARIO_ORDER, each [fee, execution]
    Official,   \* the scenario the labels are drawn for
    Edge,       \* MIN_EDGE_BPS as a fraction
    None

\* What the constants must be: _validate_inputs and CostConfig refuse any other
\* price or rate, and COST_SCENARIOS goes from the cheapest to the dearest.
BacktestAssumption ==
    /\ Horizon \in Nat \ {0}
    /\ Scenarios \in Seq({Scenarios[s] : s \in DOMAIN Scenarios})
    /\ Official \in DOMAIN Scenarios
    /\ IsRate(Edge)
    /\ \A s \in DOMAIN Scenarios : IsRate(Scenarios[s].fee) /\ IsRate(Scenarios[s].execution)
    /\ \A s, t \in DOMAIN Scenarios : s < t =>
          /\ ~(Scenarios[s].fee \succ Scenarios[t].fee)
          /\ ~(Scenarios[s].execution \succ Scenarios[t].execution)
    /\ None \notin Nat
    /\ \A m \in Markets :
          /\ IsFiniteSet(DOMAIN m) /\ DOMAIN m = 0..(Cardinality(DOMAIN m) - 1)
          /\ \A p \in DOMAIN m : m[p] \in Nat \ {0}

VARIABLES
    market,
    decisions,  \* the bars that have a score: the index of probability_scores
    positive,   \* those whose score reaches the threshold
    scenario,   \* the scenario being simulated
    position,   \* the bar the engine is at
    book,       \* its cash, quantity, pending order, open trade and ledger
    curve,      \* the marks of the performance window
    paths,      \* the results of the scenarios before this one
    status

vars == <<market, decisions, positive, scenario, position, book, curve, paths, status>>
inputs == <<market, decisions, positive>>

Capital == One                  \* initial_capital, the unit of money

Bars    == DOMAIN market
Open(p) == <<market[p], 1>>

\* resolve_performance_window: from the open after the first decision to the
\* last exit the market still has a price for.
Exitable    == {d \in decisions : d + Horizon + 1 \in Bars}
WindowStart == Min(decisions) + 1
WindowEnd   == Max(Exitable) + Horizon + 1

\* The prices a fill gets, and what is left of a market return after both.
BuyAt(s, p)  == Open(p) ** (One ++ Scenarios[s].execution)
SellAt(s, p) == Open(p) ** (One -- Scenarios[s].execution)
Fee(s)       == Scenarios[s].fee
Kept(s) == (One -- Fee(s)) ** (One -- Fee(s))
             ** ((One -- Scenarios[s].execution) // (One ++ Scenarios[s].execution))

\* A label drawn from the close that decides to the exit.
ForwardReturn_fromDecision(d) == Open(d + Horizon + 1) // Open(d)

\* add_labels: the decision enters at the next open and leaves Horizon bars
\* later; the label is whether that return exceeds what the costs of the
\* official scenario and the edge require.
ForwardReturn(d) == Open(d + Horizon + 1) // Open(d + 1)

RequiredReturn   == (One ++ Edge) // Kept(Official)
Label(d)         == ForwardReturn(d) \succ RequiredReturn

\* No position is open; unlike a trade, it has no fields.
NoTrade == <<>>

Idle == [cash |-> Capital, quantity |-> Zero, pending |-> None, exit |-> None,
         trade |-> NoTrade, ledger |-> <<>>]

\* The scheduled exit of bar p, if it is there.
Exited(b, s, p) ==
    IF b.exit # p THEN b
    ELSE LET gross == b.quantity ** SellAt(s, p)
             after == gross -- (gross ** Fee(s))
         IN [b EXCEPT !.cash = after, !.quantity = Zero, !.exit = None, !.trade = NoTrade,
                      !.ledger = Append(@, [b.trade EXCEPT !.exitFee = gross ** Fee(s),
                                                           !.exit = p, !.after = after])]

\* The pending entry of bar p, if it is there: all of the cash, less the fee.
Entered(b, s, p) ==
    IF b.pending # p THEN b
    ELSE LET fee      == b.cash ** Fee(s)
             quantity == (b.cash -- fee) // BuyAt(s, p)
         IN [b EXCEPT !.cash = Zero, !.quantity = quantity, !.pending = None,
                      !.trade = [signal |-> p - 1, entry |-> p, exit |-> b.exit,
                                 quantity |-> quantity, before |-> b.cash,
                                 entryFee |-> fee, exitFee |-> Zero, after |-> Zero]]

\* A scheduler that forgets the end of the window.
Decided_pastWindow(b, s, p) ==
    IF p \in positive /\ b.trade = NoTrade /\ b.pending = None
    THEN [b EXCEPT !.pending = p + 1, !.exit = p + Horizon + 1]
    ELSE b

\* The decision at the close of bar p: taken when there is no position or
\* order and the whole trade fits the window.
Decided(b, s, p) ==
    IF /\ p \in positive
       /\ b.trade = NoTrade /\ b.pending = None
       /\ p + Horizon + 1 <= WindowEnd
    THEN [b EXCEPT !.pending = p + 1, !.exit = p + Horizon + 1]
    ELSE b

\* A turn that decides before it trades.
Walked_decidesFirst(b, s, p) == Entered(Exited(Decided(b, s, p), s, p), s, p)

Traded(b, s, p) == Entered(Exited(b, s, p), s, p)
Walked(b, s, p) == Decided(Traded(b, s, p), s, p)

Equity(b, p) == IF b.trade = NoTrade THEN b.cash ELSE b.quantity ** Open(p)

\* The engine's own refusals at a bar: an exit without a position, or an entry
\* on top of one.
BarRefused(b, s, p) ==
    \/ b.exit = p /\ (b.trade = NoTrade \/ ~(b.quantity \succ Zero))
    \/ b.pending = p /\ Exited(b, s, p).trade # NoTrade

EntryCost(s, t) == t.quantity ** (BuyAt(s, t.entry) -- Open(t.entry))
ExitCost(s, t)  == t.quantity ** (Open(t.exit) -- SellAt(s, t.exit))

\* What one trade has to agree with: its own cash flows, the mark of its entry
\* and of its exit, and the equity the trade before it left.
TradeReconciles(s, t, before, marks) ==
    LET entryMark == marks[t.entry - WindowStart + 1].equity
        exitMark  == marks[t.exit - WindowStart + 1].equity
        gross     == t.quantity ** SellAt(s, t.exit)
    IN /\ t.before = before
       /\ t.entryFee = t.before ** Fee(s)
       /\ t.exitFee = gross ** Fee(s)
       /\ t.after = gross -- t.exitFee
       /\ entryMark = t.quantity ** Open(t.entry)
       /\ exitMark = t.after
       /\ t.before -- entryMark = t.entryFee ++ EntryCost(s, t)
       /\ (t.quantity ** Open(t.exit)) -- exitMark = t.exitFee ++ ExitCost(s, t)

Pnl(ledger) ==
    LET sum[i \in 0..Len(ledger)] ==
            IF i = 0 THEN Zero ELSE sum[i - 1] ++ (ledger[i].after -- ledger[i].before)
    IN sum[Len(ledger)]

\* _validate_reconciliation and _reconciliation.  (The interval returns are
\* quotients of neighbouring marks, so they compound to the last one.)
Reconciles(s, ledger, marks) ==
    /\ \A i \in DOMAIN ledger :
          TradeReconciles(s, ledger[i], IF i = 1 THEN Capital ELSE ledger[i - 1].after, marks)
    /\ Last(marks).equity = Capital ++ Pnl(ledger)

\* The last mark, and the times a path trades at.
Final(path)    == Last(path.curve).equity
Schedule(path) == [i \in DOMAIN path.ledger |-> <<path.ledger[i].entry, path.ledger[i].exit>>]

\* buy_and_hold_backtest: one trade over the whole window, at the same fills.
HeldTrade(s) ==
    LET fee      == Capital ** Fee(s)
        quantity == (Capital -- fee) // BuyAt(s, WindowStart)
        gross    == quantity ** SellAt(s, WindowEnd)
    IN [signal |-> WindowStart - 1, entry |-> WindowStart, exit |-> WindowEnd,
        quantity |-> quantity, before |-> Capital, entryFee |-> fee,
        exitFee |-> gross ** Fee(s), after |-> gross -- (gross ** Fee(s))]

HeldCurve(s) ==
    [i \in 1..(WindowEnd - WindowStart + 1) |->
        LET p == WindowStart + i - 1
        IN [equity |-> IF p = WindowEnd THEN HeldTrade(s).after
                                        ELSE HeldTrade(s).quantity ** Open(p),
            open |-> p < WindowEnd]]

TypeOK ==
    /\ market \in Markets
    /\ positive \subseteq decisions /\ decisions \subseteq Bars
    /\ scenario \in 1..(Len(Scenarios) + 1)
    /\ position \in 0..Cardinality(Bars)
    /\ Len(paths) = scenario - 1
    /\ status \in {"running", "refused", "unreported", "compared"}

-----------------------------------------------------------------------------
Init ==
    /\ market \in Markets
    /\ decisions \in (SUBSET Bars) \ {{}}
    /\ positive \in SUBSET decisions
    /\ scenario = 1 /\ position = 0
    /\ book = Idle /\ curve = <<>> /\ paths = <<>>
    /\ status = "running"

\* No decision has a price to leave at: there is no window to measure.
Refuse ==
    /\ status' = "refused"
    /\ UNCHANGED <<inputs, scenario, position, book, curve, paths>>

NoWindow ==
    /\ status = "running" /\ position = 0
    /\ Exitable = {}
    /\ Refuse

\* The report takes no decision that cannot be left, and refuses before it
\* simulates; run_cost_sensitivity walks such a set, and compares nothing.
Reportable == decisions = Exitable

Unreported ==
    /\ status = "running" /\ scenario = 1 /\ position = 0
    /\ Exitable # {} /\ ~Reportable
    /\ status' = "unreported"
    /\ UNCHANGED <<inputs, scenario, position, book, curve, paths>>

\* One turn of the loop of run_backtest.
Turn ==
    /\ book' = Walked(book, scenario, position)
    /\ curve' = LET traded == Traded(book, scenario, position)
                IN IF position \in WindowStart..WindowEnd
                   THEN Append(curve, [equity |-> Equity(traded, position),
                                       open |-> traded.trade # NoTrade])
                   ELSE curve
    /\ position' = position + 1
    /\ UNCHANGED <<inputs, scenario, paths, status>>

Bar ==
    /\ status = "running" /\ Exitable # {}
    /\ scenario \in DOMAIN Scenarios /\ position \in Bars
    /\ IF BarRefused(book, scenario, position) THEN Refuse ELSE Turn

\* After the loop: nothing may be open or ordered, and the ledger, the marks
\* and the capital must agree, for the path and for buy and hold.
Settled(s, b, marks) ==
    /\ b.trade = NoTrade /\ b.pending = None /\ b.exit = None
    /\ Reconciles(s, b.ledger, marks)
    /\ Reconciles(s, <<HeldTrade(s)>>, HeldCurve(s))

Keep ==
    /\ paths' = Append(paths, [ledger |-> book.ledger, curve |-> curve])
    /\ scenario' = scenario + 1
    /\ position' = 0 /\ book' = Idle /\ curve' = <<>>
    /\ UNCHANGED <<inputs, status>>

Settle ==
    /\ status = "running"
    /\ scenario \in DOMAIN Scenarios /\ position \notin Bars
    /\ IF Settled(scenario, book, curve) THEN Keep ELSE Refuse

\* _calculate: costs move no trade, and a dearer scenario never earns more.
Comparable ==
    \A s, t \in DOMAIN paths : s < t =>
        /\ Schedule(paths[s]) = Schedule(paths[t])
        /\ ~(Final(paths[t]) \succ Final(paths[s]))
        /\ ~(HeldTrade(t).after \succ HeldTrade(s).after)

Compare ==
    /\ status = "running" /\ scenario = Len(Scenarios) + 1
    /\ Reportable
    /\ status' = IF Comparable THEN "compared" ELSE "refused"
    /\ UNCHANGED <<inputs, scenario, position, book, curve, paths>>

Next ==
    \/ NoWindow
    \/ Unreported
    \/ Bar
    \/ Settle
    \/ Compare

Spec == Init /\ [][Next]_vars

-----------------------------------------------------------------------------
\* Whatever the gaps between the decisions, what the engine and the report check
\* of their own results never fails: every position is closed inside the market,
\* the ledger, the fees and the marks agree to the last trade, and the scenarios
\* trade alike.  Only what they ask of their inputs is refused: a decision that
\* can be left, and in the report every one
\* (engine.py:131-132, :349-350, phase2/backtests.py:171-184, :863-870).
AccountsAgree == status = "refused" => Exitable = {}

\* Every decision to buy that fits the window is either traded or falls into
\* the time a position is held: none is lost at an exit, and none is taken
\* twice (engine.py:267-347).
EveryDecisionAnswered ==
    \A i \in DOMAIN paths : \A d \in positive \cap Exitable :
        LET ledger == paths[i].ledger
        IN Cardinality({j \in DOMAIN ledger :
                            d = ledger[j].signal \/ d \in ledger[j].entry..(ledger[j].exit - 1)}) = 1

\* A label is the outcome of its trade: under the official costs a trade earns
\* more than the edge exactly when its decision is labelled 1
\* (features/labels.py:48-58, costs.py:41-58, engine.py:267-309).
TradesRealiseLabels ==
    Official \in DOMAIN paths =>
        \A i \in DOMAIN paths[Official].ledger :
            LET t == paths[Official].ledger[i]
            IN Label(t.signal) <=> ((t.after // t.before) \succ (One ++ Edge))

=============================================================================
