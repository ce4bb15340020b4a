---------------------------- MODULE BudgetEvents ----------------------------
(***************************************************************************)
(* The pilot budget's journal events and the ledger they build             *)
(* (sentiment/network_budget.py: _validate_event and _apply).  A stop's    *)
(* reason, stage and diagnostic are abstracted to the fact of the stop;    *)
(* timestamps are the wall-clock numbers the caller supplies.              *)
(***************************************************************************)
EXTENDS Integers, Sequences

CONSTANTS
    Minutes,        \* filename timestamps a request may ask for
    Times,          \* wall-clock readings
    Chunks,         \* sizes of one body chunk
    MaxAttempts,    \* attempts allowed for one minute (4)
    MaxTotal,       \* maximum_download_bytes
    MaxCount,       \* the largest total the journal can hold (2^53 - 1)
    Spacing,        \* least distance of two request starts (5 s)
    None            \* Python's None

ASSUME BudgetAssumption ==
    /\ Times \subseteq Nat
    /\ Chunks \subseteq Nat
    /\ MaxAttempts \in Nat \ {0}
    /\ MaxTotal \in Nat
    /\ MaxCount \in Nat
    /\ Spacing \in Nat \ {0}
    /\ None \notin Times

Request  == [kind: {"request"}, minute: Minutes, attempt: 1..MaxAttempts, at: Times]
Received == [kind: {"received"}, count: Chunks]
Finish   == [kind |-> "finish"]
Stop     == [kind |-> "stop"]
Event    == Request \cup Received \cup {Finish, Stop}

\* None stands for "no event" too.
ASSUME NoneAssumption == None \notin Event

\* The private fields _total, _last, _attempts, _pending and _halted.
Ledger == [total: Nat, last: Times \cup {None},
           attempts: [Minutes -> 0..MaxAttempts],
           pending: BOOLEAN, halted: BOOLEAN]

EmptyLedger == [total |-> 0, last |-> None,
                attempts |-> [m \in Minutes |-> 0],
                pending |-> FALSE, halted |-> FALSE]

\* Mutant of ValidRequest: no attempt order.
ValidRequest_anyAttempt(l, e) ==
    ~l.pending /\ ~l.halted /\ l.total <= MaxTotal /\ (l.last # None => e.at >= l.last + Spacing)

\* A request is refused while one is unresolved, after a stop, above the cap,
\* sooner than Spacing after the last one, or out of attempt order.
ValidRequest(l, e) ==
    /\ ~l.pending
    /\ ~l.halted
    /\ l.total <= MaxTotal
    /\ l.last # None => e.at >= l.last + Spacing
    /\ e.attempt = l.attempts[e.minute] + 1

Valid(l, e) ==
    \/ e.kind = "request" /\ ValidRequest(l, e)
    \/ e.kind = "received" /\ l.pending /\ l.total + e.count <= MaxCount
    \/ e.kind = "finish" /\ l.pending
    \/ e.kind = "stop"

Apply(l, e) ==
    CASE e.kind = "request"  -> [l EXCEPT !.last = e.at,
                                          !.attempts = [@ EXCEPT ![e.minute] = e.attempt],
                                          !.pending = TRUE]
      [] e.kind = "received" -> [l EXCEPT !.total = @ + e.count]
      [] e.kind = "finish"   -> [l EXCEPT !.pending = FALSE]
      [] OTHER               -> [l EXCEPT !.halted = TRUE]

\* The state in which locked() hands the budget to a new session.
Usable(l) == ~l.pending /\ ~l.halted /\ l.total <= MaxTotal

\* The ledger after each prefix of a journal, as _load rebuilds it.
Ledgers(chain) ==
    LET after[i \in 0..Len(chain)] ==
            IF i = 0 THEN EmptyLedger ELSE Apply(after[i - 1], chain[i])
    IN  after

Replay(chain) == Ledgers(chain)[Len(chain)]

\* _load validates every event against the ledger of the events before it.
Replayable(chain) == \A i \in DOMAIN chain : Valid(Ledgers(chain)[i - 1], chain[i])
=============================================================================
