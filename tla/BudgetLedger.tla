---------------------------- MODULE BudgetLedger ----------------------------
(***************************************************************************)
(* What the pilot budget promises its callers, with no files in it: one    *)
(* ledger for the whole pilot that no restart, crash or second process     *)
(* rolls back, and no request on the wire that it has not counted first.   *)
(* PilotBudget implements this specification (its ImplementsLedger).       *)
(***************************************************************************)
EXTENDS BudgetEvents

CONSTANTS Procs, NoProc

ASSUME ProcAssumption == NoProc \notin Procs

VARIABLES
    owner,      \* the process whose session holds the budget, or NoProc
    acked,      \* the ledger of everything a call has returned for
    view,       \* the ledger in the owner's memory; it may be ahead of acked
    call,       \* the event a call has applied and not returned from, or None
    intent,     \* an acknowledged request that is not on the wire yet, or None
    wire        \* the requests sent, in order, over the life of the pilot

vars == <<owner, acked, view, call, intent, wire>>

\* The promise is typed: every ledger is a record of the journal's counters.
TypeOK ==
    /\ owner \in Procs \cup {NoProc}
    /\ acked \in Ledger
    /\ view \in Ledger
    /\ call \in Event \cup {None}
    /\ intent \in Request \cup {None}
    /\ wire \in Seq(Request)

Init ==
    /\ owner = NoProc
    /\ acked = EmptyLedger
    /\ view = EmptyLedger
    /\ call = None
    /\ intent = None
    /\ wire = <<>>

\* A session starts from the acknowledged ledger, or from one event more: the
\* event of a session that died after writing it and before returning.
Open(p) ==
    /\ owner = NoProc
    /\ owner' = p
    /\ \/ view' = acked
       \/ \E e \in Event : Valid(acked, e) /\ view' = Apply(acked, e)
    /\ Usable(view')
    /\ UNCHANGED <<acked, call, intent, wire>>

\* An event reaches the owner's memory; the call has not returned yet.
Extend(p, e) ==
    /\ owner = p
    /\ call = None
    /\ intent = None
    /\ Valid(view, e)
    /\ view' = Apply(view, e)
    /\ call' = e
    /\ UNCHANGED <<owner, acked, intent, wire>>

\* The call returns: everything in memory is durable, and after a request the
\* owner may send it.
Return(p) ==
    /\ owner = p
    /\ call # None
    /\ acked' = view
    /\ call' = None
    /\ intent' = IF call.kind = "request" THEN call ELSE None
    /\ UNCHANGED <<owner, view, wire>>

\* The call raises instead, or the caller abandons the request it may send.
Fail(p) ==
    /\ owner = p
    /\ call' = None
    /\ intent' = None
    /\ UNCHANGED <<owner, acked, view, wire>>

Send(p) ==
    /\ owner = p
    /\ intent # None
    /\ wire' = Append(wire, intent)
    /\ intent' = None
    /\ UNCHANGED <<owner, acked, view, call>>

\* The session ends, by its own step or because its process died.
Close(p) ==
    /\ owner = p
    /\ owner' = NoProc
    /\ call' = None
    /\ intent' = None
    /\ view' = acked
    /\ UNCHANGED <<acked, wire>>

Next == \E p \in Procs :
    \/ Open(p) \/ Return(p) \/ Fail(p) \/ Send(p) \/ Close(p)
    \/ \E e \in Event : Extend(p, e)

Spec == Init /\ [][Next]_vars

-----------------------------------------------------------------------------
\* Attempts of one minute leave in increasing order, over all sessions: no
\* attempt is ever sent twice (fresh processes cannot replenish the budget).
AttemptsIncrease ==
    \A i, j \in DOMAIN wire :
        i < j /\ wire[i].minute = wire[j].minute => wire[i].attempt < wire[j].attempt

\* Any two requests of the pilot are Spacing apart, whichever session sent them.
RequestsSpaced ==
    \A i, j \in DOMAIN wire : i < j => wire[j].at >= wire[i].at + Spacing

\* The inductive invariant behind both: every ledger a session may start from
\* or work on has counted everything on the wire, and a request that is about
\* to leave is ahead of all that left before.
Counts(l) ==
    \A i \in DOMAIN wire :
        /\ wire[i].attempt <= l.attempts[wire[i].minute]
        /\ l.last # None
        /\ wire[i].at <= l.last

Ahead(r) ==
    \A i \in DOMAIN wire :
        /\ r.at >= wire[i].at + Spacing
        /\ r.minute = wire[i].minute => r.attempt > wire[i].attempt

\* Every ledger of a session has counted the wire, and a call or an intent is
\* ahead of it, with the acknowledged ledger in step.
IInv ==
    /\ Counts(acked)
    /\ Counts(view)
    /\ call \in Request =>
          Ahead(call) /\ view.attempts[call.minute] = call.attempt /\ view.last = call.at
    /\ intent \in Request =>
          Ahead(intent) /\ acked.attempts[intent.minute] = intent.attempt
                        /\ acked.last = intent.at /\ view = acked
    /\ call # None => intent = None
    /\ owner = NoProc => call = None /\ intent = None
=============================================================================
