------------------------ MODULE BudgetLedger_proofs -------------------------
(***************************************************************************)
(* Proofs about BudgetLedger, for every set of processes, minutes, clock   *)
(* readings and chunk sizes and for every cap.                             *)
(***************************************************************************)
EXTENDS BudgetLedger, TLAPS

-----------------------------------------------------------------------------
\* The fields of requests and of ledgers.
LEMMA RequestFields ==
    ASSUME NEW e \in Request
    PROVE  /\ e.kind = "request"
           /\ e.minute \in Minutes
           /\ e.attempt \in 1..MaxAttempts /\ e.attempt \in Nat
           /\ e.at \in Times /\ e.at \in Nat
<1>1. \A n \in 1..MaxAttempts : n \in Nat
  BY BudgetAssumption
<1>2. QED
  BY <1>1, BudgetAssumption DEF Request

LEMMA LedgerFields ==
    ASSUME NEW l \in Ledger
    PROVE  /\ l.last # None => l.last \in Times /\ l.last \in Nat
           /\ \A m \in Minutes : l.attempts[m] \in Nat
<1>1. l.last # None => l.last \in Times
  BY DEF Ledger
<1>2. l.attempts \in [Minutes -> 0..MaxAttempts]
  BY DEF Ledger
<1>3. \A n \in 0..MaxAttempts : n \in Nat
  BY BudgetAssumption
<1>4. QED
  BY <1>1, <1>2, <1>3, BudgetAssumption

\* Applying an accepted event to a ledger gives a ledger.
LEMMA ApplyType ==
    ASSUME NEW l \in Ledger, NEW e \in Event, Valid(l, e)
    PROVE  Apply(l, e) \in Ledger
<1>1. CASE e \in Request
  <2>1. /\ e.kind = "request"
        /\ e.at \in Times /\ e.minute \in Minutes /\ e.attempt \in 0..MaxAttempts
    BY <1>1, BudgetAssumption DEF Request
  <2>2. [l.attempts EXCEPT ![e.minute] = e.attempt] \in [Minutes -> 0..MaxAttempts]
    BY <2>1 DEF Ledger
  <2>3. Apply(l, e) = [l EXCEPT !.last = e.at,
                                !.attempts = [l.attempts EXCEPT ![e.minute] = e.attempt],
                                !.pending = TRUE]
    BY <2>1 DEF Apply
  <2>4. QED
    BY <2>1, <2>2, <2>3 DEF Ledger
<1>2. CASE e \in Received
  BY <1>2, BudgetAssumption DEF Apply, Ledger, Received
<1>3. CASE e = Finish
  BY <1>3, BudgetAssumption DEF Apply, Ledger, Finish
<1>4. CASE e = Stop
  BY <1>4, BudgetAssumption DEF Apply, Ledger, Stop
<1>5. QED
  BY <1>1, <1>2, <1>3, <1>4 DEF Event

\* An accepted event never takes back an attempt or the last request time, and
\* a request adds exactly its own.
LEMMA ApplyMonotone ==
    ASSUME NEW l \in Ledger, NEW e \in Event, Valid(l, e)
    PROVE  /\ \A m \in Minutes : Apply(l, e).attempts[m] >= l.attempts[m]
           /\ l.last # None =>
                  Apply(l, e).last # None /\ Apply(l, e).last >= l.last
           /\ e \in Request =>
                  /\ Apply(l, e).attempts[e.minute] = e.attempt
                  /\ Apply(l, e).last = e.at
                  /\ e.attempt = l.attempts[e.minute] + 1
                  /\ l.last # None => e.at >= l.last + Spacing
<1>1. CASE e \in Request
  BY <1>1, BudgetAssumption DEF Apply, Ledger, Request, Valid, ValidRequest
<1>2. CASE e \in Received
  BY <1>2, BudgetAssumption DEF Apply, Ledger, Received, Request
<1>3. CASE e = Finish
  BY <1>3, BudgetAssumption DEF Apply, Ledger, Finish, Request
<1>4. CASE e = Stop
  BY <1>4, BudgetAssumption DEF Apply, Ledger, Stop, Request
<1>5. QED
  BY <1>1, <1>2, <1>3, <1>4 DEF Event

\* What an accepted event does to a ledger that counts the wire: it still does,
\* and a request is ahead of everything on the wire.
LEMMA ApplyCounts ==
    ASSUME NEW l \in Ledger, NEW e \in Event, Valid(l, e),
           wire \in Seq(Request), Counts(l)
    PROVE  /\ Counts(Apply(l, e))
           /\ e \in Request => Ahead(e)
<1> DEFINE l2 == Apply(l, e)
<1>1. l2 \in Ledger
  BY ApplyType
<1>2. SUFFICES ASSUME NEW i \in DOMAIN wire
               PROVE  /\ wire[i].attempt <= l2.attempts[wire[i].minute]
                      /\ l2.last # None
                      /\ wire[i].at <= l2.last
                      /\ e \in Request =>
                             /\ e.at >= wire[i].at + Spacing
                             /\ e.minute = wire[i].minute => e.attempt > wire[i].attempt
  BY DEF Counts, Ahead
<1>3. wire[i] \in Request
  OBVIOUS
<1>4. /\ wire[i].minute \in Minutes
      /\ wire[i].attempt \in Nat
      /\ wire[i].at \in Nat
  BY <1>3, RequestFields
<1>5. /\ wire[i].attempt <= l.attempts[wire[i].minute]
      /\ l.last # None
      /\ wire[i].at <= l.last
  BY DEF Counts
<1>6. /\ l.last \in Nat
      /\ l2.last # None => l2.last \in Nat
      /\ \A m \in Minutes : l.attempts[m] \in Nat /\ l2.attempts[m] \in Nat
  BY <1>1, <1>5, LedgerFields
<1>7. e \in Request => e.at \in Nat /\ e.minute \in Minutes /\ e.attempt \in Nat
  BY RequestFields
<1>8. Spacing \in Nat
  BY BudgetAssumption
<1>9. QED
  BY <1>4, <1>5, <1>6, <1>7, <1>8, ApplyMonotone

-----------------------------------------------------------------------------
\* The variables keep their types: every reachable ledger of a session is one
\* the code's fields can hold.
THEOREM TypeCorrect == Spec => []TypeOK
<1>1. Init => TypeOK
  BY BudgetAssumption DEF Init, TypeOK, EmptyLedger, Ledger
<1>2. TypeOK /\ [Next]_vars => TypeOK'
  <2> SUFFICES ASSUME TypeOK, [Next]_vars PROVE TypeOK'
    OBVIOUS
  <2> USE DEF TypeOK
  <2>1. ASSUME NEW p \in Procs, Open(p) PROVE TypeOK'
    <3>1. view' \in Ledger
      BY <2>1, ApplyType DEF Open
    <3>2. QED
      BY <2>1, <3>1 DEF Open
  <2>2. ASSUME NEW p \in Procs, NEW e \in Event, Extend(p, e) PROVE TypeOK'
    BY <2>2, ApplyType DEF Extend
  <2>3. ASSUME NEW p \in Procs, Return(p) PROVE TypeOK'
    <3>1. call.kind = "request" => call \in Request
      BY <2>3 DEF Return, Event, Request, Received, Finish, Stop
    <3>2. QED
      BY <2>3, <3>1 DEF Return
  <2>4. ASSUME NEW p \in Procs, Fail(p) PROVE TypeOK'
    BY <2>4 DEF Fail
  <2>5. ASSUME NEW p \in Procs, Send(p) PROVE TypeOK'
    BY <2>5 DEF Send
  <2>6. ASSUME NEW p \in Procs, Close(p) PROVE TypeOK'
    BY <2>6 DEF Close
  <2>7. CASE UNCHANGED vars
    BY <2>7 DEF vars
  <2>8. QED
    BY <2>1, <2>2, <2>3, <2>4, <2>5, <2>6, <2>7 DEF Next
<1>3. QED
  BY <1>1, <1>2, PTL DEF Spec

\* Every ledger in use has counted everything on the wire, and a request about
\* to leave is ahead of all that left before it.
THEOREM CountedFirst == Spec => []IInv
<1>1. Init => IInv
  BY NoneAssumption DEF Init, IInv, Counts, Event
<1>2. TypeOK /\ TypeOK' /\ IInv /\ [Next]_vars => IInv'
  <2> SUFFICES ASSUME TypeOK, TypeOK', IInv, [Next]_vars PROVE IInv'
    OBVIOUS
  <2>0. None \notin Request /\ Request \subseteq Event
    BY NoneAssumption DEF Event
  <2>1. ASSUME NEW p \in Procs, Open(p) PROVE IInv'
    <3>1. Counts(view')
      BY <2>1, ApplyCounts DEF Open, IInv, TypeOK
    <3>2. call = None /\ intent = None
      BY <2>1 DEF Open, IInv
    <3>3. QED
      BY <2>0, <2>1, <3>1, <3>2, ProcAssumption DEF Open, IInv, Counts
  <2>2. ASSUME NEW p \in Procs, NEW e \in Event, Extend(p, e) PROVE IInv'
    <3>1. /\ Counts(Apply(view, e))
          /\ e \in Request => Ahead(e)
      BY <2>2, ApplyCounts DEF Extend, IInv, TypeOK
    <3>2. e \in Request => /\ view'.attempts[e.minute] = e.attempt
                           /\ view'.last = e.at
      BY <2>2, ApplyMonotone DEF Extend, TypeOK
    <3>3. QED
      BY <2>0, <2>2, <3>1, <3>2, ProcAssumption DEF Extend, IInv, Counts, Ahead
  <2>3. ASSUME NEW p \in Procs, Return(p) PROVE IInv'
    <3>1. intent' \in Request => call \in Request /\ intent' = call
      BY <2>0, <2>3 DEF Return
    <3>2. QED
      BY <2>0, <2>3, <3>1, ProcAssumption DEF Return, IInv, Counts, Ahead
  <2>4. ASSUME NEW p \in Procs, Fail(p) PROVE IInv'
    BY <2>0, <2>4 DEF Fail, IInv, Counts, Ahead
  <2>5. ASSUME NEW p \in Procs, Send(p) PROVE IInv'
    <3>1. /\ intent \in Request /\ call = None
          /\ Ahead(intent) /\ view = acked
          /\ acked.attempts[intent.minute] = intent.attempt /\ acked.last = intent.at
      BY <2>5 DEF Send, IInv, TypeOK
    <3>2. Counts(acked)'
      <4> SUFFICES ASSUME NEW i \in DOMAIN wire'
                   PROVE  /\ wire'[i].attempt <= acked.attempts[wire'[i].minute]
                          /\ acked.last # None
                          /\ wire'[i].at <= acked.last
        BY <2>5 DEF Send, Counts
      <4>1. intent.attempt \in Nat /\ intent.at \in Nat /\ intent.at # None
        BY <3>1, RequestFields, BudgetAssumption
      <4>2. CASE i \in DOMAIN wire
        BY <2>5, <4>2 DEF Send, Counts, IInv, TypeOK
      <4>3. CASE i = Len(wire) + 1
        BY <2>5, <3>1, <4>1, <4>3 DEF Send, TypeOK
      <4>4. QED
        BY <2>5, <4>2, <4>3 DEF Send, TypeOK
    <3>3. QED
      BY <2>0, <2>5, <3>1, <3>2 DEF Send, IInv, Counts
  <2>6. ASSUME NEW p \in Procs, Close(p) PROVE IInv'
    BY <2>0, <2>6 DEF Close, IInv, Counts
  <2>7. CASE UNCHANGED vars
    BY <2>7 DEF vars, IInv, Counts, Ahead
  <2>8. QED
    BY <2>1, <2>2, <2>3, <2>4, <2>5, <2>6, <2>7 DEF Next
<1>3. QED
  BY <1>1, <1>2, TypeCorrect, PTL DEF Spec

\* No attempt is ever sent twice and any two requests are Spacing apart,
\* whichever sessions and processes sent them (record_request's checks, through
\* every restart).
THEOREM NeverRepeated == Spec => [](AttemptsIncrease /\ RequestsSpaced)
<1> DEFINE Inv == AttemptsIncrease /\ RequestsSpaced
<1>1. Init => Inv
  BY DEF Init, AttemptsIncrease, RequestsSpaced
<1>2. TypeOK /\ IInv /\ Inv /\ [Next]_vars => Inv'
  <2> SUFFICES ASSUME TypeOK, IInv, Inv, [Next]_vars PROVE Inv'
    OBVIOUS
  <2>1. CASE UNCHANGED wire
    BY <2>1 DEF AttemptsIncrease, RequestsSpaced
  <2>2. ASSUME NEW p \in Procs, Send(p) PROVE Inv'
    <3>1. Ahead(intent)
      BY <2>2 DEF Send, IInv, TypeOK
    <3>2. SUFFICES ASSUME NEW i \in DOMAIN wire', NEW j \in DOMAIN wire', i < j
                   PROVE  /\ wire'[j].at >= wire'[i].at + Spacing
                          /\ wire'[i].minute = wire'[j].minute =>
                                 wire'[i].attempt < wire'[j].attempt
      BY DEF AttemptsIncrease, RequestsSpaced
    <3>3. i \in DOMAIN wire /\ wire'[i] = wire[i]
      BY <2>2, <3>2 DEF Send, TypeOK
    <3>4. CASE j \in DOMAIN wire
      <4>1. wire'[j] = wire[j]
        BY <2>2, <3>4 DEF Send, TypeOK
      <4>2. QED
        BY <3>2, <3>3, <3>4, <4>1 DEF AttemptsIncrease, RequestsSpaced
    <3>5. CASE j = Len(wire) + 1
      <4>1. wire'[j] = intent
        BY <2>2, <3>5 DEF Send, TypeOK
      <4>2. /\ wire[i].attempt \in Nat
            /\ intent.attempt \in Nat
        BY <2>2, <3>3, RequestFields DEF Send, TypeOK
      <4>3. QED
        BY <3>1, <3>3, <4>1, <4>2 DEF Ahead
    <3>6. QED
      BY <2>2, <3>4, <3>5 DEF Send, TypeOK
  <2>3. QED
    BY <2>1, <2>2 DEF Next, Open, Extend, Return, Fail, Close, vars
<1>3. QED
  BY <1>1, <1>2, TypeCorrect, CountedFirst, PTL DEF Spec
=============================================================================
