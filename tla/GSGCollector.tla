---------------------------- MODULE GSGCollector ----------------------------
(***************************************************************************)
(* The prospective GSG pilot: one worker process per reporting slot        *)
(* (sentiment/pilot_runner.py, worker), each running one session of the    *)
(* network client (sentiment/network.py, GSGNetworkClient) over the store  *)
(* of receipts, gaps, claims and closeout and the durable budget journal.  *)
(*                                                                         *)
(* The journal's flock admits one session (PilotBudget, OneSession), so    *)
(* the session is one process; the workers that have passed worker()'s     *)
(* slot check and have not entered are a set.  A journal call and a bundle *)
(* publication are one step here; PilotBudget and ContentStore show what a *)
(* crash inside them leaves: the event or bundle, nothing, or a journal no *)
(* later session can load.  The client may raise, and the process may die, *)
(* at every step.                                                          *)
(***************************************************************************)
EXTENDS Receipts

CONSTANTS
    None

VARIABLES
    now,            \* the reporting slot the UTC clock is in; Slots when past
    launched,       \* slot arguments of workers that are about to enter
    \* The store.
    budget,         \* the journal: attempts, pending, halted, loadable
    receipts,       \* publications attempt-00000001, ...
    gaps,           \* minutes with a published terminal gap
    claims,         \* slots with a published live-worker-claim
    closeout,       \* the published closeout, or None
    \* The session.
    phase,
    index,          \* the slot argument of its worker
    slot,           \* _worker_index, from the clock at __enter__
    chain,          \* _receipts
    minute,
    attempt,
    answer,         \* the response to the current attempt
    inventory,      \* payload_inventory and labels, while closing out
    \* History, read by the properties only.
    wire,           \* every request sent, in order
    sealed,         \* closeout() has returned
    faulted         \* a process died, or a stop could not be recorded

store   == <<budget, receipts, gaps, claims, closeout>>
session == <<phase, index, slot, chain, minute, attempt, answer, inventory>>
history == <<wire, sealed, faulted>>
vars    == <<now, launched, store, session, history>>

Budget == [attempts: [Minutes -> 0..MaxAttempts], pending: BOOLEAN,
           halted: BOOLEAN, loadable: BOOLEAN]

\* What payload_inventory covers: everything but the closeout bundle.
Inventory == [budget |-> budget, receipts |-> receipts, gaps |-> gaps, claims |-> claims]

\* A closeout: the inventory and the labels of the slots.
Closeouts ==
    [payload: [budget: Budget, receipts: Seq(Receipt), gaps: SUBSET Minutes,
               claims: SUBSET (0..(Slots - 1))],
     labels: [0..(Slots - 1) -> {"verified", "provider_gap", "uncovered"}]]

ASSUME NoneAssumption == None \notin Closeouts

Open   == {"claim", "loop", "intent", "dispatch", "receipt", "finish", "decide",
           "gap", "outcome", "closeout", "publish", "seal"}
Phases == Open \cup {"idle", "raised", "closed"}

\* The store, the session and the history of the pilot are typed.
TypeOK ==
    /\ now \in 0..Slots
    /\ launched \subseteq 0..(Slots - 1)
    /\ budget \in Budget
    /\ receipts \in Seq(Receipt)
    /\ gaps \subseteq Minutes
    /\ claims \subseteq 0..(Slots - 1)
    /\ closeout \in Closeouts \cup {None}
    /\ phase \in Phases
    /\ index \in (0..(Slots - 1)) \cup {None}
    /\ slot \in (0..(Slots - 1)) \cup {None}
    /\ chain \in Seq(Receipt)
    /\ minute \in (1..(Slots * PerSlot + 1)) \cup {None}
    /\ attempt \in 0..MaxAttempts
    /\ answer \in Responses \cup {None}
    /\ inventory \in Closeouts \cup {None}
    /\ wire \in Seq([minute: Minutes, attempt: 1..MaxAttempts])
    /\ sealed \in BOOLEAN
    /\ faulted \in BOOLEAN

Init ==
    /\ now = 0
    /\ launched = {}
    /\ budget = [attempts |-> [m \in Minutes |-> 0], pending |-> FALSE,
                 halted |-> FALSE, loadable |-> TRUE]
    /\ receipts = <<>>
    /\ gaps = {}
    /\ claims = {}
    /\ closeout = None
    /\ phase = "idle"
    /\ index = None
    /\ slot = None
    /\ chain = <<>>
    /\ minute = None
    /\ attempt = 0
    /\ answer = None
    /\ inventory = None
    /\ wire = <<>>
    /\ sealed = FALSE
    /\ faulted = FALSE

\* The session ends and the flock is released.
Leave ==
    /\ phase' = "idle"
    /\ index' = None
    /\ slot' = None
    /\ chain' = <<>>
    /\ minute' = None
    /\ attempt' = 0
    /\ answer' = None
    /\ inventory' = None

\* _remaining: the slot the session is bound to has not ended.
InTime == now = slot

-----------------------------------------------------------------------------
\* The UTC clock reaches the next slot.
Tick ==
    /\ now < Slots
    /\ now' = now + 1
    /\ UNCHANGED <<launched, store, session, history>>

\* worker: launchd, or an operator, starts the worker of the current slot.
Launch(i) ==
    /\ now = i
    /\ i \notin launched
    /\ launched' = launched \cup {i}
    /\ UNCHANGED <<now, store, session, history>>

\* It dies, finds the flock taken, or is refused by __enter__, which writes
\* nothing.
Abandon(i) ==
    /\ i \in launched
    /\ launched' = launched \ {i}
    /\ UNCHANGED <<now, store, session, history>>

\* What __enter__ needs of the store: no closeout, a usable journal, a chain
\* that verifies and accounts for every attempt of the journal, and the gap of
\* every minute that ended without a complete file.
Accounted ==
    /\ ChainVerified(receipts)
    /\ AttemptsOf(receipts) = budget.attempts
    /\ \A i \in DOMAIN receipts :
          IsFinal(receipts, i) /\ ~Complete(receipts[i].response) =>
              /\ GapEstablished(receipts, receipts[i].minute)
              /\ receipts[i].minute \in gaps

Hydratable ==
    /\ closeout = None
    /\ budget.loadable
    /\ ~budget.pending
    /\ ~budget.halted
    /\ Accounted

Enter(i) ==
    /\ phase = "idle"
    /\ i \in launched
    /\ launched' = launched \ {i}
    /\ now < Slots
    /\ Hydratable
    /\ phase' = "claim"
    /\ index' = i
    /\ slot' = now
    /\ chain' = receipts
    /\ UNCHANGED <<now, store, minute, attempt, answer, inventory, history>>

-----------------------------------------------------------------------------
\* _worker_run: the claim makes the invocation one-shot; finding one raises.
Claim ==
    /\ phase = "claim"
    /\ index \notin claims
    /\ claims' = claims \cup {index}
    /\ minute' = index * PerSlot + 1
    /\ phase' = "loop"
    /\ UNCHANGED <<now, launched, budget, receipts, gaps, closeout, index, slot, chain,
                   attempt, answer, inventory, wire, sealed, faulted>>

\* _retrieve, for each minute of the worker's argument slot: the coverage gate,
\* no minute at or before the last receipt's, and only minutes of _worker_index.
Retrieve ==
    /\ phase = "loop"
    /\ minute <= (index + 1) * PerSlot
    /\ InTime
    /\ Attainable(chain, slot)
    /\ chain # <<>> => minute > chain[Len(chain)].minute
    /\ SlotOf(minute) = slot
    /\ attempt' = 1
    /\ phase' = "intent"
    /\ UNCHANGED <<now, launched, store, index, slot, chain, minute, answer, inventory, history>>

\* record_request
RecordIntent ==
    /\ phase = "intent"
    /\ ~budget.pending
    /\ ~budget.halted
    /\ attempt = budget.attempts[minute] + 1
    /\ budget' = [budget EXCEPT !.attempts[minute] = attempt, !.pending = TRUE]
    /\ phase' = "dispatch"
    /\ UNCHANGED <<now, launched, receipts, gaps, claims, closeout, index, slot, chain,
                   minute, attempt, answer, inventory, history>>

\* Mutant of Dispatch: the transport opens again by itself.
Dispatch_again ==
    /\ phase = "dispatch"
    /\ InTime
    /\ \E n \in 1..2 : wire' = wire \o [i \in 1..n |-> [minute |-> minute, attempt |-> attempt]]
    /\ answer' \in Responses
    /\ phase' = "receipt"
    /\ UNCHANGED <<now, launched, store, index, slot, chain, minute, attempt, inventory,
                   sealed, faulted>>

\* transport.open and the whole body.
Dispatch ==
    /\ phase = "dispatch"
    /\ InTime
    /\ wire' = Append(wire, [minute |-> minute, attempt |-> attempt])
    /\ answer' \in Responses
    /\ phase' = "receipt"
    /\ UNCHANGED <<now, launched, store, index, slot, chain, minute, attempt, inventory,
                   sealed, faulted>>

\* The receipt is signed, verified with the chain before it, and published.
NewReceipt == [minute |-> minute, attempt |-> attempt, response |-> answer]

PublishReceipt ==
    /\ phase = "receipt"
    /\ InTime
    /\ ChainVerified(Append(chain, NewReceipt))
    /\ Len(receipts) = Len(chain)
    /\ receipts' = Append(receipts, NewReceipt)
    /\ chain' = Append(chain, NewReceipt)
    /\ phase' = "finish"
    /\ UNCHANGED <<now, launched, budget, gaps, claims, closeout, index, slot, minute,
                   attempt, answer, inventory, history>>

\* finish_request
FinishRequest ==
    /\ phase = "finish"
    /\ budget.pending
    /\ budget' = [budget EXCEPT !.pending = FALSE]
    /\ phase' = "decide"
    /\ UNCHANGED <<now, launched, receipts, gaps, claims, closeout, index, slot, chain,
                   minute, attempt, answer, inventory, history>>

\* A complete file ends the minute, a transient response is retried after its
\* backoff, anything else becomes a terminal gap.
Decide ==
    /\ phase = "decide"
    /\ InTime
    /\ \/ /\ Complete(answer)
          /\ phase' = "loop"
          /\ minute' = minute + 1
          /\ UNCHANGED attempt
       \/ /\ Retryable(answer)
          /\ attempt < MaxAttempts
          /\ phase' = "intent"
          /\ attempt' = attempt + 1
          /\ UNCHANGED minute
       \/ /\ ~Complete(answer)
          /\ Retryable(answer) => attempt = MaxAttempts
          /\ phase' = "gap"
          /\ UNCHANGED <<minute, attempt>>
    /\ answer' = IF phase' = "gap" THEN answer ELSE None
    /\ UNCHANGED <<now, launched, store, index, slot, chain, inventory, history>>

\* Mutant of PublishGap: only failures are published, not verified absences.
PublishGap_failuresOnly ==
    /\ phase = "gap"
    /\ GapEstablished(chain, minute)
    /\ gaps' = IF Covered(answer) THEN gaps ELSE gaps \cup {minute}
    /\ phase' = "outcome"
    /\ UNCHANGED <<now, launched, budget, receipts, claims, closeout, index, slot, chain,
                   minute, attempt, answer, inventory, history>>

PublishGap ==
    /\ phase = "gap"
    /\ GapEstablished(chain, minute)
    /\ gaps' = gaps \cup {minute}
    /\ phase' = "outcome"
    /\ UNCHANGED <<now, launched, budget, receipts, claims, closeout, index, slot, chain,
                   minute, attempt, answer, inventory, history>>

\* The coverage gate again; then the minute is over, except that a transfer
\* that never completed stops the pilot.
MinuteOver ==
    /\ phase = "outcome"
    /\ InTime
    /\ Attainable(chain, slot)
    /\ answer.complete
    /\ phase' = "loop"
    /\ minute' = minute + 1
    /\ answer' = None
    /\ UNCHANGED <<now, launched, store, index, slot, chain, attempt, inventory, history>>

-----------------------------------------------------------------------------
\* The loop is over: the last worker closes the pilot out, the others end.
WorkerFinished ==
    /\ phase = "loop"
    /\ minute > (index + 1) * PerSlot
    /\ index # Slots - 1
    /\ Leave
    /\ UNCHANGED <<now, launched, store, history>>

StartCloseout ==
    /\ phase = "loop"
    /\ minute > (index + 1) * PerSlot
    /\ index = Slots - 1
    /\ phase' = "closeout"
    /\ UNCHANGED <<now, launched, store, index, slot, chain, minute, attempt, answer,
                   inventory, history>>

\* _closeout: reload and verify the store, label the slots, take the inventory,
\* sign, and verify what was signed.
Closeout ==
    /\ phase = "closeout"
    /\ InTime
    /\ closeout = None
    /\ Accounted
    /\ CloseoutVerified(receipts, Outcomes(receipts))
    /\ chain' = receipts
    /\ inventory' = [payload |-> Inventory, labels |-> Outcomes(receipts)]
    /\ phase' = "publish"
    /\ UNCHANGED <<now, launched, store, index, slot, minute, attempt, answer, history>>

PublishCloseout ==
    /\ phase = "publish"
    /\ InTime
    /\ closeout' = inventory
    /\ phase' = "seal"
    /\ UNCHANGED <<now, launched, budget, receipts, gaps, claims, index, slot, chain,
                   minute, attempt, answer, inventory, history>>

\* Mutant of Seal: closeout() returns before _closed_out is set.
Seal_open ==
    /\ phase = "seal"
    /\ InTime
    /\ sealed' = TRUE
    /\ UNCHANGED <<now, launched, store, session, wire, faulted>>

\* One more look at the deadline, then _closed_out and closeout() returns.
Seal ==
    /\ phase = "seal"
    /\ InTime
    /\ sealed' = TRUE
    /\ phase' = "closed"
    /\ UNCHANGED <<now, launched, store, index, slot, chain, minute, attempt, answer,
                   inventory, wire, faulted>>

\* Mutant of CloseSession: it waits for a verification that may never succeed.
CloseSession_waits ==
    /\ phase = "closed"
    /\ UNCHANGED vars

\* verify_retained_closeout, and the end whether or not it or the caller raises:
\* a closed session records no stop.
CloseSession ==
    /\ phase = "closed"
    /\ Leave
    /\ UNCHANGED <<now, launched, store, history>>

-----------------------------------------------------------------------------
\* A journal call of the session may have been cut short: the journal is then
\* as before the call, or no later session can load it.
CutShort ==
    /\ budget' \in {budget} \cup
           IF phase \in {"intent", "finish", "raised"}
           THEN {[budget EXCEPT !.loadable = FALSE]} ELSE {}
    /\ UNCHANGED <<receipts, gaps, claims, closeout>>

\* Any exception of an open session: a failed check, deadline, transport or
\* system call, or a claim that exists.
Raise ==
    /\ phase \in Open
    /\ CutShort
    /\ phase' = "raised"
    /\ UNCHANGED <<now, launched, index, slot, chain, minute, attempt, answer, inventory,
                   history>>

\* Mutant of Stop: no stop is recorded.
Stop_notRecorded ==
    /\ phase = "raised"
    /\ Leave
    /\ UNCHANGED <<now, launched, store, history>>

\* The exception handlers of retrieve, closeout and __exit__ record a stop; a
\* later session finds the pilot halted.
Stop ==
    /\ phase = "raised"
    /\ budget' = [budget EXCEPT !.halted = TRUE]
    /\ Leave
    /\ UNCHANGED <<now, launched, receipts, gaps, claims, closeout, history>>

StopFails ==
    /\ phase = "raised"
    /\ CutShort
    /\ Leave
    /\ faulted' = TRUE
    /\ UNCHANGED <<now, launched, wire, sealed>>

\* The watchdog's SIGKILL at the end of the slot, or any other death.
Kill ==
    /\ phase # "idle"
    /\ CutShort
    /\ Leave
    /\ faulted' = TRUE
    /\ UNCHANGED <<now, launched, wire, sealed>>

Work ==
    \/ Claim \/ Retrieve \/ RecordIntent \/ Dispatch \/ PublishReceipt \/ FinishRequest
    \/ Decide \/ PublishGap \/ MinuteOver \/ WorkerFinished \/ StartCloseout
    \/ Closeout \/ PublishCloseout \/ Seal \/ CloseSession \/ Raise \/ Stop \/ StopFails

Next ==
    \/ Tick
    \/ \E i \in 0..(Slots - 1) : Launch(i) \/ Abandon(i) \/ Enter(i)
    \/ Work
    \/ Kill

Spec == Init /\ [][Next]_vars

\* A running process goes on: blocked reads are bounded by the HTTP timeout and
\* the watchdog.  Launches, the clock and deaths are owed nothing.
FairSpec == Spec /\ WF_vars(Work)

-----------------------------------------------------------------------------
\* Over the whole pilot, requests leave in plan order, and a minute is asked
\* again only after a receipt of a transient response to its last attempt was
\* published: no crash, relaunch or overlap of workers repeats or reorders one.
RequestsInOrder ==
    \A i, j \in DOMAIN wire : i < j =>
        /\ wire[i].minute <= wire[j].minute
        /\ wire[i].minute = wire[j].minute =>
              /\ wire[i].attempt < wire[j].attempt
              /\ \E k \in DOMAIN receipts :
                    /\ receipts[k].minute = wire[i].minute
                    /\ receipts[k].attempt = wire[i].attempt
                    /\ receipts[k].response.complete
                    /\ receipts[k].response.status = "transient"

\* A closeout accounts for every request that was ever sent: none was lost with
\* the process that sent it.
CloseoutCountsAll ==
    closeout # None =>
        /\ Len(wire) = Len(receipts)
        /\ \A i \in DOMAIN wire :
              wire[i].minute = receipts[i].minute /\ wire[i].attempt = receipts[i].attempt

\* The coverage gate stops every pilot that cannot reach the required coverage:
\* one that gets as far as its closeout has reached it.
CoverageAtCloseout ==
    closeout # None =>
        Cardinality({s \in DOMAIN closeout.labels : closeout.labels[s] = "verified"}) >= Required

\* The labels the client computes from all receipts are those verify_closeout
\* derives from the last receipt of each minute.
LabelsVerify == CloseoutVerified(receipts, Outcomes(receipts))

\* Once closeout() has returned nothing changes what its signed inventory
\* covers: not its own process's later errors, not another worker.
SealedInventoryHolds == sealed => closeout # None /\ closeout.payload = Inventory

\* A worker that ends without a fault hands over a store the next one accepts.
CleanHandover ==
    phase = "idle" /\ ~faulted /\ ~budget.halted /\ closeout = None => Hydratable

\* A session always ends and gives the journal back to the next worker.
SessionEnds == phase # "idle" ~> phase = "idle"

\* When the last slot's worker the pilot is decided: closed out, halted,
\* or left to review after a fault.
LastWorkerDecides ==
    (Slots - 1) \in claims ~> closeout # None \/ budget.halted \/ faulted
=============================================================================
