------------------------------ MODULE Receipts ------------------------------
(***************************************************************************)
(* The signed receipt chain of the GSG pilot and what is read from it: the *)
(* outcome of a minute, the retry rule, the coverage of a reporting slot,  *)
(* the closeout labels and their independent verification                  *)
(* (sentiment/receipts.py, and the helpers of sentiment/network.py).       *)
(* A receipt keeps its minute, attempt and the class of its response;      *)
(* hashes and signatures are abstracted to the order of the chain.         *)
(***************************************************************************)
EXTENDS Integers, Sequences, FiniteSets

CONSTANTS
    Slots,          \* reporting slots of the plan (48 or 96)
    PerSlot,        \* minutes of a slot (15)
    Required,       \* required_verified_slots (46 or 92)
    MaxAttempts,    \* attempts allowed for one minute (4)
    Responses       \* the classes of response the provider may give

\* HTTP 200, 404, 429 or 5xx, anything else; whether the body is an empty byte
\* string, a parseable gzip minute file or other bytes.
Status == {"ok", "absent", "transient", "refused"}
Body   == {"gzip", "empty", "other"}

ASSUME PlanAssumption ==
    /\ Slots \in Nat \ {0}
    /\ PerSlot \in Nat \ {0}
    /\ Required \in 1..Slots
    /\ MaxAttempts \in Nat \ {0}
    /\ Responses \subseteq [status: Status, complete: BOOLEAN, body: Body]

\* Minutes by their position in the plan, and the slot each belongs to.
Minutes   == 1..(Slots * PerSlot)
SlotOf(m) == (m - 1) \div PerSlot
Receipt   == [minute: Minutes, attempt: 1..MaxAttempts, response: Responses]

\* A 200 with a whole gzip body, after the transfer and framing verdicts.
Complete(r) == r.status = "ok" /\ r.complete /\ r.body = "gzip"

\* _minute_outcome
MinuteOutcome(r) ==
    CASE Complete(r) -> "complete_gzip"
      [] r.status = "absent" /\ r.complete /\ r.body = "empty" -> "verified_empty"
      [] OTHER -> "unresolved_provider_gap"

Covered(r) == MinuteOutcome(r) \in {"complete_gzip", "verified_empty"}

\* Mutant of Retryable: an incomplete transfer is retried too.
Retryable_incomplete(r) == r.status = "transient"

\* _retryable_receipt of the client
Retryable(r) == r.complete /\ r.status = "transient"

\* _terminal_unresolved
TerminalUnresolved(receipt) ==
    LET r == receipt.response IN
    /\ MinuteOutcome(r) = "unresolved_provider_gap"
    /\ ~(r.complete /\ r.status = "transient") \/ receipt.attempt = MaxAttempts

\* The receipts of a slot, and the last one of each minute.
InSlot(chain, s) == {i \in DOMAIN chain : SlotOf(chain[i].minute) = s}
IsFinal(chain, i) == \A j \in DOMAIN chain : j > i => chain[j].minute # chain[i].minute
FinalIn(chain, s) == {i \in InSlot(chain, s) : IsFinal(chain, i)}

\* verify_receipt_chain: minutes never go back, attempts are consecutive from
\* one, and only a complete transient response has a next attempt.
ChainVerified(chain) ==
    \A i \in DOMAIN chain :
        LET prior == {j \in 1..(i - 1) : chain[j].minute = chain[i].minute} IN
        /\ i > 1 => chain[i].minute >= chain[i - 1].minute
        /\ chain[i].attempt = Cardinality(prior) + 1
        /\ \A j \in prior : chain[j].response.complete /\ chain[j].response.status = "transient"

\* request_attempts as the chain implies them.
AttemptsOf(chain) ==
    [m \in Minutes |-> Cardinality({i \in DOMAIN chain : chain[i].minute = m})]

\* build_terminal_gap_evidence accepts a minute whose attempts have ended
\* without a complete file.
GapEstablished(chain, m) ==
    \E i \in DOMAIN chain :
        /\ chain[i].minute = m
        /\ IsFinal(chain, i)
        /\ ~Complete(chain[i].response)
        /\ Retryable(chain[i].response) => chain[i].attempt = MaxAttempts

\* _require_attainable_coverage of a worker at slot w: a slot is lost by a
\* terminal failure, or by being past with fewer than PerSlot covered minutes.
Lost(chain, s, w) ==
    \/ \E i \in FinalIn(chain, s) : TerminalUnresolved(chain[i])
    \/ s < w /\ Cardinality({i \in FinalIn(chain, s) : Covered(chain[i].response)}) < PerSlot

\* Mutant of Attainable: one slot too many may be lost.
Attainable_offByOne(chain, w) ==
    Slots - Cardinality({s \in 0..(Slots - 1) : Lost(chain, s, w)}) >= Required - 1

Attainable(chain, w) ==
    Slots - Cardinality({s \in 0..(Slots - 1) : Lost(chain, s, w)}) >= Required

\* Mutant of SlotOutcome: any gap comes before full coverage, and a retried
\* response already counts as one.
SlotOutcome_anyFailure(chain, s) ==
    IF \E i \in InSlot(chain, s) : ~Covered(chain[i].response) THEN "provider_gap"
    ELSE IF Cardinality(InSlot(chain, s)) = PerSlot THEN "verified" ELSE "uncovered"

\* The label _closeout gives a slot, from all its receipts.
SlotOutcome(chain, s) ==
    LET covered == {chain[i].minute : i \in {j \in InSlot(chain, s) : Covered(chain[j].response)}}
    IN  IF Cardinality(covered) = PerSlot THEN "verified"
        ELSE IF \E i \in InSlot(chain, s) : TerminalUnresolved(chain[i]) THEN "provider_gap"
        ELSE "uncovered"

Outcomes(chain) == [s \in 0..(Slots - 1) |-> SlotOutcome(chain, s)]

\* The check verify_closeout makes of a label, from the last receipts.
LabelVerified(chain, s, label) ==
    LET verified == /\ Cardinality(FinalIn(chain, s)) = PerSlot
                    /\ \A i \in FinalIn(chain, s) : Covered(chain[i].response)
        gap == \E i \in FinalIn(chain, s) : TerminalUnresolved(chain[i])
    IN  CASE label = "verified"     -> verified
          [] label = "provider_gap" -> gap
          [] OTHER                  -> ~verified /\ ~gap

CloseoutVerified(chain, labels) == \A s \in DOMAIN labels : LabelVerified(chain, s, labels[s])
=============================================================================
