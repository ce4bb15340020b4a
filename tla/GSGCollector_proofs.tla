-------------------------- MODULE GSGCollector_proofs --------------------------
(***************************************************************************)
(* Proofs about GSGCollector and the receipt chain: for any plan, retry    *)
(* limit and answers of the provider, requests leave in order, a closeout  *)
(* counts them all and has the required coverage, and what it sealed stays.*)
(***************************************************************************)
EXTENDS GSGCollector, FiniteSetTheorems, FunctionTheorems, TLAPS

\* The first and the last minute of a slot.
FirstOf(s) == s * PerSlot + 1
LastOf(s)  == (s + 1) * PerSlot

\* What a receipt or request r may follow: later minutes, or the next attempt of
\* a minute that got only complete transient responses.
Fits(receiptsBefore, r) ==
    \A i \in DOMAIN receiptsBefore :
        /\ receiptsBefore[i].minute <= r.minute
        /\ receiptsBefore[i].minute = r.minute =>
              /\ receiptsBefore[i].attempt < r.attempt
              /\ receiptsBefore[i].response.complete
              /\ receiptsBefore[i].response.status = "transient"

\* ChainVerified compares neighbours; this compares any two receipts.
Ordered(c) ==
    \A i, j \in DOMAIN c : i < j =>
        /\ c[i].minute <= c[j].minute
        /\ c[i].minute = c[j].minute =>
              /\ c[i].attempt < c[j].attempt
              /\ c[i].response.complete
              /\ c[i].response.status = "transient"

\* A chain as the collector publishes it.
SoundChain(c) == c \in Seq(Receipt) /\ Ordered(c)

Attempting == {"intent", "dispatch", "receipt", "finish", "decide", "gap", "outcome"}
Request    == [minute |-> minute, attempt |-> attempt]

\* The requests sent are the receipts, and perhaps one more whose journal entry
\* is pending for ever or until its receipt is published.
WireInv ==
    /\ Len(wire) \in {Len(receipts), Len(receipts) + 1}
    /\ \A i \in DOMAIN receipts :
          wire[i].minute = receipts[i].minute /\ wire[i].attempt = receipts[i].attempt
    /\ Len(wire) = Len(receipts) + 1 =>
          /\ budget.pending
          /\ phase \in {"receipt", "raised", "idle"}
          /\ Fits(receipts, wire[Len(wire)])
    /\ phase = "receipt" => Len(wire) = Len(receipts) + 1 /\ wire[Len(wire)] = Request

\* The journal counts the receipts, and the request that is on its way.
JournalInv ==
    /\ ~budget.pending \/ phase = "finish" => budget.attempts = AttemptsOf(receipts)
    /\ phase \in {"dispatch", "receipt"} =>
          /\ budget.attempts = [AttemptsOf(receipts) EXCEPT ![minute] = attempt]
          /\ attempt = AttemptsOf(receipts)[minute] + 1

\* What an open session knows in each phase.
SessionInv ==
    /\ phase \in Open =>
          /\ chain = receipts
          /\ index \in 0..(Slots - 1) /\ slot \in 0..(Slots - 1)
          /\ budget.loadable
          /\ phase \in {"dispatch", "receipt", "finish"} <=> budget.pending
    /\ phase \in Open \ {"claim"} => minute \in FirstOf(index)..(LastOf(index) + 1)
    /\ phase \in Attempting =>
          minute <= LastOf(index) /\ slot = index /\ attempt \in 1..MaxAttempts
    /\ phase = "loop" /\ minute > FirstOf(index) => slot = index
    /\ phase \in {"intent", "dispatch", "receipt"} => Fits(receipts, Request)
    /\ phase \in {"receipt", "finish", "decide", "gap", "outcome"} => answer \in Responses
    /\ phase \in {"finish", "decide", "gap", "outcome"} =>
          receipts # <<>> /\ receipts[Len(receipts)] = NewReceipt
    /\ phase \in {"gap", "outcome"} =>
          ~Complete(answer) /\ (Retryable(answer) => attempt = MaxAttempts)

\* Every minute other than m that ended without a file has its gap.
GapsBut(m) ==
    \A i \in DOMAIN receipts :
        IsFinal(receipts, i) /\ ~Complete(receipts[i].response) /\ receipts[i].minute # m =>
            /\ GapEstablished(receipts, receipts[i].minute)
            /\ receipts[i].minute \in gaps

GapInv ==
    /\ phase \in Open =>
          GapsBut(IF phase \in Attempting \ {"outcome"} THEN minute ELSE 0)
    /\ phase = "idle" /\ ~faulted /\ ~budget.halted /\ closeout = None =>
          budget.loadable /\ ~budget.pending /\ GapsBut(0)

\* The minutes of the worker before m ended: covered, or with a failure no
\* later attempt can mend.
DoneTo(m) ==
    \A k \in FirstOf(index)..(m - 1) : \E i \in DOMAIN receipts :
        /\ receipts[i].minute = k
        /\ IsFinal(receipts, i)
        /\ Covered(receipts[i].response) \/ TerminalUnresolved(receipts[i])

EnoughVerified(labels) ==
    Cardinality({s \in DOMAIN labels : labels[s] = "verified"}) >= Required

\* The coverage gate has been passed since the last failure that ended a minute.
CoverageInv ==
    /\ phase \in Attempting \cup {"loop"} => DoneTo(minute)
    /\ \/ phase \in {"intent", "dispatch", "receipt"}
       \/ phase \in {"finish", "decide"} /\ ~TerminalUnresolved(NewReceipt)
       \/ phase = "loop" /\ minute > FirstOf(index)
       => Attainable(receipts, slot)
    /\ phase = "closeout" =>
          /\ index = Slots - 1
          /\ DoneTo(LastOf(index) + 1)
          /\ Attainable(receipts, Slots - 1)

\* From the signing of the closeout on nothing it covers changes.
CloseoutInv ==
    /\ phase = "publish" =>
          inventory # None /\ inventory.payload = Inventory /\ EnoughVerified(inventory.labels)
    /\ phase = "seal" => closeout # None /\ closeout.payload = Inventory
    /\ closeout # None =>
          /\ phase \in {"seal", "closed", "raised", "idle"}
          /\ ~budget.pending
          /\ EnoughVerified(closeout.labels)
    /\ phase = "closed" => closeout # None
    /\ sealed =>
          /\ phase \in {"closed", "idle"}
          /\ closeout # None /\ closeout.payload = Inventory

IInv ==
    /\ TypeOK
    /\ ChainVerified(receipts) /\ Ordered(receipts)
    /\ WireInv /\ JournalInv /\ SessionInv /\ GapInv /\ CoverageInv /\ CloseoutInv

-----------------------------------------------------------------------------
\* The arithmetic of the plan.
LEMMA Slot ==
    ASSUME NEW s \in 0..(Slots - 1)
    PROVE  /\ FirstOf(s) \in Int /\ LastOf(s) \in Int /\ LastOf(s) = FirstOf(s) + PerSlot - 1
           /\ FirstOf(s) >= 1 /\ LastOf(s) <= Slots * PerSlot
           /\ Slots * PerSlot \in Nat
<1>0. Slots \in Nat /\ PerSlot \in Nat /\ PerSlot > 0 /\ s \in Nat /\ s + 1 <= Slots
  BY PlanAssumption
<1> DEFINE a == s * PerSlot
           b == (s + 1) * PerSlot
           c == Slots * PerSlot
           d == (Slots - s - 1) * PerSlot
<1>1. a \in Nat /\ b = a + PerSlot
  BY <1>0
<1>2. c = b + d /\ d \in Nat
  BY <1>0
<1> QED
  BY <1>0, <1>1, <1>2 DEF FirstOf, LastOf

\* Minutes of a slot by its first and last.
LEMMA SlotMinutes ==
    ASSUME NEW s \in 0..(Slots - 1), NEW m \in Int
    PROVE  SlotOf(m) = s <=> m \in FirstOf(s)..LastOf(s)
<1>0. PerSlot \in Int /\ PerSlot > 0 /\ s \in Int
  BY PlanAssumption
<1> DEFINE q == (m - 1) \div PerSlot
           r == (m - 1) % PerSlot
<1>1. q \in Int /\ r \in 0..(PerSlot - 1) /\ m - 1 = PerSlot * q + r
  BY <1>0, SMTT(30)
<1> SUFFICES q = s <=> m \in FirstOf(s)..LastOf(s)
  BY DEF SlotOf
<1> HIDE DEF q, r
<1>2. CASE q = s
  BY <1>0, <1>1, <1>2 DEF FirstOf, LastOf
<1>3. CASE q < s
  <2>1. PerSlot * (s - q) >= PerSlot
    BY <1>0, <1>1, <1>3
  <2> QED
    BY <1>0, <1>1, <1>3, <2>1 DEF FirstOf, LastOf
<1>4. CASE q > s
  <2>1. PerSlot * (q - s) >= PerSlot
    BY <1>0, <1>1, <1>4
  <2> QED
    BY <1>0, <1>1, <1>4, <2>1 DEF FirstOf, LastOf
<1> QED
  BY <1>0, <1>1, <1>2, <1>3, <1>4

\* The minutes of a slot are as many as the plan says.
LEMMA SlotSize ==
    ASSUME NEW s \in 0..(Slots - 1)
    PROVE  /\ IsFiniteSet(FirstOf(s)..LastOf(s))
           /\ Cardinality(FirstOf(s)..LastOf(s)) = PerSlot
BY Slot, FS_Interval, PlanAssumption

-----------------------------------------------------------------------------
\* A receipt that has a later one of its minute was a complete transient answer
\* before the last attempt: it covers nothing and ends nothing.
LEMMA RetriedIsOpen ==
    ASSUME NEW c, SoundChain(c), NEW i \in DOMAIN c, ~IsFinal(c, i)
    PROVE  ~Covered(c[i].response) /\ ~TerminalUnresolved(c[i]) /\ ~Complete(c[i].response)
<1>1. PICK j \in DOMAIN c : j > i /\ c[j].minute = c[i].minute
  BY DEF IsFinal
<1>2. /\ c[i].attempt < c[j].attempt
      /\ c[i].response.complete /\ c[i].response.status = "transient"
  BY <1>1 DEF SoundChain, Ordered
<1>3. c[i].attempt \in Int /\ c[j].attempt \in 1..MaxAttempts /\ MaxAttempts \in Nat
  <2>1. c[i] \in Receipt /\ c[j] \in Receipt
    BY DEF SoundChain
  <2> QED
    BY <2>1, PlanAssumption DEF Receipt
<1>4. c[i].attempt # MaxAttempts
  BY <1>2, <1>3
<1> QED
  BY <1>2, <1>4 DEF Covered, MinuteOutcome, Complete, TerminalUnresolved

\* Indices of a slot are finite in number, and its final ones are one per minute.
LEMMA FinalsOfSlot ==
    ASSUME NEW c, SoundChain(c), NEW s
    PROVE  /\ IsFiniteSet(InSlot(c, s)) /\ IsFiniteSet(FinalIn(c, s))
           /\ FinalIn(c, s) \subseteq DOMAIN c
           /\ \A i, j \in FinalIn(c, s) : c[i].minute = c[j].minute => i = j
<1>1. DOMAIN c = 1..Len(c) /\ Len(c) \in Nat
  BY DEF SoundChain
<1>2. IsFiniteSet(DOMAIN c)
  BY <1>1, FS_Interval
<1>3. InSlot(c, s) \subseteq DOMAIN c /\ FinalIn(c, s) \subseteq InSlot(c, s)
  BY DEF InSlot, FinalIn
<1>4. IsFiniteSet(InSlot(c, s)) /\ IsFiniteSet(FinalIn(c, s))
  BY <1>2, <1>3, FS_Subset
<1>5. ASSUME NEW i \in FinalIn(c, s), NEW j \in FinalIn(c, s), c[i].minute = c[j].minute
      PROVE  i = j
  <2>1. i \in Int /\ j \in Int /\ i \in DOMAIN c /\ j \in DOMAIN c
    BY <1>1, <1>3
  <2>2. IsFinal(c, i) /\ IsFinal(c, j)
    BY DEF FinalIn
  <2> QED
    BY <1>5, <2>1, <2>2 DEF IsFinal
<1> QED
  BY <1>3, <1>4, <1>5

\* The covered receipts of a slot, and the minutes they cover.
CoveredIn(c, s)      == {i \in InSlot(c, s) : Covered(c[i].response)}
CoveredMinutes(c, s) == {c[i].minute : i \in CoveredIn(c, s)}

\* They are final, as many as their minutes, and no more than the slot has.
LEMMA CoveredAreFinal ==
    ASSUME NEW c, SoundChain(c), NEW s \in 0..(Slots - 1)
    PROVE  /\ CoveredIn(c, s) \subseteq FinalIn(c, s)
           /\ CoveredIn(c, s) = {i \in FinalIn(c, s) : Covered(c[i].response)}
           /\ IsFiniteSet(CoveredIn(c, s)) /\ IsFiniteSet(CoveredMinutes(c, s))
           /\ Cardinality(CoveredMinutes(c, s)) = Cardinality(CoveredIn(c, s))
           /\ CoveredMinutes(c, s) \subseteq FirstOf(s)..LastOf(s)
           /\ Cardinality(CoveredIn(c, s)) \in 0..PerSlot
<1>1. CoveredIn(c, s) \subseteq FinalIn(c, s)
  BY RetriedIsOpen DEF CoveredIn, FinalIn, InSlot
<1>2. CoveredIn(c, s) = {i \in FinalIn(c, s) : Covered(c[i].response)}
  BY <1>1 DEF CoveredIn, FinalIn
<1>3. IsFiniteSet(CoveredIn(c, s))
  BY <1>1, FinalsOfSlot, FS_Subset
<1>4. ExistsBijection(CoveredIn(c, s), CoveredMinutes(c, s))
  <2> DEFINE f == [i \in CoveredIn(c, s) |-> c[i].minute]
  <2>1. f \in [CoveredIn(c, s) -> CoveredMinutes(c, s)]
    BY DEF CoveredMinutes
  <2>2. \A i, j \in CoveredIn(c, s) : f[i] = f[j] => i = j
    BY <1>1, FinalsOfSlot
  <2>3. \A t \in CoveredMinutes(c, s) : \E i \in CoveredIn(c, s) : f[i] = t
    BY DEF CoveredMinutes
  <2>4. f \in Bijection(CoveredIn(c, s), CoveredMinutes(c, s))
    BY <2>1, <2>2, <2>3, Fun_IsBij
  <2> QED
    BY <2>4 DEF ExistsBijection
<1>5. IsFiniteSet(CoveredMinutes(c, s))
      /\ Cardinality(CoveredMinutes(c, s)) = Cardinality(CoveredIn(c, s))
  BY <1>3, <1>4, FS_Bijection
<1>6. CoveredMinutes(c, s) \subseteq FirstOf(s)..LastOf(s)
  <2> SUFFICES ASSUME NEW i \in CoveredIn(c, s) PROVE c[i].minute \in FirstOf(s)..LastOf(s)
    BY DEF CoveredMinutes
  <2>1. i \in DOMAIN c /\ SlotOf(c[i].minute) = s
    BY DEF CoveredIn, InSlot
  <2>2. c[i] \in Receipt
    BY <2>1 DEF SoundChain
  <2>3. c[i].minute \in Int
    BY <2>2, PlanAssumption DEF Receipt, Minutes
  <2> QED
    BY <2>1, <2>3, SlotMinutes
<1>7. Cardinality(CoveredIn(c, s)) \in 0..PerSlot
  <2> DEFINE m == FirstOf(s)..LastOf(s)
  <2>0. IsFiniteSet(m) /\ Cardinality(m) = PerSlot /\ CoveredMinutes(c, s) \in SUBSET m
    BY <1>6, SlotSize
  <2> HIDE DEF m
  <2>1. Cardinality(CoveredMinutes(c, s)) <= PerSlot
    BY <2>0, FS_Subset
  <2>2. Cardinality(CoveredIn(c, s)) \in Nat /\ PerSlot \in Nat
    BY <1>3, FS_CardinalityType, PlanAssumption
  <2> QED
    BY <1>5, <2>1, <2>2
<1> QED
  BY <1>1, <1>2, <1>3, <1>5, <1>6, <1>7

\* All minutes of a slot are covered when there are as many covered receipts;
\* then its final receipts are the covered ones.
LEMMA FullyCovered ==
    ASSUME NEW c, SoundChain(c), NEW s \in 0..(Slots - 1),
           Cardinality(CoveredIn(c, s)) = PerSlot
    PROVE  FinalIn(c, s) = CoveredIn(c, s)
<1> DEFINE m == FirstOf(s)..LastOf(s)
<1>1. IsFiniteSet(m) /\ Cardinality(m) = PerSlot /\ CoveredMinutes(c, s) \in SUBSET m
  BY CoveredAreFinal, SlotSize
<1>2. Cardinality(CoveredMinutes(c, s)) = PerSlot
  BY CoveredAreFinal
<1> HIDE DEF m
<1>3. CoveredMinutes(c, s) = m
  BY <1>1, <1>2, FS_Subset
<1>4. ASSUME NEW i \in FinalIn(c, s) PROVE i \in CoveredIn(c, s)
  <2>1. i \in DOMAIN c /\ SlotOf(c[i].minute) = s /\ c[i] \in Receipt
    BY DEF FinalIn, InSlot, SoundChain
  <2>2. c[i].minute \in Int
    BY <2>1, PlanAssumption DEF Receipt, Minutes
  <2>3. c[i].minute \in m
    BY <2>1, <2>2, SlotMinutes DEF m
  <2>4. PICK j \in CoveredIn(c, s) : c[j].minute = c[i].minute
    BY <1>3, <2>3 DEF CoveredMinutes
  <2> QED
    BY <2>4, CoveredAreFinal, FinalsOfSlot
<1> QED
  BY <1>4, CoveredAreFinal

\* A slot is labelled verified when all its minutes are covered.
LEMMA VerifiedLabel ==
    ASSUME NEW c, SoundChain(c), NEW s \in 0..(Slots - 1)
    PROVE  SlotOutcome(c, s) = "verified" <=> Cardinality(CoveredIn(c, s)) = PerSlot
<1>1. SlotOutcome(c, s) =
        IF Cardinality(CoveredMinutes(c, s)) = PerSlot THEN "verified"
        ELSE IF \E i \in InSlot(c, s) : TerminalUnresolved(c[i]) THEN "provider_gap"
        ELSE "uncovered"
  BY DEF SlotOutcome, CoveredMinutes, CoveredIn
<1>2. Cardinality(CoveredMinutes(c, s)) = Cardinality(CoveredIn(c, s))
  BY CoveredAreFinal
<1>3. ASSUME Cardinality(CoveredIn(c, s)) = PerSlot PROVE SlotOutcome(c, s) = "verified"
  BY <1>1, <1>2, <1>3
<1>4. ASSUME Cardinality(CoveredIn(c, s)) # PerSlot PROVE SlotOutcome(c, s) # "verified"
  BY <1>1, <1>2, <1>4
<1> QED
  BY <1>3, <1>4

\* The label the client gives a slot from all receipts is the one verify_closeout
\* derives from the last receipts of its minutes.
LEMMA LabelsAgree ==
    ASSUME NEW c, SoundChain(c)
    PROVE  CloseoutVerified(c, Outcomes(c))
<1> SUFFICES ASSUME NEW s \in 0..(Slots - 1) PROVE LabelVerified(c, s, SlotOutcome(c, s))
  BY DEF CloseoutVerified, Outcomes
<1> DEFINE verified == /\ Cardinality(FinalIn(c, s)) = PerSlot
                       /\ \A i \in FinalIn(c, s) : Covered(c[i].response)
           gap == \E i \in FinalIn(c, s) : TerminalUnresolved(c[i])
<1>1. Cardinality(CoveredIn(c, s)) = PerSlot <=> verified
  <2>1. ASSUME Cardinality(CoveredIn(c, s)) = PerSlot PROVE verified
    BY <2>1, FullyCovered DEF CoveredIn
  <2>2. ASSUME verified PROVE Cardinality(CoveredIn(c, s)) = PerSlot
    <3>1. CoveredIn(c, s) = FinalIn(c, s)
      BY <2>2, CoveredAreFinal
    <3> QED
      BY <2>2, <3>1
  <2> QED
    BY <2>1, <2>2
<1>2. gap <=> \E i \in InSlot(c, s) : TerminalUnresolved(c[i])
  BY RetriedIsOpen DEF FinalIn, InSlot
<1>3. Cardinality(CoveredMinutes(c, s)) = Cardinality(CoveredIn(c, s))
  BY CoveredAreFinal
<1>4. SlotOutcome(c, s) =
        IF Cardinality(CoveredMinutes(c, s)) = PerSlot THEN "verified"
        ELSE IF \E i \in InSlot(c, s) : TerminalUnresolved(c[i]) THEN "provider_gap"
        ELSE "uncovered"
  BY DEF SlotOutcome, CoveredMinutes, CoveredIn
<1> DEFINE label == SlotOutcome(c, s)
<1>5. LabelVerified(c, s, label) =
        (CASE label = "verified" -> verified [] label = "provider_gap" -> gap
           [] OTHER -> ~verified /\ ~gap)
  BY DEF LabelVerified
<1> HIDE DEF verified, gap
<1>6. CASE verified
  <2>1. label = "verified"
    BY <1>1, <1>6, VerifiedLabel
  <2> QED
    BY <1>5, <1>6, <2>1
<1>7. CASE ~verified /\ gap
  <2>1. label = "provider_gap"
    BY <1>1, <1>2, <1>3, <1>4, <1>7
  <2> QED
    BY <1>5, <1>7, <2>1
<1>8. CASE ~verified /\ ~gap
  <2>1. label = "uncovered"
    BY <1>1, <1>2, <1>3, <1>4, <1>8
  <2> QED
    BY <1>5, <1>8, <2>1
<1> QED
  BY <1>6, <1>7, <1>8

\* The gate has been passed for the last slot and every minute of it ended: then
\* every slot that is not lost is verified, the last one too.
LEMMA AttainedIsVerified ==
    ASSUME NEW c, SoundChain(c), Attainable(c, Slots - 1),
           \A m \in FirstOf(Slots - 1)..LastOf(Slots - 1) : \E i \in DOMAIN c :
               /\ c[i].minute = m
               /\ IsFinal(c, i)
               /\ Covered(c[i].response) \/ TerminalUnresolved(c[i])
    PROVE  EnoughVerified(Outcomes(c))
<1> DEFINE all == 0..(Slots - 1)
           lost == {s \in all : Lost(c, s, Slots - 1)}
           verified == {s \in all : Outcomes(c)[s] = "verified"}
<1>0. Slots \in Nat /\ Slots > 0 /\ PerSlot \in Nat /\ Required \in Nat
  BY PlanAssumption
<1>1. ASSUME NEW s \in all, ~Lost(c, s, Slots - 1) PROVE s \in verified
  <2>1. Cardinality(CoveredIn(c, s)) = PerSlot
    <3>1. CASE s < Slots - 1
      <4>1. ~(Cardinality({i \in FinalIn(c, s) : Covered(c[i].response)}) < PerSlot)
        BY <1>1, <3>1 DEF Lost
      <4>2. ~(Cardinality(CoveredIn(c, s)) < PerSlot)
        BY <4>1, CoveredAreFinal
      <4>3. Cardinality(CoveredIn(c, s)) \in 0..PerSlot
        BY CoveredAreFinal
      <4> QED
        BY <4>2, <4>3, <1>0
    <3>2. CASE s = Slots - 1
      <4> DEFINE m == FirstOf(s)..LastOf(s)
      <4>1. \A i \in FinalIn(c, s) : ~TerminalUnresolved(c[i])
        BY <1>1 DEF Lost
      <4>2. ASSUME NEW k \in m PROVE k \in CoveredMinutes(c, s)
        <5>1. PICK i \in DOMAIN c : c[i].minute = k /\ IsFinal(c, i)
                                    /\ (Covered(c[i].response) \/ TerminalUnresolved(c[i]))
          BY <3>2
        <5>2. k \in Int /\ SlotOf(k) = s
          <6>1. k \in Int
            BY Slot
          <6> QED
            BY <6>1, SlotMinutes
        <5>3. i \in FinalIn(c, s) /\ i \in InSlot(c, s)
          BY <5>1, <5>2 DEF FinalIn, InSlot
        <5> QED
          BY <4>1, <5>1, <5>3 DEF CoveredMinutes, CoveredIn
      <4>3. CoveredMinutes(c, s) = m
        BY <4>2, CoveredAreFinal
      <4>4. Cardinality(CoveredMinutes(c, s)) = PerSlot
        BY <4>3, SlotSize
      <4> QED
        BY <4>4, CoveredAreFinal
    <3> QED
      BY <1>0, <3>1, <3>2
  <2> QED
    BY <2>1, VerifiedLabel DEF Outcomes
<1>2. all \ lost \subseteq verified
  BY <1>1
<1>3. IsFiniteSet(all) /\ Cardinality(all) = Slots
  BY <1>0, FS_Interval
<1>4. Slots - Cardinality(lost) >= Required
  BY DEF Attainable
<1>5. {s \in DOMAIN Outcomes(c) : Outcomes(c)[s] = "verified"} = verified
  BY DEF Outcomes
<1>6. lost \subseteq all /\ verified \subseteq all
  OBVIOUS
<1> HIDE DEF all, lost, verified
<1>7. Cardinality(all \ lost) = Slots - Cardinality(lost)
  <2>1. all \cap lost = lost
    BY <1>6
  <2>2. Cardinality(all \ lost) = Cardinality(all) - Cardinality(all \cap lost)
    BY <1>3, FS_Difference
  <2> QED
    BY <1>3, <2>1, <2>2
<1>8. IsFiniteSet(verified)
  BY <1>3, <1>6, FS_Subset
<1>9. Cardinality(all \ lost) <= Cardinality(verified)
  <2>1. all \ lost \in SUBSET verified
    BY <1>2
  <2> QED
    BY <1>8, <2>1, FS_Subset
<1>10. Cardinality(verified) >= Required
  <2>1. Cardinality(verified) \in Nat /\ Cardinality(lost) \in Nat
    BY <1>3, <1>6, <1>8, FS_Subset, FS_CardinalityType
  <2> QED
    BY <1>0, <1>4, <1>7, <1>9, <2>1
<1> QED
  BY <1>5, <1>10 DEF EnoughVerified

-----------------------------------------------------------------------------
\* A receipt is appended.
LEMMA AppendSound ==
    ASSUME NEW c, SoundChain(c), NEW r \in Receipt, Fits(c, r)
    PROVE  /\ SoundChain(Append(c, r))
           /\ Len(Append(c, r)) = Len(c) + 1 /\ Len(c) \in Nat
           /\ DOMAIN c = 1..Len(c) /\ DOMAIN Append(c, r) = 1..(Len(c) + 1)
           /\ \A i \in DOMAIN c : Append(c, r)[i] = c[i]
           /\ Append(c, r)[Len(c) + 1] = r
<1> DEFINE d == Append(c, r)
           n == Len(c)
<1>1. c \in Seq(Receipt) /\ d \in Seq(Receipt) /\ n \in Nat /\ Len(d) = n + 1
      /\ DOMAIN c = 1..n /\ DOMAIN d = 1..(n + 1)
      /\ (\A i \in 1..n : d[i] = c[i]) /\ d[n + 1] = r
  BY DEF SoundChain
<1>2. ASSUME NEW i \in DOMAIN d, NEW j \in DOMAIN d, i < j
      PROVE  /\ d[i].minute <= d[j].minute
             /\ d[i].minute = d[j].minute =>
                   /\ d[i].attempt < d[j].attempt
                   /\ d[i].response.complete
                   /\ d[i].response.status = "transient"
  <2> HIDE DEF d, n
  <2>1. i \in 1..n /\ i \in DOMAIN c /\ d[i] = c[i]
    BY <1>1, <1>2
  <2>2. CASE j = n + 1
    BY <1>1, <2>1, <2>2 DEF Fits
  <2>3. CASE j \in 1..n
    BY <1>1, <1>2, <2>1, <2>3 DEF SoundChain, Ordered
  <2> QED
    BY <1>1, <2>2, <2>3
<1> QED
  BY <1>1, <1>2 DEF SoundChain, Ordered

\* It is the last of its minute, and leaves which receipts of others are.
LEMMA AppendFinal ==
    ASSUME NEW c, SoundChain(c), NEW r \in Receipt, Fits(c, r)
    PROVE  /\ IsFinal(Append(c, r), Len(c) + 1)
           /\ \A i \in DOMAIN c :
                 IsFinal(Append(c, r), i) <=> IsFinal(c, i) /\ c[i].minute # r.minute
<1> DEFINE d == Append(c, r)
           n == Len(c)
<1>1. n \in Nat /\ DOMAIN c = 1..n /\ DOMAIN d = 1..(n + 1)
      /\ (\A i \in 1..n : d[i] = c[i]) /\ d[n + 1] = r
  BY AppendSound
<1> HIDE DEF d, n
<1> QED
  BY <1>1 DEF IsFinal, d, n

\* The journal counts one more attempt of its minute.
LEMMA AppendAttempts ==
    ASSUME NEW c, SoundChain(c), NEW r \in Receipt, Fits(c, r)
    PROVE  AttemptsOf(Append(c, r)) =
              [AttemptsOf(c) EXCEPT ![r.minute] = AttemptsOf(c)[r.minute] + 1]
<1> DEFINE d == Append(c, r)
           n == Len(c)
           Of(e, m) == {i \in DOMAIN e : e[i].minute = m}
<1>1. n \in Nat /\ DOMAIN c = 1..n /\ DOMAIN d = 1..(n + 1)
      /\ (\A i \in 1..n : d[i] = c[i]) /\ d[n + 1] = r /\ r.minute \in Minutes
  BY AppendSound DEF Receipt
<1>2. \A m \in Minutes : AttemptsOf(d)[m] = Cardinality(Of(d, m))
                         /\ AttemptsOf(c)[m] = Cardinality(Of(c, m))
  BY DEF AttemptsOf
<1>3. ASSUME NEW m \in Minutes
      PROVE  AttemptsOf(d)[m] = IF m = r.minute THEN AttemptsOf(c)[m] + 1 ELSE AttemptsOf(c)[m]
  <2>1. IsFiniteSet(Of(c, m))
    <3> HIDE DEF n
    <3>1. IsFiniteSet(1..n)
      BY <1>1, FS_Interval
    <3>2. Of(c, m) \in SUBSET (1..n)
      BY <1>1
    <3> QED
      BY <3>1, <3>2, FS_Subset
  <2> HIDE DEF d, n
  <2>2. CASE m = r.minute
    <3>1. Of(d, m) = Of(c, m) \cup {n + 1} /\ n + 1 \notin Of(c, m)
      BY <1>1, <2>2
    <3> HIDE DEF Of
    <3>2. Cardinality(Of(d, m)) = Cardinality(Of(c, m)) + 1
      BY <2>1, <3>1, FS_AddElement
    <3> QED
      BY <1>2, <2>2, <3>2
  <2>3. CASE m # r.minute
    <3>1. Of(d, m) = Of(c, m)
      BY <1>1, <2>3
    <3> QED
      BY <1>2, <2>3, <3>1
  <2> QED
    BY <2>2, <2>3
<1>4. AttemptsOf(d) = [m \in Minutes |-> AttemptsOf(d)[m]]
      /\ AttemptsOf(c) = [m \in Minutes |-> AttemptsOf(c)[m]]
  BY DEF AttemptsOf
<1> HIDE DEF d
<1> QED
  BY <1>3, <1>4 DEF d

\* A receipt that ends its minute well, or will be retried, loses no slot.
LEMMA AppendAttainable ==
    ASSUME NEW c, SoundChain(c), NEW r \in Receipt, Fits(c, r), ~TerminalUnresolved(r),
           NEW w \in 0..(Slots - 1), SlotOf(r.minute) = w, Attainable(c, w)
    PROVE  Attainable(Append(c, r), w)
<1> DEFINE d == Append(c, r)
           n == Len(c)
           all == 0..(Slots - 1)
           LostOf(e) == {s \in all : Lost(e, s, w)}
<1>1. n \in Nat /\ DOMAIN c = 1..n /\ DOMAIN d = 1..(n + 1)
      /\ (\A i \in DOMAIN c : d[i] = c[i]) /\ d[n + 1] = r
      /\ \A i \in DOMAIN c : IsFinal(d, i) <=> IsFinal(c, i) /\ c[i].minute # r.minute
  BY AppendSound, AppendFinal
<1> HIDE DEF d, n
<1>2. ASSUME NEW s \in all, Lost(d, s, w) PROVE Lost(c, s, w)
  <2>1. \A i \in FinalIn(d, s) : i = n + 1 \/ i \in FinalIn(c, s)
    BY <1>1 DEF FinalIn, InSlot
  <2>2. CASE \E i \in FinalIn(d, s) : TerminalUnresolved(d[i])
    <3>1. PICK i \in FinalIn(d, s) : TerminalUnresolved(d[i])
      BY <2>2
    <3>2. i # n + 1
      BY <1>1, <3>1
    <3>3. i \in FinalIn(c, s) /\ d[i] = c[i]
      BY <1>1, <2>1, <3>2 DEF FinalIn, InSlot
    <3> QED
      BY <3>1, <3>3 DEF Lost
  <2>3. CASE s < w /\ Cardinality({i \in FinalIn(d, s) : Covered(d[i].response)}) < PerSlot
    <3>1. FinalIn(d, s) = FinalIn(c, s)
      BY <1>1, <2>3 DEF FinalIn, InSlot
    <3>2. {i \in FinalIn(d, s) : Covered(d[i].response)} =
          {i \in FinalIn(c, s) : Covered(c[i].response)}
      BY <1>1, <3>1 DEF FinalIn, InSlot
    <3> QED
      BY <2>3, <3>2 DEF Lost
  <2> QED
    BY <1>2, <2>2, <2>3 DEF Lost
<1>3. LostOf(d) \in SUBSET LostOf(c)
  BY <1>2
<1>4. IsFiniteSet(LostOf(c)) /\ Slots \in Nat /\ Required \in Nat
  <2>1. IsFiniteSet(all) /\ LostOf(c) \in SUBSET all
    BY PlanAssumption, FS_Interval
  <2> QED
    BY <2>1, FS_Subset, PlanAssumption
<1>5. Slots - Cardinality(LostOf(c)) >= Required
  BY DEF Attainable
<1> HIDE DEF LostOf
<1>6. /\ Cardinality(LostOf(d)) <= Cardinality(LostOf(c))
      /\ Cardinality(LostOf(d)) \in Nat /\ Cardinality(LostOf(c)) \in Nat
  BY <1>3, <1>4, FS_Subset, FS_CardinalityType
<1>7. Slots - Cardinality(LostOf(d)) >= Required
  BY <1>4, <1>5, <1>6
<1> QED
  BY <1>7 DEF Attainable, LostOf, d


-----------------------------------------------------------------------------
\* No receipt, no request: everything is as it should be.
LEMMA InitInv == Init => IInv
<1> SUFFICES ASSUME Init PROVE IInv
  OBVIOUS
<1> USE DEF Init
<1>1. TypeOK
  <2>1. budget \in Budget
    BY PlanAssumption DEF Budget
  <2>2. receipts \in Seq(Receipt) /\ chain \in Seq(Receipt)
        /\ wire \in Seq([minute: Minutes, attempt: 1..MaxAttempts])
    OBVIOUS
  <2>3. now \in 0..Slots /\ attempt \in 0..MaxAttempts /\ phase \in Phases
    BY PlanAssumption DEF Phases
  <2>4. sealed \in BOOLEAN /\ faulted \in BOOLEAN
    OBVIOUS
  <2>5. /\ launched \subseteq 0..(Slots - 1) /\ gaps \subseteq Minutes
        /\ claims \subseteq 0..(Slots - 1)
        /\ closeout = None /\ index = None /\ slot = None /\ minute = None
        /\ answer = None /\ inventory = None
    OBVIOUS
  <2> HIDE DEF Init
  <2> QED
    BY <2>1, <2>2, <2>3, <2>4, <2>5 DEF TypeOK
<1>2. ChainVerified(receipts) /\ Ordered(receipts)
  BY DEF ChainVerified, Ordered
<1>3. WireInv
  BY DEF WireInv
<1>4. AttemptsOf(<<>>) = [m \in Minutes |-> 0]
  <2>1. \A m \in Minutes : {i \in DOMAIN <<>> : <<>>[i].minute = m} = {}
    OBVIOUS
  <2> QED
    BY <2>1, FS_EmptySet DEF AttemptsOf
<1>5. JournalInv /\ SessionInv
  BY <1>4 DEF JournalInv, SessionInv, Open, Attempting
<1>6. GapInv /\ CoverageInv /\ CloseoutInv
  BY DEF GapInv, CoverageInv, CloseoutInv, GapsBut, Open, Attempting
<1> QED
  BY <1>1, <1>2, <1>3, <1>5, <1>6 DEF IInv

\* What happens outside the session and the store.
LEMMA OutsideInv ==
    ASSUME IInv, now' \in 0..Slots, launched' \subseteq 0..(Slots - 1),
           UNCHANGED <<store, session, history>>
    PROVE  IInv'
<1> USE DEF IInv, store, session, history
<1>1. TypeOK'
  BY DEF TypeOK
<1>2. ChainVerified(receipts)' /\ Ordered(receipts)' /\ WireInv'
  BY DEF WireInv, Request
<1>3. JournalInv' /\ SessionInv'
  BY DEF JournalInv, SessionInv, Request, NewReceipt
<1>4. GapInv'
  BY DEF GapInv, GapsBut
<1>5. CoverageInv'
  BY DEF CoverageInv, DoneTo, NewReceipt
<1>6. CloseoutInv'
  BY DEF CloseoutInv, Inventory
<1> QED
  BY <1>1, <1>2, <1>3, <1>4, <1>5, <1>6

\* A session begins only over a store whose every attempt is accounted for.
LEMMA EnterInv == ASSUME IInv, NEW i \in 0..(Slots - 1), Enter(i) PROVE IInv'
<1> USE DEF IInv, Enter, store, history
<1>1. TypeOK'
  <2>1. phase' \in Phases
    BY DEF Phases, Open
  <2> QED
    BY <2>1, PlanAssumption DEF TypeOK
<1>2. ChainVerified(receipts)' /\ Ordered(receipts)' /\ WireInv'
  BY DEF WireInv, Hydratable
<1>3. JournalInv' /\ SessionInv'
  <2>1. JournalInv'
    BY DEF JournalInv, Hydratable, Accounted
  <2>2. slot' \in 0..(Slots - 1)
    BY PlanAssumption DEF TypeOK
  <2>3. SessionInv'
    BY <2>2 DEF SessionInv, Hydratable, Open, Attempting
  <2> QED
    BY <2>1, <2>3
<1>4. GapInv'
  BY DEF GapInv, GapsBut, Hydratable, Accounted, Attempting, Open
<1>5. CoverageInv'
  BY DEF CoverageInv, Attempting
<1>6. CloseoutInv'
  BY DEF CloseoutInv, Hydratable
<1> QED
  BY <1>1, <1>2, <1>3, <1>4, <1>5, <1>6

\* The claim puts the session before the first minute of its slot.
LEMMA ClaimInv == ASSUME IInv, Claim PROVE IInv'
<1> USE DEF IInv, Claim
<1>0. index \in 0..(Slots - 1) /\ minute' = FirstOf(index) /\ phase = "claim"
  BY DEF SessionInv, Open, FirstOf
<1>1. TypeOK'
  <2>1. minute' \in 1..(Slots * PerSlot + 1)
    BY <1>0, Slot, PlanAssumption
  <2> QED
    BY <1>0, <2>1 DEF TypeOK, Phases, Open
<1>2. ChainVerified(receipts)' /\ Ordered(receipts)' /\ WireInv'
  BY DEF WireInv
<1>3. JournalInv'
  BY DEF JournalInv
<1>4. SessionInv'
  <2>1. minute' \in FirstOf(index)..(LastOf(index) + 1)
    BY <1>0, Slot, PlanAssumption
  <2>2. ~(minute' > FirstOf(index))
    BY <1>0, Slot
  <2> QED
    BY <1>0, <2>1, <2>2 DEF SessionInv, Open, Attempting
<1>5. GapInv'
  BY <1>0 DEF GapInv, GapsBut, Attempting, Open
<1>6. CoverageInv'
  <2>1. DoneTo(minute)'
    BY <1>0, Slot DEF DoneTo
  <2>2. ~(minute' > FirstOf(index))
    BY <1>0, Slot
  <2> QED
    BY <1>0, <2>1, <2>2 DEF CoverageInv, Attempting
<1>7. CloseoutInv'
  BY <1>0 DEF CloseoutInv
<1> QED
  BY <1>1, <1>2, <1>3, <1>4, <1>5, <1>6, <1>7


\* A minute of the session's slot is one of the plan.
LEMMA WorkingMinute ==
    ASSUME IInv, phase \in Attempting
    PROVE  /\ minute \in Minutes /\ SlotOf(minute) = slot /\ attempt \in 1..MaxAttempts
           /\ slot = index /\ index \in 0..(Slots - 1)
           /\ minute \in Int /\ minute \in FirstOf(index)..LastOf(index)
           /\ chain = receipts /\ closeout = None /\ ~sealed
<1>1. phase \in Open \ {"claim"} /\ phase \notin {"seal", "closed", "raised", "idle", "publish"}
  BY DEF Attempting, Open
<1>2. index \in 0..(Slots - 1) /\ slot = index /\ chain = receipts /\ attempt \in 1..MaxAttempts
      /\ minute \in FirstOf(index)..(LastOf(index) + 1) /\ minute <= LastOf(index)
  BY <1>1 DEF IInv, SessionInv
<1>3. minute \in Int /\ minute \in FirstOf(index)..LastOf(index) /\ minute \in Minutes
  BY <1>2, Slot, PlanAssumption DEF Minutes
<1>4. SlotOf(minute) = slot
  BY <1>2, <1>3, SlotMinutes
<1>5. closeout = None /\ ~sealed
  BY <1>1 DEF IInv, CloseoutInv
<1> QED
  BY <1>2, <1>3, <1>4, <1>5

\* A gap for every minute is a gap for every minute but one.
LEMMA GapsForAll ==
    ASSUME receipts \in Seq(Receipt), GapsBut(0), NEW m
    PROVE  GapsBut(m)
<1>1. \A i \in DOMAIN receipts : receipts[i].minute # 0
  <2> TAKE i \in DOMAIN receipts
  <2>1. receipts[i] \in Receipt
    OBVIOUS
  <2> QED
    BY <2>1 DEF Receipt, Minutes
<1> QED
  BY <1>1 DEF GapsBut

\* A minute is requested only after all that have a receipt.
LEMMA RetrieveInv == ASSUME IInv, Retrieve PROVE IInv'
<1> USE DEF IInv, Retrieve, store, history
<1>0. /\ phase = "loop" /\ phase' = "intent" /\ phase \in Open \ {"claim"}
      /\ chain = receipts /\ index \in 0..(Slots - 1)
      /\ minute \in FirstOf(index)..(LastOf(index) + 1) /\ minute <= LastOf(index)
      /\ closeout = None /\ ~sealed
  BY DEF SessionInv, Open, CloseoutInv, LastOf
<1>1. minute \in Int /\ minute \in FirstOf(index)..LastOf(index) /\ SlotOf(minute) = index
  BY <1>0, Slot, SlotMinutes
<1>2. TypeOK'
  <2>1. phase' \in Phases /\ attempt' \in 0..MaxAttempts
    BY PlanAssumption DEF Phases, Open
  <2> QED
    BY <2>1 DEF TypeOK
<1>3. ChainVerified(receipts)' /\ Ordered(receipts)' /\ WireInv'
  BY DEF WireInv
<1>4. JournalInv'
  BY <1>0 DEF JournalInv
<1>5. Fits(receipts, [minute |-> minute, attempt |-> 1])
  <2> SUFFICES ASSUME NEW i \in DOMAIN receipts
               PROVE  receipts[i].minute <= minute /\ receipts[i].minute # minute
    BY DEF Fits
  <2>1. receipts \in Seq(Receipt)
    BY DEF TypeOK
  <2> DEFINE n == Len(receipts)
  <2>2. n \in Nat /\ n \in DOMAIN receipts /\ i \in 1..n /\ receipts # <<>>
    BY <2>1
  <2>3. receipts[i] \in Receipt /\ receipts[n] \in Receipt
    BY <2>1, <2>2
  <2>4. receipts[i].minute \in Int /\ receipts[n].minute \in Int
    BY <2>3, PlanAssumption DEF Receipt, Minutes
  <2>5. receipts[n].minute < minute
    BY <1>0, <1>1, <2>2, <2>4
  <2>6. receipts[i].minute <= receipts[n].minute
    BY <2>2, <2>4 DEF Ordered
  <2> QED
    BY <1>1, <2>4, <2>5, <2>6
<1>6. SessionInv'
  <2>1. slot = index /\ attempt' = 1 /\ 1 \in 1..MaxAttempts
    BY <1>1, PlanAssumption
  <2>2. Fits(receipts, Request)'
    BY <1>5 DEF Request
  <2> QED
    BY <1>0, <2>1, <2>2 DEF SessionInv, Open, Attempting
<1>7. GapInv'
  <2>1. GapsBut(0)
    BY <1>0 DEF GapInv, Attempting
  <2>2. GapsBut(minute)
    BY <2>1, GapsForAll DEF TypeOK
  <2> QED
    BY <1>0, <2>2 DEF GapInv, GapsBut, Attempting, Open
<1>8. CoverageInv'
  BY <1>0 DEF CoverageInv, DoneTo, Attempting
<1>9. CloseoutInv'
  BY <1>0 DEF CloseoutInv
<1> QED
  BY <1>2, <1>3, <1>4, <1>6, <1>7, <1>8, <1>9

\* The journal counts the attempt before it is sent.
LEMMA RecordIntentInv == ASSUME IInv, RecordIntent PROVE IInv'
<1> USE DEF IInv, RecordIntent, history
<1>0. /\ phase = "intent" /\ phase' = "dispatch" /\ budget.attempts = AttemptsOf(receipts)
      /\ minute \in Minutes /\ attempt \in 1..MaxAttempts /\ closeout = None /\ ~sealed
      /\ budget \in Budget /\ chain = receipts
  BY WorkingMinute DEF Attempting, JournalInv, TypeOK
<1>1. /\ budget'.pending /\ budget'.halted = budget.halted /\ budget'.loadable = budget.loadable
      /\ budget' \in Budget
      /\ budget'.attempts = [AttemptsOf(receipts) EXCEPT ![minute] = attempt]
      /\ attempt = AttemptsOf(receipts)[minute] + 1
  <2>1. budget.attempts \in [Minutes -> 0..MaxAttempts]
    BY <1>0 DEF Budget
  <2>2. [budget.attempts EXCEPT ![minute] = attempt] \in [Minutes -> 0..MaxAttempts]
    BY <1>0, <2>1
  <2>3. budget' = [budget EXCEPT !.attempts = [budget.attempts EXCEPT ![minute] = attempt],
                                 !.pending = TRUE]
    BY <1>0 DEF Budget
  <2> QED
    BY <1>0, <2>2, <2>3 DEF Budget
<1>2. TypeOK'
  <2>1. phase' \in Phases
    BY DEF Phases, Open
  <2> QED
    BY <1>1, <2>1 DEF TypeOK
<1>3. ChainVerified(receipts)' /\ Ordered(receipts)' /\ WireInv'
  BY <1>0 DEF WireInv
<1>4. JournalInv'
  BY <1>0, <1>1 DEF JournalInv
<1>5. SessionInv'
  BY <1>0, <1>1 DEF SessionInv, Open, Attempting, Request
<1>6. GapInv'
  BY <1>0 DEF GapInv, GapsBut, Attempting, Open
<1>7. CoverageInv'
  BY <1>0 DEF CoverageInv, DoneTo, Attempting
<1>8. CloseoutInv'
  BY <1>0 DEF CloseoutInv
<1> QED
  BY <1>2, <1>3, <1>4, <1>5, <1>6, <1>7, <1>8

\* The request that leaves is the one the journal counted.
LEMMA DispatchInv == ASSUME IInv, Dispatch PROVE IInv'
<1> USE DEF IInv, Dispatch, store
<1>0. /\ phase = "dispatch" /\ phase' = "receipt"
      /\ minute \in Minutes /\ attempt \in 1..MaxAttempts /\ closeout = None /\ ~sealed
      /\ Fits(receipts, Request) /\ budget.pending
      /\ wire \in Seq([minute: Minutes, attempt: 1..MaxAttempts]) /\ receipts \in Seq(Receipt)
  BY WorkingMinute DEF Attempting, SessionInv, Open, TypeOK
<1>1. /\ Request \in [minute: Minutes, attempt: 1..MaxAttempts] /\ Request' = Request
      /\ wire' = Append(wire, Request)
  BY <1>0 DEF Request
<1>2. Len(wire) = Len(receipts) /\ Len(receipts) \in Nat
  BY <1>0 DEF WireInv
<1>3. /\ wire' \in Seq([minute: Minutes, attempt: 1..MaxAttempts])
      /\ Len(wire') = Len(receipts) + 1
      /\ wire'[Len(receipts) + 1] = Request
      /\ \A i \in DOMAIN receipts : wire'[i] = wire[i]
  BY <1>0, <1>1, <1>2
<1>4. TypeOK'
  <2>1. phase' \in Phases
    BY DEF Phases, Open
  <2> QED
    BY <1>3, <2>1 DEF TypeOK
<1>5. ChainVerified(receipts)' /\ Ordered(receipts)'
  OBVIOUS
<1>6. WireInv'
  BY <1>0, <1>1, <1>2, <1>3 DEF WireInv
<1>7. JournalInv'
  BY <1>0 DEF JournalInv
<1>8. SessionInv'
  BY <1>0, <1>1 DEF SessionInv, Open, Attempting
<1>9. GapInv'
  BY <1>0 DEF GapInv, GapsBut, Attempting, Open
<1>10. CoverageInv'
  BY <1>0 DEF CoverageInv, DoneTo, Attempting
<1>11. CloseoutInv'
  BY <1>0 DEF CloseoutInv
<1> QED
  BY <1>4, <1>5, <1>6, <1>7, <1>8, <1>9, <1>10, <1>11


\* A receipt is the answer to the request that was pending.
LEMMA PublishReceiptInv == ASSUME IInv, PublishReceipt PROVE IInv'
<1> USE DEF IInv, PublishReceipt, history
<1> DEFINE r == NewReceipt
           n == Len(receipts)
<1>0. /\ phase = "receipt" /\ phase' = "finish" /\ chain = receipts
      /\ minute \in Minutes /\ attempt \in 1..MaxAttempts /\ closeout = None /\ ~sealed
      /\ minute \in Int /\ SlotOf(minute) = slot /\ slot \in 0..(Slots - 1)
      /\ answer \in Responses /\ Fits(receipts, Request) /\ budget.pending
      /\ receipts' = Append(receipts, r) /\ chain' = Append(receipts, r)
  BY WorkingMinute DEF Attempting, SessionInv, Open
<1>1. /\ r \in Receipt /\ r' = r /\ Fits(receipts, r)
      /\ r.minute = minute /\ r.attempt = attempt /\ r.response = answer
  BY <1>0 DEF NewReceipt, Receipt, Fits, Request
<1>2. SoundChain(receipts)
  BY DEF SoundChain, TypeOK
<1>3. /\ SoundChain(receipts') /\ n \in Nat /\ Len(receipts') = n + 1
      /\ DOMAIN receipts = 1..n /\ DOMAIN receipts' = 1..(n + 1)
      /\ (\A i \in DOMAIN receipts : receipts'[i] = receipts[i]) /\ receipts'[n + 1] = r
  BY <1>0, <1>1, <1>2, AppendSound
<1>4. /\ IsFinal(receipts', n + 1)
      /\ \A i \in DOMAIN receipts :
            IsFinal(receipts', i) <=> IsFinal(receipts, i) /\ receipts[i].minute # minute
  BY <1>0, <1>1, <1>2, AppendFinal
<1>5. TypeOK'
  <2>1. phase' \in Phases /\ receipts' \in Seq(Receipt)
    BY <1>3 DEF Phases, Open, SoundChain
  <2> QED
    BY <1>0, <2>1 DEF TypeOK
<1>6. ChainVerified(receipts)' /\ Ordered(receipts)'
  BY <1>0, <1>3 DEF SoundChain
<1>7. WireInv'
  <2>1. Len(wire) = n + 1 /\ wire[n + 1].minute = minute /\ wire[n + 1].attempt = attempt
    BY <1>0 DEF WireInv, Request
  <2>2. \A i \in DOMAIN receipts' :
           wire[i].minute = receipts'[i].minute /\ wire[i].attempt = receipts'[i].attempt
    BY <1>1, <1>3, <2>1 DEF WireInv
  <2> HIDE DEF n, r
  <2> QED
    BY <1>0, <1>3, <2>1, <2>2 DEF WireInv
<1>8. JournalInv'
  <2>1. AttemptsOf(receipts') =
           [AttemptsOf(receipts) EXCEPT ![minute] = AttemptsOf(receipts)[minute] + 1]
    BY <1>0, <1>1, <1>2, AppendAttempts
  <2> QED
    BY <1>0, <2>1 DEF JournalInv
<1>9. SessionInv'
  <2>1. receipts' # <<>> /\ receipts'[Len(receipts')] = r'
    BY <1>1, <1>3 DEF SoundChain
  <2> QED
    BY <1>0, <2>1 DEF SessionInv, Open, Attempting
<1>10. GapInv'
  <2>1. GapsBut(minute)
    BY <1>0 DEF GapInv, Attempting, Open
  <2>2. ASSUME NEW i \in DOMAIN receipts', IsFinal(receipts', i),
               ~Complete(receipts'[i].response), receipts'[i].minute # minute
        PROVE  GapEstablished(receipts', receipts'[i].minute) /\ receipts'[i].minute \in gaps
    <3>1. i \in DOMAIN receipts /\ receipts'[i] = receipts[i] /\ IsFinal(receipts, i)
      BY <1>1, <1>3, <1>4, <2>2
    <3>2. GapEstablished(receipts, receipts[i].minute) /\ receipts[i].minute \in gaps
      BY <2>1, <2>2, <3>1 DEF GapsBut
    <3>3. GapEstablished(receipts', receipts[i].minute)
      BY <1>3, <1>4, <2>2, <3>1, <3>2 DEF GapEstablished
    <3> QED
      BY <3>1, <3>2, <3>3
  <2>3. GapsBut(minute)'
    BY <2>2 DEF GapsBut
  <2> QED
    BY <1>0, <2>3 DEF GapInv, Attempting, Open
<1>11. CoverageInv'
  <2>1. DoneTo(minute)
    BY <1>0 DEF CoverageInv, Attempting
  <2>2. DoneTo(minute)'
    <3> SUFFICES ASSUME NEW k \in FirstOf(index)..(minute - 1)
                 PROVE  \E i \in DOMAIN receipts' :
                           /\ receipts'[i].minute = k
                           /\ IsFinal(receipts', i)
                           /\ Covered(receipts'[i].response) \/ TerminalUnresolved(receipts'[i])
      BY DEF DoneTo
    <3>1. PICK i \in DOMAIN receipts :
             /\ receipts[i].minute = k
             /\ IsFinal(receipts, i)
             /\ Covered(receipts[i].response) \/ TerminalUnresolved(receipts[i])
      BY <2>1 DEF DoneTo
    <3>2. k # minute
      <4>1. index \in 0..(Slots - 1)
        BY <1>0, WorkingMinute DEF Attempting
      <4> QED
        BY <1>0, <4>1, Slot
    <3> QED
      BY <1>3, <1>4, <3>1, <3>2
  <2>3. ~TerminalUnresolved(r) => Attainable(receipts', slot)
    <3>1. Attainable(receipts, slot)
      BY <1>0 DEF CoverageInv
    <3> QED
      BY <1>0, <1>1, <1>2, <3>1, AppendAttainable
  <2> QED
    BY <1>0, <1>1, <2>2, <2>3 DEF CoverageInv, Attempting
<1>12. CloseoutInv'
  BY <1>0 DEF CloseoutInv
<1> QED
  BY <1>5, <1>6, <1>7, <1>8, <1>9, <1>10, <1>11, <1>12

\* The journal is told that the attempt has its receipt.
LEMMA FinishRequestInv == ASSUME IInv, FinishRequest PROVE IInv'
<1> USE DEF IInv, FinishRequest, history
<1>0. /\ phase = "finish" /\ phase' = "decide" /\ closeout = None /\ ~sealed
      /\ budget \in Budget /\ chain = receipts /\ budget.attempts = AttemptsOf(receipts)
  BY WorkingMinute DEF Attempting, JournalInv, TypeOK
<1>1. /\ ~budget'.pending /\ budget'.loadable = budget.loadable
      /\ budget' \in Budget /\ budget'.attempts = budget.attempts
  BY <1>0 DEF Budget
<1>2. TypeOK'
  <2>1. phase' \in Phases
    BY DEF Phases, Open
  <2> QED
    BY <1>1, <2>1 DEF TypeOK
<1>3. ChainVerified(receipts)' /\ Ordered(receipts)'
  OBVIOUS
<1>4. WireInv'
  BY <1>0 DEF WireInv
<1>5. JournalInv'
  BY <1>0, <1>1 DEF JournalInv
<1>6. SessionInv'
  BY <1>0, <1>1 DEF SessionInv, Open, Attempting, NewReceipt
<1>7. GapInv'
  BY <1>0 DEF GapInv, GapsBut, Attempting, Open
<1>8. CoverageInv'
  BY <1>0 DEF CoverageInv, DoneTo, Attempting, NewReceipt
<1>9. CloseoutInv'
  BY <1>0 DEF CloseoutInv
<1> QED
  BY <1>2, <1>3, <1>4, <1>5, <1>6, <1>7, <1>8, <1>9


\* The receipt of the answer at hand is the last of the chain and of its minute.
LEMMA LastReceipt ==
    ASSUME IInv, phase \in {"finish", "decide", "gap", "outcome"}
    PROVE  \E n \in DOMAIN receipts :
              /\ receipts[n] = NewReceipt /\ IsFinal(receipts, n)
              /\ NewReceipt.minute = minute /\ NewReceipt.attempt = attempt
              /\ NewReceipt.response = answer /\ answer \in Responses
              /\ \A i \in DOMAIN receipts : i = n \/ i < n
              /\ \A i \in DOMAIN receipts :
                    IsFinal(receipts, i) /\ receipts[i].minute = minute => i = n
<1> DEFINE n == Len(receipts)
<1>1. receipts \in Seq(Receipt) /\ receipts # <<>> /\ receipts[n] = NewReceipt
      /\ answer \in Responses
  BY DEF IInv, TypeOK, SessionInv
<1>2. n \in Nat /\ n \in DOMAIN receipts /\ DOMAIN receipts = 1..n
  BY <1>1
<1>3. NewReceipt.minute = minute /\ NewReceipt.attempt = attempt /\ NewReceipt.response = answer
  BY DEF NewReceipt
<1> HIDE DEF n
<1> QED
  BY <1>1, <1>2, <1>3 DEF IsFinal

\* A minute is over when a later one is next, and its gap is published if it
\* ended without a file.
LEMMA NextMinuteInv ==
    ASSUME IInv, phase \in {"decide", "outcome"}, phase' = "loop", minute' = minute + 1,
           Attainable(receipts, slot), Covered(answer) \/ TerminalUnresolved(NewReceipt),
           GapsBut(0), answer' = None,
           UNCHANGED <<launched, store, index, slot, chain, attempt, inventory, history>>,
           now' = now
    PROVE  IInv'
<1> USE DEF IInv, store, history
<1>0. /\ closeout = None /\ ~sealed /\ chain = receipts /\ slot = index
      /\ minute \in FirstOf(index)..LastOf(index) /\ index \in 0..(Slots - 1) /\ minute \in Int
  BY WorkingMinute DEF Attempting
<1>1. TypeOK'
  <2>1. phase' \in Phases /\ minute' \in 1..(Slots * PerSlot + 1)
    BY <1>0, Slot DEF Phases, Open
  <2> QED
    BY <2>1 DEF TypeOK
<1>2. ChainVerified(receipts)' /\ Ordered(receipts)' /\ WireInv'
  BY DEF WireInv
<1>3. JournalInv'
  BY DEF JournalInv
<1>4. SessionInv'
  <2>1. minute' \in FirstOf(index)..(LastOf(index) + 1)
    BY <1>0, Slot
  <2> QED
    BY <1>0, <2>1 DEF SessionInv, Open, Attempting
<1>5. GapInv'
  BY DEF GapInv, GapsBut, Attempting, Open
<1>6. CoverageInv'
  <2>1. DoneTo(minute)
    BY DEF CoverageInv, Attempting
  <2>2. PICK n \in DOMAIN receipts :
           /\ receipts[n] = NewReceipt /\ IsFinal(receipts, n)
           /\ NewReceipt.minute = minute /\ NewReceipt.response = answer
    BY LastReceipt
  <2>3. DoneTo(minute + 1)
    <3>0. (minute + 1) - 1 = minute
      BY <1>0
    <3> SUFFICES ASSUME NEW k \in FirstOf(index)..minute
                 PROVE  \E i \in DOMAIN receipts :
                           /\ receipts[i].minute = k
                           /\ IsFinal(receipts, i)
                           /\ Covered(receipts[i].response) \/ TerminalUnresolved(receipts[i])
      BY <3>0 DEF DoneTo
    <3>1. CASE k = minute
      BY <2>2, <3>1
    <3>2. CASE k # minute
      <4>1. k \in FirstOf(index)..(minute - 1)
        BY <1>0, <3>2, Slot
      <4> QED
        BY <2>1, <4>1 DEF DoneTo
    <3> QED
      BY <3>1, <3>2
  <2> QED
    BY <2>3 DEF CoverageInv, DoneTo, Attempting
<1>7. CloseoutInv'
  BY <1>0 DEF CloseoutInv
<1> QED
  BY <1>1, <1>2, <1>3, <1>4, <1>5, <1>6, <1>7

\* A minute is asked again only after a receipt that allows it.
LEMMA RetryInv ==
    ASSUME IInv, phase = "decide", Retryable(answer), attempt < MaxAttempts,
           phase' = "intent", attempt' = attempt + 1, minute' = minute, answer' = None,
           UNCHANGED <<now, launched, store, index, slot, chain, inventory, history>>
    PROVE  IInv'
<1> USE DEF IInv, store, history
<1>0. /\ closeout = None /\ ~sealed /\ chain = receipts /\ slot = index
      /\ minute \in Minutes /\ minute \in Int /\ attempt \in 1..MaxAttempts /\ MaxAttempts \in Nat
      /\ index \in 0..(Slots - 1)
  BY WorkingMinute, PlanAssumption DEF Attempting
<1>1. PICK n \in DOMAIN receipts :
         /\ receipts[n] = NewReceipt
         /\ NewReceipt.minute = minute /\ NewReceipt.attempt = attempt
         /\ NewReceipt.response = answer
         /\ \A i \in DOMAIN receipts : i = n \/ i < n
  BY LastReceipt
<1>2. TypeOK'
  <2>1. phase' \in Phases /\ attempt' \in 0..MaxAttempts
    BY <1>0 DEF Phases, Open
  <2> QED
    BY <2>1 DEF TypeOK
<1>3. ChainVerified(receipts)' /\ Ordered(receipts)' /\ WireInv'
  BY DEF WireInv
<1>4. JournalInv'
  BY DEF JournalInv
<1>5. Fits(receipts, [minute |-> minute, attempt |-> attempt + 1])
  <2> SUFFICES ASSUME NEW i \in DOMAIN receipts
               PROVE  /\ receipts[i].minute <= minute
                      /\ receipts[i].minute = minute =>
                            /\ receipts[i].attempt < attempt + 1
                            /\ receipts[i].response.complete
                            /\ receipts[i].response.status = "transient"
    BY DEF Fits
  <2>1. CASE i = n
    BY <1>0, <1>1, <2>1 DEF Retryable
  <2>2. CASE i # n
    <3>1. receipts[i] \in Receipt
      BY DEF TypeOK
    <3>2. receipts[i].attempt \in Int
      BY <1>0, <3>1 DEF Receipt
    <3>3. /\ receipts[i].minute <= minute
          /\ receipts[i].minute = minute =>
                /\ receipts[i].attempt < attempt
                /\ receipts[i].response.complete
                /\ receipts[i].response.status = "transient"
      BY <1>1, <2>2 DEF Ordered
    <3> QED
      BY <1>0, <3>2, <3>3
  <2> QED
    BY <2>1, <2>2
<1>6. SessionInv'
  <2>1. Fits(receipts, Request)' /\ attempt' \in 1..MaxAttempts
    BY <1>0, <1>5 DEF Request
  <2> QED
    BY <2>1 DEF SessionInv, Open, Attempting
<1>7. GapInv'
  BY DEF GapInv, GapsBut, Attempting, Open
<1>8. CoverageInv'
  <2>1. ~TerminalUnresolved(NewReceipt)
    BY <1>0, <1>1 DEF TerminalUnresolved, Retryable
  <2> QED
    BY <2>1 DEF CoverageInv, DoneTo, Attempting
<1>9. CloseoutInv'
  BY <1>0 DEF CloseoutInv
<1> QED
  BY <1>2, <1>3, <1>4, <1>6, <1>7, <1>8, <1>9

LEMMA DecideInv == ASSUME IInv, Decide PROVE IInv'
<1> USE DEF Decide
<1>0. phase = "decide" /\ chain = receipts
  BY WorkingMinute DEF Attempting
<1>1. CASE /\ Complete(answer)
           /\ phase' = "loop"
           /\ minute' = minute + 1
           /\ UNCHANGED attempt
  <2>1. PICK n \in DOMAIN receipts :
           /\ receipts[n] = NewReceipt /\ NewReceipt.response = answer
           /\ \A i \in DOMAIN receipts :
                 IsFinal(receipts, i) /\ receipts[i].minute = minute => i = n
    BY <1>0, LastReceipt
  <2>2. Covered(answer) /\ ~TerminalUnresolved(NewReceipt)
    BY <1>1, <2>1 DEF Covered, MinuteOutcome, TerminalUnresolved
  <2>3. Attainable(receipts, slot)
    BY <1>0, <2>2 DEF IInv, CoverageInv
  <2>4. GapsBut(minute)
    BY <1>0 DEF IInv, GapInv, Attempting, Open
  <2>5. GapsBut(0)
    BY <1>1, <2>1, <2>4 DEF GapsBut
  <2> QED
    BY <1>0, <1>1, <2>2, <2>3, <2>5, NextMinuteInv
<1>2. CASE /\ Retryable(answer)
           /\ attempt < MaxAttempts
           /\ phase' = "intent"
           /\ attempt' = attempt + 1
           /\ UNCHANGED minute
  BY <1>0, <1>2, RetryInv
<1>3. CASE /\ ~Complete(answer)
           /\ Retryable(answer) => attempt = MaxAttempts
           /\ phase' = "gap"
           /\ UNCHANGED <<minute, attempt>>
  <2> USE DEF IInv, store, history
  <2>0. closeout = None /\ ~sealed /\ answer' = answer /\ NewReceipt' = NewReceipt
    BY <1>0, <1>3, WorkingMinute DEF Attempting, NewReceipt
  <2>1. TypeOK'
    <3>1. phase' \in Phases
      BY <1>3 DEF Phases, Open
    <3> QED
      BY <1>3, <2>0, <3>1 DEF TypeOK
  <2>2. ChainVerified(receipts)' /\ Ordered(receipts)' /\ WireInv'
    BY <1>0, <1>3 DEF WireInv
  <2>3. JournalInv' /\ SessionInv'
    BY <1>0, <1>3, <2>0 DEF JournalInv, SessionInv, Open, Attempting
  <2>4. GapInv'
    BY <1>0, <1>3 DEF GapInv, GapsBut, Open, Attempting
  <2>5. CoverageInv' /\ CloseoutInv'
    BY <1>0, <1>3, <2>0 DEF CoverageInv, CloseoutInv, DoneTo, Attempting
  <2> QED
    BY <2>1, <2>2, <2>3, <2>4, <2>5
<1> QED
  BY <1>1, <1>2, <1>3


\* The gap of a minute that ended without a file is published before the next.
LEMMA PublishGapInv == ASSUME IInv, PublishGap PROVE IInv'
<1> USE DEF IInv, PublishGap, history
<1>0. /\ phase = "gap" /\ phase' = "outcome" /\ chain = receipts
      /\ minute \in Minutes /\ closeout = None /\ ~sealed /\ NewReceipt' = NewReceipt
  BY WorkingMinute DEF Attempting, NewReceipt
<1>1. TypeOK'
  <2>1. phase' \in Phases
    BY DEF Phases, Open
  <2> QED
    BY <1>0, <2>1 DEF TypeOK
<1>2. ChainVerified(receipts)' /\ Ordered(receipts)' /\ WireInv'
  BY <1>0 DEF WireInv
<1>3. JournalInv' /\ SessionInv'
  BY <1>0 DEF JournalInv, SessionInv, Open, Attempting
<1>4. GapInv'
  <2>1. GapsBut(minute)
    BY <1>0 DEF GapInv, Attempting, Open
  <2>2. GapsBut(0)'
    BY <1>0, <2>1 DEF GapsBut
  <2> QED
    BY <1>0, <2>2 DEF GapInv, Attempting, Open
<1>5. CoverageInv'
  BY <1>0 DEF CoverageInv, DoneTo, Attempting
<1>6. CloseoutInv'
  BY <1>0 DEF CloseoutInv
<1> QED
  BY <1>1, <1>2, <1>3, <1>4, <1>5, <1>6

\* A failed minute is over when the gate says that coverage is still attainable.
LEMMA MinuteOverInv == ASSUME IInv, MinuteOver PROVE IInv'
<1> USE DEF MinuteOver
<1>0. phase = "outcome" /\ chain = receipts /\ attempt \in 1..MaxAttempts
  BY WorkingMinute DEF Attempting
<1>1. ~Complete(answer) /\ (Retryable(answer) => attempt = MaxAttempts)
  BY <1>0 DEF IInv, SessionInv
<1>2. Covered(answer) \/ TerminalUnresolved(NewReceipt)
  BY <1>1 DEF Covered, TerminalUnresolved, NewReceipt, Retryable, MinuteOutcome
<1>3. GapsBut(0)
  BY <1>0 DEF IInv, GapInv, Attempting, Open
<1> QED
  BY <1>0, <1>2, <1>3, NextMinuteInv

-----------------------------------------------------------------------------
\* The end of a session leaves the store, and perhaps a stop, behind.
LEMMA LeaveInv ==
    ASSUME IInv, Leave, UNCHANGED <<now, launched, receipts, gaps, claims, closeout, wire, sealed>>,
           budget' \in Budget, faulted' \in BOOLEAN,
           budget'.attempts = budget.attempts, budget'.pending = budget.pending,
           sealed => budget' = budget,
           ~faulted' /\ ~budget'.halted /\ closeout = None =>
               budget.loadable /\ ~budget.pending /\ GapsBut(0) /\ budget' = budget
    PROVE  IInv'
<1> USE DEF IInv, Leave
<1>1. TypeOK'
  <2>1. phase' \in Phases /\ attempt' \in 0..MaxAttempts /\ <<>> \in Seq(Receipt)
    BY PlanAssumption DEF Phases
  <2> QED
    BY <2>1 DEF TypeOK
<1>2. ChainVerified(receipts)' /\ Ordered(receipts)' /\ WireInv'
  BY DEF WireInv
<1>3. JournalInv' /\ SessionInv'
  BY DEF JournalInv, SessionInv, Open, Attempting
<1>4. GapInv'
  BY DEF GapInv, GapsBut, Open
<1>5. CoverageInv'
  BY DEF CoverageInv, Attempting
<1>6. CloseoutInv'
  BY DEF CloseoutInv, Inventory
<1> QED
  BY <1>1, <1>2, <1>3, <1>4, <1>5, <1>6

\* A journal call that was cut short spends and settles nothing.
LEMMA CutShortKeeps ==
    ASSUME IInv, CutShort
    PROVE  /\ budget' \in Budget /\ budget'.attempts = budget.attempts
           /\ budget'.pending = budget.pending /\ budget'.halted = budget.halted
           /\ sealed => budget' = budget
           /\ UNCHANGED <<receipts, gaps, claims, closeout>>
<1>1. budget \in Budget
  BY DEF IInv, TypeOK
<1>2. budget' = budget \/ (phase \in {"intent", "finish", "raised"}
                           /\ budget' = [budget EXCEPT !.loadable = FALSE])
  BY DEF CutShort
<1>3. sealed => phase \in {"closed", "idle"}
  BY DEF IInv, CloseoutInv
<1> QED
  BY <1>1, <1>2, <1>3 DEF Budget, CutShort

\* The sessions that end without an exception.
LEMMA EndInv == ASSUME IInv, WorkerFinished \/ CloseSession PROVE IInv'
<1>1. /\ Leave /\ UNCHANGED <<now, launched, store, history>>
      /\ phase = "loop" \/ phase = "closed"
  BY DEF WorkerFinished, CloseSession
<1>2. budget \in Budget /\ faulted \in BOOLEAN
  BY DEF IInv, TypeOK
<1>3. closeout = None => budget.loadable /\ ~budget.pending /\ GapsBut(0)
  BY <1>1 DEF IInv, CloseoutInv, SessionInv, GapInv, Open, Attempting
<1> QED
  BY <1>1, <1>2, <1>3, LeaveInv DEF store, history

\* The ends of a session that raised, or died.
LEMMA AbortInv == ASSUME IInv, Stop \/ StopFails \/ Kill PROVE IInv'
<1>1. CASE Stop
  <2>1. /\ budget' = [budget EXCEPT !.halted = TRUE] /\ phase = "raised"
        /\ Leave /\ UNCHANGED <<now, launched, receipts, gaps, claims, closeout, history>>
    BY <1>1 DEF Stop
  <2>2. budget \in Budget /\ faulted \in BOOLEAN
    BY DEF IInv, TypeOK
  <2>3. ~sealed
    BY <2>1 DEF IInv, CloseoutInv
  <2>4. /\ budget' \in Budget /\ budget'.attempts = budget.attempts
        /\ budget'.pending = budget.pending /\ budget'.halted
    BY <2>1, <2>2 DEF Budget
  <2> QED
    BY <2>1, <2>2, <2>3, <2>4, LeaveInv DEF history
<1>2. CASE StopFails \/ Kill
  <2>1. CutShort /\ Leave /\ faulted' = TRUE /\ UNCHANGED <<now, launched, wire, sealed>>
    BY <1>2 DEF StopFails, Kill
  <2> QED
    BY <2>1, CutShortKeeps, LeaveInv
<1> QED
  BY <1>1, <1>2

\* An exception leaves everything to the handlers.
LEMMA RaiseInv == ASSUME IInv, Raise PROVE IInv'
<1> USE DEF IInv, Raise, history
<1>0. /\ phase \in Open /\ phase' = "raised" /\ CutShort /\ ~sealed
  BY DEF CloseoutInv, Open
<1>1. /\ budget' \in Budget /\ budget'.attempts = budget.attempts
      /\ budget'.pending = budget.pending
      /\ UNCHANGED <<receipts, gaps, claims, closeout>>
  BY <1>0, CutShortKeeps
<1>2. TypeOK'
  <2>1. phase' \in Phases
    BY DEF Phases
  <2> QED
    BY <1>1, <2>1 DEF TypeOK
<1>3. ChainVerified(receipts)' /\ Ordered(receipts)' /\ WireInv'
  BY <1>0, <1>1 DEF WireInv
<1>4. JournalInv' /\ SessionInv'
  BY <1>0, <1>1 DEF JournalInv, SessionInv, Open, Attempting
<1>5. GapInv' /\ CoverageInv'
  BY <1>0 DEF GapInv, CoverageInv, Open, Attempting
<1>6. CloseoutInv'
  BY <1>0, <1>1 DEF CloseoutInv, Open
<1> QED
  BY <1>2, <1>3, <1>4, <1>5, <1>6


-----------------------------------------------------------------------------
\* The last worker has asked for every minute of the plan's last slot.
LEMMA StartCloseoutInv == ASSUME IInv, StartCloseout PROVE IInv'
<1> USE DEF IInv, StartCloseout, store, history
<1>0. /\ phase = "loop" /\ phase' = "closeout" /\ closeout = None /\ ~sealed
      /\ index = Slots - 1 /\ index \in 0..(Slots - 1)
      /\ minute \in FirstOf(index)..(LastOf(index) + 1)
  BY DEF SessionInv, Open, CloseoutInv
<1>1. minute = LastOf(index) + 1 /\ minute > FirstOf(index)
  BY <1>0, Slot, PlanAssumption DEF LastOf
<1>2. TypeOK'
  <2>1. phase' \in Phases
    BY DEF Phases, Open
  <2> QED
    BY <2>1 DEF TypeOK
<1>3. ChainVerified(receipts)' /\ Ordered(receipts)' /\ WireInv'
  BY DEF WireInv
<1>4. JournalInv' /\ SessionInv'
  BY DEF JournalInv, SessionInv, Open, Attempting
<1>5. GapInv'
  BY DEF GapInv, GapsBut, Open, Attempting
<1>6. CoverageInv'
  <2>1. DoneTo(LastOf(index) + 1)
    BY <1>0, <1>1 DEF CoverageInv
  <2>2. slot = Slots - 1 /\ Attainable(receipts, slot)
    BY <1>0, <1>1 DEF SessionInv, CoverageInv
  <2> QED
    BY <1>0, <2>1, <2>2 DEF CoverageInv, DoneTo, Attempting
<1>7. CloseoutInv'
  BY <1>0 DEF CloseoutInv
<1> QED
  BY <1>2, <1>3, <1>4, <1>5, <1>6, <1>7

\* What is signed has the required coverage.
LEMMA CloseoutStepInv == ASSUME IInv, Closeout PROVE IInv'
<1> USE DEF IInv, Closeout, store, history
<1>0. /\ phase = "closeout" /\ phase' = "publish" /\ ~sealed
      /\ inventory' = [payload |-> Inventory, labels |-> Outcomes(receipts)]
      /\ index = Slots - 1 /\ DoneTo(LastOf(index) + 1) /\ Attainable(receipts, Slots - 1)
      /\ SoundChain(receipts) /\ receipts \in Seq(Receipt)
  BY DEF CloseoutInv, CoverageInv, SoundChain, TypeOK
<1>1. EnoughVerified(Outcomes(receipts))
  <2>1. (LastOf(index) + 1) - 1 = LastOf(index)
    BY <1>0, Slot, PlanAssumption
  <2>2. \A m \in FirstOf(Slots - 1)..LastOf(Slots - 1) : \E i \in DOMAIN receipts :
            /\ receipts[i].minute = m
            /\ IsFinal(receipts, i)
            /\ Covered(receipts[i].response) \/ TerminalUnresolved(receipts[i])
    BY <1>0, <2>1 DEF DoneTo
  <2> QED
    BY <1>0, <2>2, AttainedIsVerified
<1>2. inventory' \in Closeouts /\ inventory' # None
  <2>1. Outcomes(receipts) \in [0..(Slots - 1) -> {"verified", "provider_gap", "uncovered"}]
    BY DEF Outcomes, SlotOutcome
  <2>2. inventory' \in Closeouts
    BY <1>0, <2>1 DEF Closeouts, Inventory, TypeOK
  <2> QED
    BY <2>2, NoneAssumption
<1>3. TypeOK'
  <2>1. phase' \in Phases
    BY DEF Phases, Open
  <2> QED
    BY <1>0, <1>2, <2>1 DEF TypeOK
<1>4. ChainVerified(receipts)' /\ Ordered(receipts)' /\ WireInv'
  BY DEF WireInv
<1>5. JournalInv' /\ SessionInv'
  BY DEF JournalInv, SessionInv, Open, Attempting
<1>6. GapInv' /\ CoverageInv'
  BY DEF GapInv, CoverageInv, GapsBut, Open, Attempting
<1>7. CloseoutInv'
  <2>1. inventory'.payload = Inventory' /\ EnoughVerified(inventory'.labels)
    BY <1>0, <1>1 DEF Inventory
  <2> QED
    BY <1>0, <1>2, <2>1 DEF CloseoutInv
<1> QED
  BY <1>3, <1>4, <1>5, <1>6, <1>7

\* What is published is what was signed, and nothing it covers has changed.
LEMMA PublishCloseoutInv == ASSUME IInv, PublishCloseout PROVE IInv'
<1> USE DEF IInv, PublishCloseout, history
<1>0. /\ phase = "publish" /\ phase' = "seal" /\ ~sealed /\ ~budget.pending
      /\ closeout' # None /\ closeout'.payload = Inventory' /\ EnoughVerified(closeout'.labels)
  BY DEF CloseoutInv, SessionInv, Inventory, Open
<1>1. TypeOK'
  <2>1. phase' \in Phases
    BY DEF Phases, Open
  <2> QED
    BY <2>1 DEF TypeOK
<1>2. ChainVerified(receipts)' /\ Ordered(receipts)' /\ WireInv'
  BY <1>0 DEF WireInv
<1>3. JournalInv' /\ SessionInv'
  BY <1>0 DEF JournalInv, SessionInv, Open, Attempting
<1>4. GapInv' /\ CoverageInv'
  BY <1>0 DEF GapInv, CoverageInv, GapsBut, Open, Attempting
<1>5. CloseoutInv'
  BY <1>0 DEF CloseoutInv
<1> QED
  BY <1>1, <1>2, <1>3, <1>4, <1>5

LEMMA SealInv == ASSUME IInv, Seal PROVE IInv'
<1> USE DEF IInv, Seal, store
<1>0. /\ phase = "seal" /\ phase' = "closed" /\ sealed'
      /\ closeout' # None /\ closeout'.payload = Inventory'
  BY DEF CloseoutInv, Inventory
<1>1. TypeOK'
  <2>1. phase' \in Phases
    BY DEF Phases, Open
  <2>2. sealed' \in BOOLEAN
    OBVIOUS
  <2> QED
    BY <2>1, <2>2 DEF TypeOK
<1>2. ChainVerified(receipts)' /\ Ordered(receipts)' /\ WireInv'
  BY <1>0 DEF WireInv
<1>3. JournalInv' /\ SessionInv'
  BY <1>0 DEF JournalInv, SessionInv, Open, Attempting
<1>4. GapInv' /\ CoverageInv'
  BY <1>0 DEF GapInv, CoverageInv, Open, Attempting
<1>5. CloseoutInv'
  BY <1>0 DEF CloseoutInv
<1> QED
  BY <1>1, <1>2, <1>3, <1>4, <1>5

-----------------------------------------------------------------------------
\* Every step keeps the invariant.
LEMMA NextInv == ASSUME IInv, [Next]_vars PROVE IInv'
<1>0. now \in 0..Slots /\ launched \subseteq 0..(Slots - 1) /\ Slots \in Nat
  BY PlanAssumption DEF IInv, TypeOK
<1>1. CASE Tick
  BY <1>0, <1>1, OutsideInv DEF Tick
<1>2. ASSUME NEW i \in 0..(Slots - 1), Launch(i) \/ Abandon(i) \/ Enter(i)
      PROVE  IInv'
  <2>1. CASE Launch(i)
    BY <1>0, <2>1, OutsideInv DEF Launch
  <2>2. CASE Abandon(i)
    BY <1>0, <2>2, OutsideInv DEF Abandon
  <2>3. CASE Enter(i)
    BY <2>3, EnterInv
  <2> QED
    BY <1>2, <2>1, <2>2, <2>3
<1>3. CASE Work
  BY <1>3, ClaimInv, RetrieveInv, RecordIntentInv, DispatchInv, PublishReceiptInv,
     FinishRequestInv, DecideInv, PublishGapInv, MinuteOverInv, EndInv, StartCloseoutInv,
     CloseoutStepInv, PublishCloseoutInv, SealInv, RaiseInv, AbortInv
     DEF Work
<1>4. CASE Kill
  BY <1>4, AbortInv
<1>5. CASE UNCHANGED vars
  BY <1>0, <1>5, OutsideInv DEF vars
<1> QED
  BY <1>1, <1>2, <1>3, <1>4, <1>5 DEF Next

\* The receipts, the journal, the session and the closeout stay consistent.
THEOREM CollectorInvariant == Spec => []IInv
<1>1. Init => IInv
  BY InitInv
<1>2. IInv /\ [Next]_vars => IInv'
  BY NextInv
<1> QED
  BY <1>1, <1>2, PTL DEF Spec

\* The collector's state is typed.
THEOREM CollectorTyped == Spec => []TypeOK
<1>1. IInv => TypeOK
  BY DEF IInv
<1> QED
  BY <1>1, CollectorInvariant, PTL

\* Whatever the provider answers and however often the worker of a slot is killed
\* and launched again, requests leave in plan order, and one is repeated only
\* after a published receipt that allows it.
THEOREM RequestsStayInOrder == Spec => []RequestsInOrder
<1>1. ASSUME IInv, NEW i \in DOMAIN wire, NEW j \in DOMAIN wire, i < j
      PROVE  /\ wire[i].minute <= wire[j].minute
             /\ wire[i].minute = wire[j].minute =>
                   /\ wire[i].attempt < wire[j].attempt
                   /\ \E k \in DOMAIN receipts :
                         /\ receipts[k].minute = wire[i].minute
                         /\ receipts[k].attempt = wire[i].attempt
                         /\ receipts[k].response.complete
                         /\ receipts[k].response.status = "transient"
  <2>1. receipts \in Seq(Receipt) /\ wire \in Seq([minute: Minutes, attempt: 1..MaxAttempts])
    BY <1>1 DEF IInv, TypeOK
  <2>2. /\ Len(wire) \in {Len(receipts), Len(receipts) + 1}
        /\ \A k \in DOMAIN receipts :
              wire[k].minute = receipts[k].minute /\ wire[k].attempt = receipts[k].attempt
        /\ Len(wire) = Len(receipts) + 1 => Fits(receipts, wire[Len(wire)])
    BY <1>1 DEF IInv, WireInv
  <2>3. Len(receipts) \in Nat /\ i \in 1..Len(wire) /\ j \in 1..Len(wire)
        /\ i \in DOMAIN receipts
    BY <1>1, <2>1, <2>2
  <2>4. CASE j \in DOMAIN receipts
    BY <1>1, <2>2, <2>3, <2>4 DEF IInv, Ordered
  <2>5. CASE j \notin DOMAIN receipts
    <3>1. j = Len(wire) /\ Len(wire) = Len(receipts) + 1
      BY <2>1, <2>2, <2>3, <2>5
    <3> QED
      BY <2>2, <2>3, <3>1 DEF Fits
  <2> QED
    BY <2>4, <2>5
<1>2. IInv => RequestsInOrder
  BY <1>1 DEF RequestsInOrder
<1> QED
  BY <1>2, CollectorInvariant, PTL

\* No request is missing from a pilot that was closed out.
THEOREM CloseoutAccounts == Spec => []CloseoutCountsAll
<1>1. ASSUME IInv, closeout # None
      PROVE  /\ Len(wire) = Len(receipts)
             /\ \A i \in DOMAIN wire :
                   wire[i].minute = receipts[i].minute /\ wire[i].attempt = receipts[i].attempt
  <2>1. receipts \in Seq(Receipt) /\ wire \in Seq([minute: Minutes, attempt: 1..MaxAttempts])
    BY <1>1 DEF IInv, TypeOK
  <2>2. Len(wire) = Len(receipts)
    BY <1>1 DEF IInv, WireInv, CloseoutInv
  <2>3. DOMAIN wire = DOMAIN receipts
    BY <2>1, <2>2
  <2> QED
    BY <1>1, <2>2, <2>3 DEF IInv, WireInv
<1>2. IInv => CloseoutCountsAll
  BY <1>1 DEF CloseoutCountsAll
<1> QED
  BY <1>2, CollectorInvariant, PTL

\* A pilot that was closed out has the coverage its plan requires.
THEOREM CoverageIsReached == Spec => []CoverageAtCloseout
<1>1. IInv => CoverageAtCloseout
  BY DEF IInv, CloseoutInv, CoverageAtCloseout, EnoughVerified
<1> QED
  BY <1>1, CollectorInvariant, PTL

\* At any time, the labels a closeout would carry pass verify_closeout.
THEOREM LabelsAlwaysVerify == Spec => []LabelsVerify
<1>1. IInv => LabelsVerify
  BY LabelsAgree DEF IInv, TypeOK, SoundChain, LabelsVerify
<1> QED
  BY <1>1, CollectorInvariant, PTL

\* Nothing that a returned closeout covers ever changes.
THEOREM SealedStays == Spec => []SealedInventoryHolds
<1>1. IInv => SealedInventoryHolds
  BY DEF IInv, CloseoutInv, SealedInventoryHolds
<1> QED
  BY <1>1, CollectorInvariant, PTL

\* A session that ended in order leaves what the next one needs.
THEOREM HandoverIsClean == Spec => []CleanHandover
<1>1. ASSUME IInv, phase = "idle", ~faulted, ~budget.halted, closeout = None
      PROVE  Hydratable
  <2>1. ChainVerified(receipts) /\ budget.loadable /\ ~budget.pending /\ GapsBut(0)
        /\ AttemptsOf(receipts) = budget.attempts /\ receipts \in Seq(Receipt)
    BY <1>1 DEF IInv, GapInv, JournalInv, TypeOK
  <2>2. ASSUME NEW i \in DOMAIN receipts PROVE receipts[i].minute # 0
    <3>1. receipts[i] \in Receipt
      BY <2>1
    <3> QED
      BY <3>1 DEF Receipt, Minutes
  <2> QED
    BY <1>1, <2>1, <2>2 DEF Hydratable, Accounted, GapsBut
<1>2. IInv => CleanHandover
  BY <1>1 DEF CleanHandover
<1> QED
  BY <1>2, CollectorInvariant, PTL
=============================================================================
