---------------------- MODULE ProductionVersions_proofs ---------------------
(***************************************************************************)
(* Proofs about ProductionVersions: a training call that raised leaves no  *)
(* version behind, reads of a version agree, and a version train returned  *)
(* for is shown for ever (ProductionVersions implements WriteOnce),        *)
(* whatever failed, died or crashed.                                       *)
(***************************************************************************)
EXTENDS ProductionVersions, TLAPS

\* Initially there is no version and no trainer has started.
LEMMA InitInv == Init => IInv
  BY NoneIsNothing DEF Init, SourceInit, IInv, TypeOK, SourceTypeOK, TrainerInv, VersionInv, Owning

\* A step of trainer t leaves alone the other trainers and their versions.
Apart(t) ==
    /\ \A u \in Trainers \ {t} : pc'[u] = pc[u] /\ target'[u] = target[u]
    /\ \A v \in Versions : version[v] # None /\ version[v].by # t =>
          /\ version'[v] # None
          /\ version'[v].by = version[v].by
          /\ version'[v].manifest = version[v].manifest
          /\ version'[v].payloads = version[v].payloads
    /\ \A v \in Versions : version'[v] # None /\ version'[v].by # t =>
          version[v] # None /\ version[v].by = version'[v].by

\* So those keep their invariants.
LEMMA OthersKeep ==
    ASSUME IInv, NEW t \in Trainers, Apart(t)
    PROVE  /\ \A u \in Trainers \ {t} : TrainerInv(u)'
           /\ \A v \in Versions :
                 version'[v] # None /\ version'[v].by # t /\ version'[v].by \in Trainers
                     => VersionInv(v)'
<1>1. ASSUME NEW u \in Trainers \ {t} PROVE TrainerInv(u)'
  <2>1. TrainerInv(u)
    BY DEF IInv
  <2>2. pc'[u] = pc[u] /\ target'[u] = target[u]
    BY DEF Apart
  <2>3. target[u] \in Versions /\ version[target[u]] # None /\ version[target[u]].by = u =>
          /\ version'[target[u]] # None
          /\ version'[target[u]].by = u
          /\ version'[target[u]].payloads = version[target[u]].payloads
    BY DEF Apart
  <2> QED
    BY <2>1, <2>2, <2>3 DEF TrainerInv, Owning
<1>2. ASSUME NEW v \in Versions, version'[v] # None, version'[v].by # t,
             version'[v].by \in Trainers
      PROVE  VersionInv(v)'
  <2>1. VersionInv(v)
    BY DEF IInv
  <2>2. /\ version[v] # None
        /\ version[v].by = version'[v].by
        /\ version[v].manifest = version'[v].manifest
    BY <1>2 DEF Apart
  <2>3. pc'[version[v].by] = pc[version[v].by] /\ target'[version[v].by] = target[version[v].by]
    BY <1>2, <2>2 DEF Apart
  <2> QED
    BY <2>1, <2>2, <2>3 DEF VersionInv
<1> QED
  BY <1>1, <1>2

\* What is left to prove of a step of t: the types, its own invariant, and that
\* of its own version.
LEMMA TrainerStep ==
    ASSUME IInv, TypeOK', NEW t \in Trainers, Apart(t), TrainerInv(t)',
           \A v \in Versions : version'[v] # None /\ version'[v].by = t => VersionInv(v)'
    PROVE  IInv'
<1>1. \A u \in Trainers : TrainerInv(u)'
  BY OthersKeep
<1>2. ASSUME NEW v \in Versions PROVE VersionInv(v)'
  <2>1. CASE version'[v] = None
    BY <2>1 DEF VersionInv
  <2>2. CASE version'[v] # None
    <3>1. version'[v].by \in Trainers
      BY <2>2 DEF TypeOK, Directory
    <3> QED
      BY <2>2, <3>1, OthersKeep
  <2> QED
    BY <2>1, <2>2
<1> QED
  BY <1>1, <1>2 DEF IInv

\* A trainer that owns its version works on that one, and no other is its own.
LEMMA OwnVersion ==
    ASSUME IInv, NEW t \in Trainers, pc[t] \in Owning \cup {"unlink", "sync_unlink"}
    PROVE  /\ target[t] \in Versions
           /\ version[target[t]] \in Directory
           /\ version[target[t]] # None
           /\ version[target[t]].by = t
           /\ \A v \in Versions : version[v] # None /\ version[v].by = t => v = target[t]
<1>1. TrainerInv(t) /\ \A v \in Versions : VersionInv(v)
  BY DEF IInv
<1>2. pc[t] # "new"
  BY DEF Owning
<1> QED
  BY <1>1, <1>2 DEF TrainerInv, VersionInv, IInv, TypeOK

\* A trainer that has not reserved its version has none.
LEMMA NoVersion ==
    ASSUME IInv, NEW t \in Trainers, pc[t] \in {"new", "fit", "lock", "reserve"},
           NEW v \in Versions, version[v] # None
    PROVE  version[v].by # t
  BY DEF IInv, VersionInv, Owning, Over

\* A step of an owner that changes its own version, and says where it goes on.
OwnChange(t, d, phase) ==
    /\ version' = [version EXCEPT ![target[t]] = d]
    /\ pc' = [pc EXCEPT ![t] = phase]
    /\ UNCHANGED <<source, target, reading, reads>>
    /\ lock' \in [Versions -> Trainers \cup {None}]

\* Such a step keeps the invariant when the new directory is still the trainer's
\* and fits the phase.
LEMMA OwnStep ==
    ASSUME IInv, NEW t \in Trainers, pc[t] \in Owning \cup {"unlink", "sync_unlink"},
           NEW d \in Directory, d.by = t,
           NEW phase \in Owning \cup {"unlink", "sync_unlink"} \cup Over,
           OwnChange(t, d, phase),
           phase = "sync_parent" => d.payloads = 0,
           phase = "payload" => d.payloads < Payloads,
           phase = "raised" => d.manifest \in {"none", "removed"}
    PROVE  IInv'
<1>t. TypeOK
  BY DEF IInv
<1>o. /\ target[t] \in Versions
      /\ version[target[t]] # None
      /\ version[target[t]].by = t
      /\ \A v \in Versions : version[v] # None /\ version[v].by = t => v = target[t]
  BY OwnVersion
<1>1. TypeOK'
  BY <1>t, <1>o DEF OwnChange, TypeOK, SourceTypeOK, source
<1>2. version'[target[t]] = d /\ target'[t] = target[t] /\ pc'[t] = phase
  BY <1>t, <1>o DEF OwnChange, TypeOK
<1>3. \A v \in Versions : v # target[t] => version'[v] = version[v]
  BY <1>t DEF OwnChange, TypeOK
<1>4. \A u \in Trainers \ {t} : pc'[u] = pc[u] /\ target'[u] = target[u]
  BY <1>t DEF OwnChange, TypeOK
<1>n. d # None
  BY NoneIsNothing
<1>5. Apart(t)
  BY <1>o, <1>2, <1>3, <1>4 DEF Apart
<1>6. TrainerInv(t)'
  BY <1>o, <1>n, <1>2 DEF TrainerInv, Owning, Over
<1>7. ASSUME NEW v \in Versions, version'[v] # None, version'[v].by = t PROVE VersionInv(v)'
  <2>1. v = target[t]
    BY <1>7, <1>o, <1>3
  <2> QED
    BY <2>1, <1>2 DEF VersionInv
<1> QED
  BY <1>1, <1>5, <1>6, <1>7, TrainerStep

\* A step of t that leaves the versions as they are.
PhaseChange(t, phase) ==
    /\ pc' = [pc EXCEPT ![t] = phase]
    /\ UNCHANGED <<source, version, target, reading, reads>>
    /\ lock' \in [Versions -> Trainers \cup {None}]

\* It keeps the invariant when the trainer has no version yet, or goes on to
\* unlink its manifest, to return or to die.
LEMMA PhaseStep ==
    ASSUME IInv, NEW t \in Trainers, NEW phase, PhaseChange(t, phase), pc[t] # "new",
           \/ pc[t] \in {"fit", "lock", "reserve"} /\ phase \in {"lock", "reserve"} \cup Over
           \/ pc[t] \in Owning \cup {"unlink", "sync_unlink"}
                 /\ phase \in {"unlink", "returned", "dead"}
           \/ phase = "dead"
    PROVE  IInv'
<1>t. TypeOK
  BY DEF IInv
<1>1. TypeOK'
  BY <1>t DEF PhaseChange, TypeOK, SourceTypeOK, source, Over
<1>2. pc'[t] = phase /\ target'[t] = target[t] /\ version' = version
  BY <1>t DEF PhaseChange, TypeOK
<1>3. Apart(t)
  BY <1>t DEF PhaseChange, TypeOK, Apart
<1>i. TrainerInv(t)
  BY DEF IInv
<1>4. TrainerInv(t)'
  BY <1>2, <1>i DEF TrainerInv, Owning, Over
<1>5. ASSUME NEW v \in Versions, version'[v] # None, version'[v].by = t PROVE VersionInv(v)'
  <2>1. VersionInv(v)
    BY DEF IInv
  <2>2. pc[t] \notin {"fit", "lock", "reserve"}
    BY <1>5, <1>2, NoVersion
  <2> QED
    BY <1>5, <1>2, <2>1, <2>2 DEF VersionInv, Over
<1> QED
  BY <1>1, <1>3, <1>4, <1>5, TrainerStep

\* The fsync of the versions root changes nothing but the entries.
LEMMA RootStep ==
    ASSUME IInv, NEW t \in Trainers, pc[t] \in Owning, version' = RootSynced,
           NEW phase \in {"payload", "verify"}, pc' = [pc EXCEPT ![t] = phase],
           UNCHANGED <<source, lock, target, reading, reads>>,
           phase = "payload" => version[target[t]].payloads = 0
    PROVE  IInv'
<1>t. TypeOK
  BY DEF IInv
<1>o. /\ target[t] \in Versions
      /\ version[target[t]] # None
      /\ version[target[t]].by = t
      /\ \A v \in Versions : version[v] # None /\ version[v].by = t => v = target[t]
  BY OwnVersion
<1>1. ASSUME NEW v \in Versions
      PROVE  /\ version'[v] \in Directory \cup {None}
             /\ version[v] = None <=> version'[v] = None
             /\ version[v] # None =>
                   /\ version'[v].by = version[v].by
                   /\ version'[v].manifest = version[v].manifest
                   /\ version'[v].payloads = version[v].payloads
  <2>1. CASE version[v] = None
    BY <2>1 DEF RootSynced
  <2>2. CASE version[v] # None
    <3>1. version[v] \in Directory
      BY <1>t, <2>2 DEF TypeOK
    <3>2. [version[v] EXCEPT !.entry = TRUE] \in Directory
      BY <3>1 DEF Directory
    <3>3. version'[v] = [version[v] EXCEPT !.entry = TRUE]
      BY <2>2 DEF RootSynced
    <3>4. /\ version'[v].by = version[v].by
          /\ version'[v].manifest = version[v].manifest
          /\ version'[v].payloads = version[v].payloads
      BY <3>1, <3>3 DEF Directory
    <3> QED
      BY <2>2, <3>2, <3>3, <3>4, NoneIsNothing
  <2> QED
    BY <2>1, <2>2
<1>2. version' \in [Versions -> Directory \cup {None}]
  BY <1>1 DEF RootSynced
<1>3. TypeOK'
  BY <1>t, <1>2 DEF TypeOK, SourceTypeOK, source, Owning
<1>4. Apart(t)
  BY <1>t, <1>1 DEF Apart, TypeOK
<1>5. pc'[t] = phase /\ target'[t] = target[t]
  BY <1>t DEF TypeOK
<1>6. TrainerInv(t)'
  BY <1>o, <1>1, <1>5, ProductionAssumption DEF TrainerInv, Owning
<1>7. ASSUME NEW v \in Versions, version'[v] # None, version'[v].by = t PROVE VersionInv(v)'
  <2>1. v = target[t]
    BY <1>7, <1>o, <1>1
  <2> QED
    BY <2>1, <1>o, <1>1, <1>5 DEF VersionInv, Owning
<1> QED
  BY <1>3, <1>4, <1>6, <1>7, TrainerStep

\* A reserved directory is new, and belongs to the trainer that made it.
LEMMA ReserveStep ==
    ASSUME IInv, NEW t \in Trainers, pc[t] = "reserve", version[target[t]] = None,
           version' = [version EXCEPT ![target[t]] = Reservation(t)],
           NEW phase \in {"sync_parent", "raised"}, pc' = [pc EXCEPT ![t] = phase],
           UNCHANGED <<source, target, reading, reads>>,
           lock' \in [Versions -> Trainers \cup {None}]
    PROVE  IInv'
<1> DEFINE d == Reservation(t)
<1>t. TypeOK
  BY DEF IInv
<1>v. target[t] \in Versions
  BY DEF IInv, TrainerInv
<1>d. /\ d \in Directory
      /\ d.by = t
      /\ d.payloads = 0
      /\ d.manifest = "none"
  BY ProductionAssumption DEF Directory, Reservation
<1>n. d # None
  BY <1>d, NoneIsNothing
<1>e. version' = [version EXCEPT ![target[t]] = d]
  OBVIOUS
<1>1. TypeOK'
  BY <1>t, <1>v, <1>d, <1>e DEF TypeOK, SourceTypeOK, source, Owning, Over
<1>2. version'[target[t]] = d /\ target'[t] = target[t] /\ pc'[t] = phase
  BY <1>t, <1>v, <1>e DEF TypeOK
<1>3. \A v \in Versions : v # target[t] => version'[v] = version[v]
  BY <1>t, <1>e DEF TypeOK
<1>4. \A u \in Trainers \ {t} : pc'[u] = pc[u] /\ target'[u] = target[u]
  BY <1>t DEF TypeOK
<1>5. Apart(t)
  BY <1>2, <1>3, <1>4, <1>d DEF Apart
<1>6. TrainerInv(t)'
  BY <1>v, <1>d, <1>n, <1>2 DEF TrainerInv, Owning
<1>7. ASSUME NEW v \in Versions, version'[v] # None, version'[v].by = t PROVE VersionInv(v)'
  <2>1. v = target[t]
    BY <1>7, <1>3, NoVersion
  <2> QED
    BY <2>1, <1>2, <1>d DEF VersionInv, Owning, Over
<1> QED
  BY <1>1, <1>5, <1>6, <1>7, TrainerStep

\* Closing a lock's descriptor keeps the locks typed.
LEMMA UnlockType ==
    ASSUME TypeOK, NEW t, Unlock(t) PROVE lock' \in [Versions -> Trainers \cup {None}]
  BY DEF Unlock, TypeOK

\* Every step of a trainer keeps the invariant.
LEMMA TrainerSteps == ASSUME IInv, NEW t \in Trainers, TrainStep(t) PROVE IInv'
<1>t. TypeOK
  BY DEF IInv
<1>i. TrainerInv(t)
  BY DEF IInv
<1>o. pc[t] \in Owning \cup {"unlink", "sync_unlink"} =>
        /\ target[t] \in Versions
        /\ version[target[t]] \in Directory
        /\ version[target[t]].by = t
  BY OwnVersion
<1>1. ASSUME NEW v \in Versions, Train(t, v) PROVE IInv'
  <2>1. TypeOK'
    BY <1>t, <1>1 DEF Train, Goto, TypeOK, SourceTypeOK, source
  <2>2. pc'[t] = "fit" /\ target'[t] = v /\ version' = version
    BY <1>t, <1>1 DEF Train, Goto, TypeOK
  <2>3. Apart(t)
    BY <1>t, <1>1 DEF Train, Goto, TypeOK, Apart
  <2>4. TrainerInv(t)'
    BY <2>2 DEF TrainerInv, Owning
  <2>5. ASSUME NEW w \in Versions, version'[w] # None, version'[w].by = t PROVE VersionInv(w)'
    BY <1>1, <2>2, <2>5, NoVersion DEF Train
  <2> QED
    BY <2>1, <2>3, <2>4, <2>5, TrainerStep
<1>2. CASE FitCandidate(t)
  <2>1. PhaseChange(t, "lock")
    BY <1>t, <1>2 DEF FitCandidate, Goto, PhaseChange, TypeOK
  <2> QED
    BY <1>2, <2>1, PhaseStep DEF FitCandidate
<1>3. CASE LockVersion(t)
  <2>1. lock' \in [Versions -> Trainers \cup {None}]
    BY <1>t, <1>3 DEF LockVersion, TypeOK
  <2>2. PhaseChange(t, "reserve")
    BY <1>3, <2>1 DEF LockVersion, Goto, PhaseChange
  <2> QED
    BY <1>3, <2>2, PhaseStep DEF LockVersion
<1>4. CASE ReserveVersion(t)
  <2>1. lock' \in [Versions -> Trainers \cup {None}]
    BY <1>t, <1>4 DEF ReserveVersion, TypeOK
  <2> QED
    BY <1>4, <2>1, ReserveStep DEF ReserveVersion, Goto
<1>5. CASE SyncReservation(t)
  BY <1>5, <1>i, RootStep DEF SyncReservation, Goto, TrainerInv, Owning
<1>6. CASE WritePayload(t)
  <2> DEFINE d == [version[target[t]] EXCEPT !.payloads = @ + 1, !.synced = FALSE]
             phase == IF version[target[t]].payloads + 1 = Payloads THEN "sync_tree" ELSE "payload"
  <2>1. pc[t] \in Owning /\ version[target[t]].payloads < Payloads
    BY <1>6, <1>i DEF WritePayload, TrainerInv, Owning
  <2>2. d \in Directory /\ d.by = t /\ d.payloads = version[target[t]].payloads + 1
    <3>1. version[target[t]] \in Directory /\ version[target[t]].by = t
      BY <1>o, <2>1
    <3>2. version[target[t]].payloads + 1 \in 0..Payloads
      BY <2>1, <3>1, ProductionAssumption DEF Directory
    <3> QED
      BY <3>1, <3>2 DEF Directory
  <2>3. phase = "payload" => d.payloads < Payloads
    BY <1>o, <2>1, <2>2, ProductionAssumption DEF Directory
  <2>4. phase \in {"sync_tree", "payload"}
    OBVIOUS
  <2>5. version' = [version EXCEPT ![target[t]] = d]
    BY <1>t, <1>o, <1>6, <2>1 DEF WritePayload, TypeOK, Directory
  <2>6. pc' = [pc EXCEPT ![t] = phase]
    BY <1>6 DEF WritePayload, Goto
  <2>7. lock' \in [Versions -> Trainers \cup {None}] /\ UNCHANGED <<source, target, reading, reads>>
    BY <1>t, <1>6 DEF WritePayload, TypeOK
  <2> HIDE DEF d, phase
  <2>8. OwnChange(t, d, phase)
    BY <2>5, <2>6, <2>7 DEF OwnChange
  <2>9. phase \in Owning /\ phase # "sync_parent" /\ phase # "raised"
    BY <2>4 DEF Owning
  <2> QED
    BY <2>1, <2>2, <2>3, <2>8, <2>9, OwnStep
<1>7. CASE SyncTree(t)
  <2> DEFINE d == [version[target[t]] EXCEPT !.synced = TRUE]
  <2>1. pc[t] \in Owning /\ d \in Directory /\ d.by = t
    BY <1>7, <1>o DEF SyncTree, Owning, Directory
  <2>2. OwnChange(t, d, "complete")
    BY <1>t, <1>7 DEF SyncTree, Goto, OwnChange, TypeOK
  <2> QED
    BY <2>1, <2>2, OwnStep DEF Owning
<1>8. CASE Complete(t)
  <2> DEFINE d == [version[target[t]] EXCEPT !.manifest = "renamed"]
  <2>1. pc[t] \in Owning /\ d \in Directory /\ d.by = t
    BY <1>8, <1>o DEF Complete, Owning, Directory
  <2>2. OwnChange(t, d, "sync_version")
    BY <1>t, <1>8 DEF Complete, Goto, OwnChange, TypeOK
  <2> QED
    BY <2>1, <2>2, OwnStep DEF Owning
<1>9. CASE SyncVersion(t)
  <2> DEFINE d == [version[target[t]] EXCEPT !.manifest = "present", !.synced = TRUE]
  <2>1. pc[t] \in Owning /\ d \in Directory /\ d.by = t
    BY <1>9, <1>o DEF SyncVersion, Owning, Directory
  <2>2. version' = [version EXCEPT ![target[t]] = d]
    BY <1>t, <1>o, <1>9, <2>1 DEF SyncVersion, TypeOK, Directory
  <2>3. OwnChange(t, d, "sync_versions")
    BY <1>t, <1>9, <2>2 DEF SyncVersion, Goto, OwnChange, TypeOK
  <2> QED
    BY <2>1, <2>3, OwnStep DEF Owning
<1>10. CASE SyncVersions(t)
  BY <1>10, RootStep DEF SyncVersions, Goto, Owning
<1>11. CASE VerifyVersion(t)
  <2>1. PhaseChange(t, "returned")
    BY <1>t, <1>11, UnlockType DEF VerifyVersion, Goto, PhaseChange
  <2> QED
    BY <1>11, <2>1, PhaseStep DEF VerifyVersion, Owning
<1>12. CASE TrainFails(t)
  <2>0. lock' \in [Versions -> Trainers \cup {None}]
    BY <1>t, <1>12, UnlockType DEF TrainFails
  <2>1. CASE pc[t] \in {"fit", "lock", "reserve"} /\ Goto(t, "raised") /\ UNCHANGED version
    <3>1. PhaseChange(t, "raised")
      BY <1>12, <2>0, <2>1 DEF TrainFails, Goto, PhaseChange
    <3> QED
      BY <2>1, <3>1, PhaseStep DEF Over
  <2>2. CASE /\ pc[t] = "reserve" /\ version[target[t]] = None
             /\ Goto(t, "raised")
             /\ version' = [version EXCEPT ![target[t]] = Reservation(t)]
    BY <1>12, <2>0, <2>2, ReserveStep DEF TrainFails, Goto
  <2>3. CASE pc[t] \in Owning /\ Goto(t, "unlink") /\ UNCHANGED version
    <3>1. PhaseChange(t, "unlink")
      BY <1>12, <2>0, <2>3 DEF TrainFails, Goto, PhaseChange
    <3> QED
      BY <2>3, <3>1, PhaseStep DEF Owning
  <2> QED
    BY <1>12, <2>1, <2>2, <2>3 DEF TrainFails
<1>13. CASE UnlinkManifest(t)
  <2> DEFINE d == [version[target[t]] EXCEPT !.manifest =
                      CASE @ = "none" -> "none" [] OTHER -> "unlinked"]
  <2>1. pc[t] = "unlink" /\ d \in Directory /\ d.by = t
    BY <1>13, <1>o DEF UnlinkManifest, Directory
  <2>2. version' = [version EXCEPT ![target[t]] = d]
    BY <1>t, <1>o, <1>13, <2>1 DEF UnlinkManifest, TypeOK, Directory
  <2>3. OwnChange(t, d, "sync_unlink")
    BY <1>t, <1>13, <2>2 DEF UnlinkManifest, Goto, OwnChange, TypeOK
  <2> QED
    BY <2>1, <2>3, OwnStep
<1>14. CASE SyncUnlink(t)
  <2> DEFINE d == [version[target[t]] EXCEPT !.manifest =
                      CASE @ = "none" -> "none" [] OTHER -> "removed", !.synced = TRUE]
  <2>1. pc[t] = "sync_unlink" /\ d \in Directory /\ d.by = t /\ d.manifest \in {"none", "removed"}
    BY <1>14, <1>o DEF SyncUnlink, Directory
  <2>2. version' = [version EXCEPT ![target[t]] = d]
    BY <1>t, <1>o, <1>14, <2>1 DEF SyncUnlink, TypeOK, Directory
  <2>3. OwnChange(t, d, "raised")
    BY <1>t, <1>14, <2>2 DEF SyncUnlink, Goto, OwnChange, TypeOK
  <2> QED
    BY <2>1, <2>3, OwnStep DEF Over
<1>15. CASE Die(t)
  <2>1. PhaseChange(t, "dead")
    BY <1>t, <1>15, UnlockType DEF Die, Goto, PhaseChange
  <2> QED
    BY <1>15, <2>1, PhaseStep DEF Die
<1> QED
  BY <1>1, <1>2, <1>3, <1>4, <1>5, <1>6, <1>7, <1>8, <1>9, <1>10, <1>11, <1>12, <1>13,
     <1>14, <1>15 DEF TrainStep

\* What a crash leaves of a directory is a directory of the same trainer, and a
\* manifest that was removed, or never written, stays away.
LEMMA CrashedVersion ==
    ASSUME NEW v \in Versions, version[v] \in Directory,
           NEW left \in [Versions -> 0..Payloads], NEW back
    PROVE  /\ Remains(v, left, back) \in Directory
           /\ Remains(v, left, back).by = version[v].by
           /\ version[v].manifest \in {"none", "removed"} =>
                 Remains(v, left, back).manifest = version[v].manifest
  BY DEF Remains, Directory

\* A crash of the host ends every call and keeps the invariant.
LEMMA CrashStep == ASSUME IInv, HostCrash PROVE IInv'
<1>t. TypeOK
  BY DEF IInv
<1>1. PICK lost \in SUBSET {v \in Versions : version[v] # None /\ ~version[v].entry},
           left \in [Versions -> 0..Payloads], back \in SUBSET Versions :
        version' = [v \in Versions |-> IF version[v] = None \/ v \in lost THEN None
                                       ELSE Remains(v, left, back)]
  BY DEF HostCrash
<1>2. ASSUME NEW v \in Versions
      PROVE  /\ version'[v] \in Directory \cup {None}
             /\ version'[v] # None =>
                   /\ version[v] # None
                   /\ version'[v].by = version[v].by
                   /\ version[v].manifest \in {"none", "removed"} =>
                         version'[v].manifest = version[v].manifest
  <2>1. version[v] = None \/ version[v] \in Directory
    BY <1>t DEF TypeOK
  <2>2. version'[v] # None => version[v] # None /\ version'[v] = Remains(v, left, back)
    BY <1>1
  <2> QED
    BY <2>1, <2>2, CrashedVersion
<1>3. version' \in [Versions -> Directory \cup {None}]
  BY <1>1, <1>2
<1>4. \A t \in Trainers : pc'[t] = IF pc[t] \in Over \cup {"new"} THEN pc[t] ELSE "dead"
  BY DEF HostCrash
<1>5. TypeOK'
  <2>1. pc' \in [Trainers -> {"new", "fit", "lock", "reserve", "unlink", "sync_unlink"}
                                \cup Owning \cup Over]
    BY <1>t DEF HostCrash, TypeOK, Over
  <2>2. lock' \in [Versions -> Trainers \cup {None}]
    BY DEF HostCrash
  <2>3. reading' \in [Readers -> [read: Read, step: {"source", "replay", "capture"}]
                                    \cup {None}]
    BY DEF HostCrash
  <2> QED
    BY <1>t, <1>3, <2>1, <2>2, <2>3 DEF HostCrash, TypeOK, SourceTypeOK, source
<1>6. ASSUME NEW t \in Trainers PROVE TrainerInv(t)'
  <2>1. TrainerInv(t)
    BY DEF IInv
  <2>2. target'[t] = target[t]
    BY DEF HostCrash
  <2> QED
    BY <1>4, <2>1, <2>2 DEF TrainerInv, Owning, Over
<1>7. ASSUME NEW v \in Versions PROVE VersionInv(v)'
  <2>1. VersionInv(v)
    BY DEF IInv
  <2>2. ASSUME version'[v] # None
        PROVE  /\ version[v].by \in Trainers
               /\ version'[v].by = version[v].by
               /\ version[v].manifest \in {"none", "removed"} =>
                     version'[v].manifest = version[v].manifest
    <3>1. version[v] \in Directory
      BY <1>t, <1>2, <2>2 DEF TypeOK
    <3> QED
      BY <1>2, <2>2, <3>1 DEF Directory
  <2>3. target' = target
    BY DEF HostCrash
  <2> QED
    BY <1>2, <1>4, <2>1, <2>2, <2>3 DEF VersionInv, Owning, Over
<1> QED
  BY <1>5, <1>6, <1>7 DEF IInv

\* The evaluation's steps and the readers' change no version and no trainer.
LEMMA QuietStep ==
    ASSUME IInv, TypeOK', UNCHANGED <<version, pc, target>> PROVE IInv'
  BY DEF IInv, TrainerInv, VersionInv

\* A reader's step keeps the types.
LEMMA ReadTypes == ASSUME IInv, NEW r \in Readers, ReadStep(r) PROVE TypeOK'
<1>t. TypeOK
  BY DEF IInv
<1>1. ASSUME NEW v \in Versions, BeginRead(r, v) PROVE TypeOK'
  <2> DEFINE late == verdict = "raised"
             read == [version |-> v, by |-> version[v].by, late |-> late]
  <2>1. version[v].by \in Trainers
    BY <1>t, <1>1 DEF BeginRead, Readable, TypeOK, Directory
  <2>2. late \in BOOLEAN
    OBVIOUS
  <2>3. read \in Read
    <3> HIDE DEF late
    <3> QED
      BY <2>1, <2>2 DEF Read
  <2>4. [read |-> read, step |-> "source"] \in [read: Read, step: {"source", "replay", "capture"}]
    <3> HIDE DEF read
    <3> QED
      BY <2>3
  <2>5. reading' = [reading EXCEPT ![r] = [read |-> read, step |-> "source"]]
    BY <1>1 DEF BeginRead
  <2> HIDE DEF read
  <2> QED
    BY <1>t, <1>1, <2>4, <2>5 DEF BeginRead, TypeOK, SourceTypeOK, source
<1>2. CASE VerifySource(r)
  BY <1>t, <1>2 DEF VerifySource, TypeOK, SourceTypeOK, source
<1>3. CASE EndRead(r)
  BY <1>t, <1>3 DEF EndRead, TypeOK, SourceTypeOK, source
<1>4. CASE ReadFails(r)
  BY <1>t, <1>4 DEF ReadFails, TypeOK, SourceTypeOK, source
<1> QED
  BY <1>1, <1>2, <1>3, <1>4 DEF ReadStep

\* Every step keeps the invariant.
LEMMA NextInv == IInv /\ [Next]_vars => IInv'
<1> SUFFICES ASSUME IInv, [Next]_vars PROVE IInv'
  OBVIOUS
<1>t. TypeOK
  BY DEF IInv
<1>1. CASE UNCHANGED vars
  <2>1. TypeOK'
    BY <1>t, <1>1 DEF vars, store, source, TypeOK, SourceTypeOK
  <2> QED
    BY <1>1, <2>1, QuietStep DEF vars, store
<1>2. ASSUME NEW t \in Trainers, TrainStep(t) PROVE IInv'
  BY <1>2, TrainerSteps
<1>3. ASSUME NEW r \in Readers, ReadStep(r) PROVE IInv'
  <2>1. UNCHANGED <<version, pc, target>>
    BY <1>3 DEF ReadStep, BeginRead, VerifySource, EndRead, ReadFails
  <2> QED
    BY <1>3, <2>1, ReadTypes, QuietStep
<1>4. CASE HostCrash
  BY <1>4, CrashStep
<1>5. CASE SourceNext /\ UNCHANGED store
  <2>1. SourceTypeOK'
    BY <1>t, <1>5 DEF TypeOK, SourceTypeOK, SourceNext, OpenFor, Turn, Stand, Withdraw
  <2>2. TypeOK'
    BY <1>t, <1>5, <2>1 DEF TypeOK, store
  <2> QED
    BY <1>5, <2>2, QuietStep DEF store
<1> QED
  BY <1>1, <1>2, <1>3, <1>4, <1>5 DEF Next

\* The inductive invariant of the production store, for any number of trainers,
\* readers, versions and payload files, and any failures, deaths and crashes of
\* publish and its rollback.
THEOREM VersionInvariant == Spec => []IInv
  BY InitInv, NextInv, PTL DEF Spec

\* A call of train that raised leaves no readable version: the rollback removed
\* the manifest durably, or none was ever renamed into place.
THEOREM NothingLeftBehind == Spec => []RaisedIsWithdrawn
<1>1. IInv => RaisedIsWithdrawn
  BY DEF IInv, VersionInv, RaisedIsWithdrawn, Readable
<1> QED
  BY <1>1, VersionInvariant, PTL

-----------------------------------------------------------------------------
\* A version whose entry is fsynced stays, with its trainer.
Lasts ==
    \A v \in Versions : version[v] # None /\ version[v].entry =>
        /\ version'[v] # None
        /\ version'[v].by = version[v].by
        /\ version'[v].entry

\* It does when a trainer changes its own version and no entry.
LEMMA OwnLasts ==
    ASSUME IInv, Durable, NEW t \in Trainers,
           pc[t] \in Owning \cup {"unlink", "sync_unlink"},
           NEW d \in Directory, d.by = t, d.entry <=> version[target[t]].entry,
           NEW phase, OwnChange(t, d, phase),
           d.manifest # "none" => d.entry,
           phase \in Owning => phase # "sync_parent" /\ d.entry
    PROVE  Lasts /\ Durable'
<1>o. /\ target[t] \in Versions
      /\ version[target[t]] # None
      /\ version[target[t]].by = t
  BY OwnVersion
<1>1. version'[target[t]] = d /\ target' = target
  BY <1>o DEF OwnChange, IInv, TypeOK
<1>2. \A v \in Versions : v # target[t] => version'[v] = version[v]
  BY DEF OwnChange, IInv, TypeOK
<1>3. pc'[t] = phase /\ \A u \in Trainers \ {t} : pc'[u] = pc[u]
  BY DEF OwnChange, IInv, TypeOK
<1>n. d # None
  BY NoneIsNothing
<1>4. Lasts
  BY <1>o, <1>n, <1>1, <1>2 DEF Lasts
<1>5. ASSUME NEW u \in Trainers, pc'[u] \in Owning \ {"sync_parent"}
      PROVE  version'[target[u]].entry
  <2>1. CASE u = t
    BY <1>1, <1>3, <1>5, <2>1
  <2>2. CASE u # t
    <3>1. pc[u] \in Owning \ {"sync_parent"}
      BY <1>3, <1>5, <2>2
    <3>2. target[u] \in Versions /\ version[target[u]].by = u
      BY <3>1, OwnVersion
    <3>3. target[u] # target[t]
      BY <1>o, <2>2, <3>2
    <3> QED
      BY <1>2, <3>1, <3>2, <3>3 DEF Durable
  <2> QED
    BY <2>1, <2>2
<1>6. ASSUME NEW v \in Versions, version'[v] # None,
             version'[v].manifest # "none"
      PROVE  version'[v].entry
  BY <1>1, <1>2, <1>6 DEF Durable
<1> QED
  BY <1>1, <1>4, <1>5, <1>6 DEF Durable

\* And when no version changes and nobody becomes an owner.
LEMMA QuietLasts ==
    ASSUME IInv, Durable, UNCHANGED version,
           \A t \in Trainers : pc'[t] \in Owning => pc[t] = pc'[t] /\ target'[t] = target[t]
    PROVE  Lasts /\ Durable'
  BY DEF Lasts, Durable

\* An fsync of the root only adds to what lasts.
LEMMA RootLasts ==
    ASSUME IInv, Durable, NEW t \in Trainers, version' = RootSynced,
           NEW phase, pc' = [pc EXCEPT ![t] = phase], UNCHANGED target, pc[t] \in Owning
    PROVE  Lasts /\ Durable'
<1>1. ASSUME NEW v \in Versions, version[v] # None
      PROVE  version'[v] # None /\ version'[v].by = version[v].by /\ version'[v].entry
  <2>1. version[v] \in Directory
    BY <1>1 DEF IInv, TypeOK
  <2>2. version'[v] = [version[v] EXCEPT !.entry = TRUE]
    BY <1>1 DEF RootSynced
  <2>3. [version[v] EXCEPT !.entry = TRUE] \in Directory
    BY <2>1 DEF Directory
  <2> QED
    BY <2>1, <2>2, <2>3, NoneIsNothing DEF Directory
<1>2. \A v \in Versions : version[v] = None => version'[v] = None
  BY DEF RootSynced
<1>3. Lasts
  BY <1>1 DEF Lasts
<1>4. ASSUME NEW u \in Trainers, pc'[u] \in Owning PROVE version'[target[u]].entry
  <2>1. pc[u] \in Owning
    BY <1>4 DEF IInv, TypeOK
  <2>2. target[u] \in Versions /\ version[target[u]] # None
    BY <2>1, OwnVersion
  <2> QED
    BY <1>1, <2>2
<1> QED
  BY <1>1, <1>2, <1>3, <1>4 DEF Durable

\* A reservation takes a name that is free.
LEMMA ReserveLasts ==
    ASSUME IInv, Durable, NEW t \in Trainers, pc[t] = "reserve", version[target[t]] = None,
           version' = [version EXCEPT ![target[t]] = Reservation(t)],
           NEW phase \in {"sync_parent", "raised"}, pc' = [pc EXCEPT ![t] = phase],
           UNCHANGED target
    PROVE  Lasts /\ Durable'
<1>v. target[t] \in Versions
  BY DEF IInv, TrainerInv
<1>1. version'[target[t]].manifest = "none"
  BY <1>v DEF IInv, TypeOK, Reservation
<1>2. \A v \in Versions : v # target[t] => version'[v] = version[v]
  BY DEF IInv, TypeOK
<1>3. Lasts
  BY <1>2 DEF Lasts
<1>4. ASSUME NEW u \in Trainers, pc'[u] \in Owning \ {"sync_parent"}
      PROVE  version'[target[u]].entry
  <2>1. u # t /\ pc[u] \in Owning \ {"sync_parent"}
    BY <1>4 DEF IInv, TypeOK, Owning
  <2>2. target[u] \in Versions /\ version[target[u]] # None
    BY <2>1, OwnVersion
  <2>3. target[u] # target[t]
    BY <2>2
  <2> QED
    BY <1>2, <2>1, <2>2, <2>3 DEF Durable
<1> QED
  BY <1>1, <1>2, <1>3, <1>4 DEF Durable

\* So it is with every step of a trainer.
LEMMA TrainerLasts ==
    ASSUME IInv, Durable, NEW t \in Trainers, TrainStep(t) PROVE Lasts /\ Durable'
<1>t. TypeOK
  BY DEF IInv
<1>o. pc[t] \in Owning \cup {"unlink", "sync_unlink"} =>
        /\ target[t] \in Versions
        /\ version[target[t]] \in Directory
        /\ version[target[t]] # None
        /\ version[target[t]].by = t
  BY OwnVersion
<1>e. /\ pc[t] \in Owning \ {"sync_parent"} => version[target[t]].entry
      /\ pc[t] \in {"unlink", "sync_unlink"} =>
            version[target[t]].manifest = "none" \/ version[target[t]].entry
  BY <1>o DEF Durable
<1>p. \A phase : Goto(t, phase) =>
        pc'[t] = phase /\ \A u \in Trainers \ {t} : pc'[u] = pc[u]
  BY <1>t DEF Goto, TypeOK
<1>1. CASE FitCandidate(t) \/ LockVersion(t) \/ VerifyVersion(t) \/ Die(t)
  BY <1>1, <1>p, QuietLasts DEF FitCandidate, LockVersion, VerifyVersion, Die, Owning
<1>2. ASSUME NEW v \in Versions, Train(t, v) PROVE Lasts /\ Durable'
  <2>1. \A u \in Trainers : pc'[u] \in Owning => pc[u] = pc'[u] /\ target'[u] = target[u]
    BY <1>t, <1>2, <1>p DEF Train, Owning, TypeOK
  <2> QED
    BY <1>2, <2>1, QuietLasts DEF Train
<1>3. CASE ReserveVersion(t)
  BY <1>3, ReserveLasts DEF ReserveVersion, Goto
<1>4. CASE SyncReservation(t)
  BY <1>4, RootLasts DEF SyncReservation, Goto, Owning
<1>5. CASE SyncVersions(t)
  BY <1>5, RootLasts DEF SyncVersions, Goto, Owning
<1>6. CASE TrainFails(t)
  <2>1. CASE Goto(t, "raised") /\ UNCHANGED version
    BY <1>6, <2>1, <1>p, QuietLasts DEF TrainFails, Owning
  <2>2. CASE pc[t] = "reserve" /\ version[target[t]] = None /\ Goto(t, "raised")
             /\ version' = [version EXCEPT ![target[t]] = Reservation(t)]
    BY <1>6, <2>2, ReserveLasts DEF TrainFails, Goto
  <2>3. CASE Goto(t, "unlink") /\ UNCHANGED version
    BY <1>6, <2>3, <1>p, QuietLasts DEF TrainFails, Owning
  <2> QED
    BY <1>6, <2>1, <2>2, <2>3 DEF TrainFails
<1>7. CASE WritePayload(t)
  <2> DEFINE d == [version[target[t]] EXCEPT !.payloads = @ + 1, !.synced = FALSE]
             phase == IF version[target[t]].payloads + 1 = Payloads THEN "sync_tree" ELSE "payload"
  <2>1. pc[t] \in Owning \ {"sync_parent"} /\ version[target[t]].payloads < Payloads
    BY <1>7 DEF WritePayload, IInv, TrainerInv, Owning
  <2>2. d \in Directory /\ d.by = t /\ (d.entry <=> version[target[t]].entry)
    <3>1. version[target[t]] \in Directory /\ version[target[t]].by = t
      BY <1>o, <2>1
    <3>2. version[target[t]].payloads + 1 \in 0..Payloads
      BY <2>1, <3>1, ProductionAssumption DEF Directory
    <3> QED
      BY <3>1, <3>2 DEF Directory
  <2>3. version' = [version EXCEPT ![target[t]] = d]
    BY <1>t, <1>o, <1>7, <2>1 DEF WritePayload, TypeOK, Directory
  <2>4. phase \in {"sync_tree", "payload"}
    OBVIOUS
  <2>5. pc' = [pc EXCEPT ![t] = phase]
    BY <1>7 DEF WritePayload, Goto
  <2> HIDE DEF d, phase
  <2>6. OwnChange(t, d, phase)
    BY <1>t, <1>7, <2>3, <2>5 DEF WritePayload, OwnChange, TypeOK
  <2> QED
    BY <1>e, <2>1, <2>2, <2>4, <2>6, OwnLasts
<1>8. CASE SyncTree(t)
  <2> DEFINE d == [version[target[t]] EXCEPT !.synced = TRUE]
  <2>1. pc[t] \in Owning \ {"sync_parent"}
    BY <1>8 DEF SyncTree, Owning
  <2>2. d \in Directory /\ d.by = t /\ (d.entry <=> version[target[t]].entry)
    BY <1>o, <2>1 DEF Directory
  <2>3. OwnChange(t, d, "complete")
    BY <1>t, <1>8 DEF SyncTree, Goto, OwnChange, TypeOK
  <2> HIDE DEF d
  <2> QED
    BY <1>e, <2>1, <2>2, <2>3, OwnLasts
<1>9. CASE Complete(t)
  <2> DEFINE d == [version[target[t]] EXCEPT !.manifest = "renamed"]
  <2>1. pc[t] \in Owning \ {"sync_parent"}
    BY <1>9 DEF Complete, Owning
  <2>2. d \in Directory /\ d.by = t /\ (d.entry <=> version[target[t]].entry)
    BY <1>o, <2>1 DEF Directory
  <2>3. OwnChange(t, d, "sync_version")
    BY <1>t, <1>9 DEF Complete, Goto, OwnChange, TypeOK
  <2> HIDE DEF d
  <2> QED
    BY <1>e, <2>1, <2>2, <2>3, OwnLasts
<1>10. CASE SyncVersion(t)
  <2> DEFINE d == [version[target[t]] EXCEPT !.manifest = "present", !.synced = TRUE]
  <2>1. pc[t] \in Owning \ {"sync_parent"}
    BY <1>10 DEF SyncVersion, Owning
  <2>2. d \in Directory /\ d.by = t /\ (d.entry <=> version[target[t]].entry)
    BY <1>o, <2>1 DEF Directory
  <2>3. version' = [version EXCEPT ![target[t]] = d]
    BY <1>t, <1>o, <1>10, <2>1 DEF SyncVersion, TypeOK, Directory
  <2>4. OwnChange(t, d, "sync_versions")
    BY <1>t, <1>10, <2>3 DEF SyncVersion, Goto, OwnChange, TypeOK
  <2> HIDE DEF d
  <2> QED
    BY <1>e, <2>1, <2>2, <2>4, OwnLasts
<1>11. CASE UnlinkManifest(t)
  <2> DEFINE d == [version[target[t]] EXCEPT !.manifest =
                      CASE @ = "none" -> "none" [] OTHER -> "unlinked"]
  <2>1. pc[t] = "unlink"
    BY <1>11 DEF UnlinkManifest
  <2>2. /\ d \in Directory
        /\ d.by = t
        /\ d.entry <=> version[target[t]].entry
        /\ version[target[t]].manifest = "none" => d.manifest = "none"
    BY <1>o, <2>1 DEF Directory
  <2>3. version' = [version EXCEPT ![target[t]] = d]
    BY <1>t, <1>o, <1>11, <2>1 DEF UnlinkManifest, TypeOK, Directory
  <2>4. OwnChange(t, d, "sync_unlink")
    BY <1>t, <1>11, <2>3 DEF UnlinkManifest, Goto, OwnChange, TypeOK
  <2>5. "sync_unlink" \notin Owning
    BY DEF Owning
  <2> HIDE DEF d
  <2> QED
    BY <1>e, <2>1, <2>2, <2>4, <2>5, OwnLasts
<1>12. CASE SyncUnlink(t)
  <2> DEFINE d == [version[target[t]] EXCEPT !.manifest =
                      CASE @ = "none" -> "none" [] OTHER -> "removed", !.synced = TRUE]
  <2>1. pc[t] = "sync_unlink"
    BY <1>12 DEF SyncUnlink
  <2>2. /\ d \in Directory
        /\ d.by = t
        /\ d.entry <=> version[target[t]].entry
        /\ version[target[t]].manifest = "none" => d.manifest = "none"
    BY <1>o, <2>1 DEF Directory
  <2>3. version' = [version EXCEPT ![target[t]] = d]
    BY <1>t, <1>o, <1>12, <2>1 DEF SyncUnlink, TypeOK, Directory
  <2>4. OwnChange(t, d, "raised")
    BY <1>t, <1>12, <2>3 DEF SyncUnlink, Goto, OwnChange, TypeOK
  <2>5. "raised" \notin Owning
    BY DEF Owning
  <2> HIDE DEF d
  <2> QED
    BY <1>e, <2>1, <2>2, <2>4, <2>5, OwnLasts
<1> QED
  BY <1>1, <1>2, <1>3, <1>4, <1>5, <1>6, <1>7, <1>8, <1>9, <1>10, <1>11, <1>12 DEF TrainStep

\* A crash takes only what was not fsynced.
LEMMA CrashLasts == ASSUME IInv, HostCrash PROVE Lasts /\ Durable'
<1>1. PICK lost \in SUBSET {v \in Versions : version[v] # None /\ ~version[v].entry},
           left \in [Versions -> 0..Payloads], back \in SUBSET Versions :
        version' = [v \in Versions |-> IF version[v] = None \/ v \in lost THEN None
                                       ELSE Remains(v, left, back)]
  BY DEF HostCrash
<1>2. ASSUME NEW v \in Versions, version[v] # None
      PROVE  /\ Remains(v, left, back) # None
             /\ Remains(v, left, back).by = version[v].by
             /\ Remains(v, left, back).entry
  <2>1. version[v] \in Directory
    BY <1>2 DEF IInv, TypeOK
  <2>2. Remains(v, left, back).entry
    BY <2>1 DEF Remains, Directory
  <2> QED
    BY <2>1, <2>2, CrashedVersion, NoneIsNothing
<1>3. Lasts
  BY <1>1, <1>2 DEF Lasts
<1>4. \A t \in Trainers : pc'[t] \notin Owning
  BY DEF HostCrash, IInv, TypeOK, Over, Owning
<1>5. ASSUME NEW v \in Versions, version'[v] # None PROVE version'[v].entry
  BY <1>1, <1>2, <1>5
<1> QED
  BY <1>3, <1>4, <1>5 DEF Durable

\* Whatever happens, a version whose entry is fsynced stays.
LEMMA NextLasts == ASSUME IInv, Durable, [Next]_vars PROVE Lasts /\ Durable'
<1>1. CASE UNCHANGED vars
  BY <1>1, QuietLasts DEF vars, store
<1>2. ASSUME NEW r \in Readers, ReadStep(r) PROVE Lasts /\ Durable'
  BY <1>2, QuietLasts DEF ReadStep, BeginRead, VerifySource, EndRead, ReadFails
<1>3. CASE SourceNext /\ UNCHANGED store
  BY <1>3, QuietLasts DEF store
<1> QED
  BY <1>1, <1>2, <1>3, TrainerLasts, CrashLasts DEF Next

\* Every step keeps what reads rest on.
LEMMA ReadInvNext == IInv /\ ReadInv /\ [Next]_vars => ReadInv'
<1> SUFFICES ASSUME IInv, ReadInv, [Next]_vars PROVE ReadInv'
  OBVIOUS
<1>t. TypeOK
  BY DEF IInv
<1>d. Durable
  BY DEF ReadInv
<1>1. Lasts /\ Durable'
  BY <1>d, NextLasts
<1>z. UNCHANGED source \/ SourceNext
  <2>1. ASSUME NEW t \in Trainers, TrainStep(t) PROVE UNCHANGED source
    BY <2>1 DEF TrainStep, Train, FitCandidate, LockVersion, ReserveVersion, SyncReservation,
       WritePayload, SyncTree, Complete, SyncVersion, SyncVersions, VerifyVersion,
       TrainFails, UnlinkManifest, SyncUnlink, Die
  <2>2. ASSUME NEW r \in Readers, ReadStep(r) PROVE UNCHANGED source
    BY <2>2 DEF ReadStep, BeginRead, VerifySource, EndRead, ReadFails
  <2> QED
    BY <2>1, <2>2 DEF Next, vars, HostCrash
<1>2. /\ verdict' = "raised" => ~visible'
      /\ verdict = "raised" => verdict' = "raised"
  BY <1>z DEF source, SourceNext, OpenFor, Turn, Stand, Withdraw, ReadInv
<1> DEFINE Stays(x) == /\ version'[x.version] # None
                       /\ version'[x.version].by = x.by
                       /\ version'[x.version].entry
<1>s. /\ \A r \in Readers : reading[r] # None => Stays(reading[r].read)
      /\ \A x \in reads : Stays(x) /\ ~x.late
  <2>1. \A r \in Readers : reading[r] # None => reading[r].read.version \in Versions
    BY <1>t DEF TypeOK, Read
  <2>2. \A x \in reads : x.version \in Versions
    BY <1>t DEF TypeOK, Read
  <2> QED
    BY <1>1, <2>1, <2>2 DEF Lasts, ReadInv, Settled
<1> DEFINE Fine(r) == reading[r] # None =>
              /\ Settled(reading[r].read)
              /\ reading[r].read.late => verdict = "raised" /\ reading[r].step = "source"
<1>3. CASE UNCHANGED <<reading, reads>>
  <2>1. \A r \in Readers : Fine(r)'
    BY <1>2, <1>3, <1>s DEF ReadInv, Settled
  <2>2. \A x \in reads' : Stays(x) /\ ~x.late
    BY <1>3, <1>s
  <2> QED
    BY <1>1, <1>2, <2>1, <2>2 DEF ReadInv, Settled
<1>4. ASSUME NEW r \in Readers, ReadStep(r) PROVE ReadInv'
  <2>1. \A q \in Readers \ {r} : reading'[q] = reading[q]
    BY <1>t, <1>4 DEF ReadStep, BeginRead, VerifySource, EndRead, ReadFails, TypeOK
  <2>2. ASSUME NEW v \in Versions, BeginRead(r, v) PROVE Fine(r)' /\ UNCHANGED reads
    <3>1. /\ reading'[r].read.version = v
          /\ reading'[r].read.by = version[v].by
          /\ reading'[r].read.late => verdict = "raised"
          /\ reading'[r].step = "source"
          /\ version' = version /\ reads' = reads
      BY <1>t, <2>2 DEF BeginRead, TypeOK
    <3>2. version[v] # None /\ version[v].entry
      BY <1>d, <2>2 DEF BeginRead, Readable, Durable
    <3> QED
      BY <1>2, <3>1, <3>2 DEF Settled
  <2>3. ASSUME VerifySource(r) PROVE Fine(r)' /\ UNCHANGED reads
    <3>1. reading'[r].read = reading[r].read /\ UNCHANGED reads /\ reading[r] # None
      BY <1>t, <2>3 DEF VerifySource, TypeOK
    <3>2. ~reading[r].read.late
      BY <2>3, <3>1 DEF VerifySource, ReadInv
    <3> QED
      BY <1>s, <3>1, <3>2 DEF Settled
  <2>4. ASSUME EndRead(r) PROVE Fine(r)' /\ \A x \in reads' \ reads : Stays(x) /\ ~x.late
    <3>1. reading'[r] = None /\ reads' = reads \cup {reading[r].read} /\ reading[r] # None
      BY <1>t, <2>4 DEF EndRead, TypeOK
    <3>2. ~reading[r].read.late
      BY <2>4, <3>1 DEF EndRead, ReadInv
    <3> QED
      BY <1>s, <3>1, <3>2
  <2>5. ASSUME ReadFails(r) PROVE Fine(r)' /\ UNCHANGED reads
    BY <1>t, <2>5 DEF ReadFails, TypeOK
  <2>6. Fine(r)' /\ \A x \in reads' \ reads : Stays(x) /\ ~x.late
    BY <1>4, <2>2, <2>3, <2>4, <2>5 DEF ReadStep
  <2>7. ASSUME NEW q \in Readers \ {r} PROVE Fine(q)'
    <3>1. reading[q] # None => Stays(reading[q].read)
      BY <1>s
    <3> QED
      BY <1>2, <2>1, <3>1 DEF ReadInv, Settled
  <2>8. \A q \in Readers : Fine(q)'
    BY <2>6, <2>7
  <2> QED
    BY <1>1, <1>2, <1>s, <2>6, <2>8 DEF ReadInv, Settled
<1>5. ASSUME NEW t \in Trainers, TrainStep(t) PROVE UNCHANGED <<reading, reads>>
  BY <1>5 DEF TrainStep, Train, FitCandidate, LockVersion, ReserveVersion, SyncReservation,
     WritePayload, SyncTree, Complete, SyncVersion, SyncVersions, VerifyVersion,
     TrainFails, UnlinkManifest, SyncUnlink, Die
<1>6. CASE HostCrash
  <2>1. reads' = reads /\ \A r \in Readers : reading'[r] = None
    BY <1>6 DEF HostCrash
  <2> QED
    BY <1>1, <1>2, <1>s, <2>1 DEF ReadInv, Settled
<1> QED
  BY <1>3, <1>4, <1>5, <1>6 DEF Next, vars, store

\* No sequence of failures, deaths, crashes and invalidations makes two reads of
\* a version return different models, or one that begins after its evaluation was
\* invalidated return.
THEOREM ReadsAgree == Spec => []ReadsStand
<1>1. Init => ReadInv
  BY NoneIsNothing DEF Init, SourceInit, ReadInv, Durable, Owning
<1>2. IInv /\ ReadInv => ReadsStand
  BY DEF ReadInv, ReadsStand, Settled
<1> QED
  BY <1>1, <1>2, VersionInvariant, ReadInvNext, PTL DEF Spec
-----------------------------------------------------------------------------
(* The promise of WriteOnce. *)

\* A version no crash changes, and that is its trainer's.
Finished(d, t) ==
    /\ d # None /\ d.by = t /\ d.entry
    /\ d.manifest = "present" /\ d.payloads = Payloads /\ d.synced

\* From the last fsync of its directory on, a trainer's version is finished, and
\* once train returned it stays so.
FinishInv(t) ==
    /\ pc[t] \in {"sync_tree", "complete", "sync_version"} =>
          version[target[t]].payloads = Payloads
    /\ pc[t] \in {"sync_versions", "verify", "returned"} => Finished(version[target[t]], t)

\* A version of another trainer changes in nothing but its entry.
LEMMA OthersSame ==
    ASSUME IInv, NEW t \in Trainers, TrainStep(t),
           NEW v \in Versions, version[v] # None, version[v].by # t
    PROVE  version'[v] \in {version[v], [version[v] EXCEPT !.entry = TRUE]}
<1>t. TypeOK
  BY DEF IInv
<1>1. CASE UNCHANGED version
  BY <1>1
<1>2. CASE version' = RootSynced
  BY <1>2 DEF RootSynced
<1>3. ASSUME NEW d, version' = [version EXCEPT ![target[t]] = d], target[t] # v
      PROVE  version'[v] = version[v]
  BY <1>t, <1>3 DEF TypeOK
<1>4. pc[t] \in Owning \cup {"unlink", "sync_unlink"} => target[t] # v
  BY OwnVersion
<1>5. CASE ReserveVersion(t)
  BY <1>3, <1>5 DEF ReserveVersion
<1>6. CASE TrainFails(t)
  BY <1>1, <1>3, <1>6 DEF TrainFails
<1>7. CASE WritePayload(t) \/ SyncTree(t) \/ Complete(t) \/ SyncVersion(t)
           \/ UnlinkManifest(t) \/ SyncUnlink(t)
  <2>1. target[t] # v
    BY <1>4, <1>7 DEF WritePayload, SyncTree, Complete, SyncVersion, UnlinkManifest,
       SyncUnlink, Owning
  <2> QED
    BY <1>t, <1>7, <2>1 DEF TypeOK, WritePayload, SyncTree, Complete, SyncVersion,
       UnlinkManifest, SyncUnlink
<1> QED
  BY <1>1, <1>2, <1>5, <1>6, <1>7
     DEF TrainStep, Train, FitCandidate, LockVersion, SyncReservation, SyncVersions,
         VerifyVersion, Die

\* A trainer that is over stays over, and a step leaves the others where they are.
LEMMA OthersWait ==
    ASSUME IInv, NEW t \in Trainers, TrainStep(t)
    PROVE  /\ \A u \in Trainers \ {t} : pc'[u] = pc[u] /\ target'[u] = target[u]
           /\ pc[t] \notin Over
           /\ pc[t] # "new" => target'[t] = target[t]
<1>t. TypeOK
  BY DEF IInv
<1> USE DEF TrainStep, Train, FitCandidate, LockVersion, ReserveVersion, SyncReservation,
       WritePayload, SyncTree, Complete, SyncVersion, SyncVersions, VerifyVersion, TrainFails,
       UnlinkManifest, SyncUnlink, Die, Goto
<1>1. \A u \in Trainers \ {t} : pc'[u] = pc[u]
  BY <1>t DEF TypeOK
<1>2. \A u \in Trainers \ {t} : target'[u] = target[u]
  BY <1>t DEF TypeOK
<1>3. pc[t] \notin Over
  BY DEF Over, Owning
<1>4. pc[t] # "new" => target'[t] = target[t]
  OBVIOUS
<1> QED
  BY <1>1, <1>2, <1>3, <1>4

\* So the others' versions stay finished.
LEMMA OthersFinish ==
    ASSUME IInv, NEW t \in Trainers, TrainStep(t), NEW u \in Trainers, u # t, FinishInv(u)
    PROVE  FinishInv(u)'
<1>1. pc'[u] = pc[u] /\ target'[u] = target[u]
  BY OthersWait
<1>2. ASSUME NEW v \in Versions, version[v] # None, version[v].by = u
      PROVE  /\ version'[v].payloads = version[v].payloads
             /\ Finished(version[v], u) => Finished(version'[v], u)
  <2>1. version[v] \in Directory
    BY <1>2 DEF IInv, TypeOK
  <2>2. version'[v] \in {version[v], [version[v] EXCEPT !.entry = TRUE]}
    BY <1>2, OthersSame
  <2>3. [version[v] EXCEPT !.entry = TRUE] \in Directory
    BY <2>1 DEF Directory
  <2> QED
    BY <2>1, <2>2, <2>3, NoneIsNothing DEF Directory, Finished
<1>3. pc[u] \in {"sync_tree", "complete", "sync_version"} =>
        target[u] \in Versions /\ version[target[u]] # None /\ version[target[u]].by = u
  BY OwnVersion DEF Owning
<1>4. pc[u] \in {"sync_versions", "verify", "returned"} => target[u] \in Versions
  BY DEF IInv, TrainerInv
<1> QED
  BY <1>1, <1>2, <1>3, <1>4 DEF FinishInv, Finished

\* A trainer finishes its version itself.
LEMMA OwnFinish ==
    ASSUME IInv, Durable, NEW t \in Trainers, TrainStep(t), FinishInv(t)
    PROVE  FinishInv(t)'
<1>t. TypeOK
  BY DEF IInv
<1>o. pc[t] \in Owning =>
        /\ target[t] \in Versions
        /\ version[target[t]] \in Directory
        /\ version[target[t]] # None
        /\ version[target[t]].by = t
  BY OwnVersion
<1>p. \A phase : Goto(t, phase) => pc'[t] = phase
  BY <1>t DEF Goto, TypeOK
<1>1. CASE pc'[t] \notin {"sync_tree", "complete", "sync_version", "sync_versions", "verify", "returned"}
  BY <1>1 DEF FinishInv
<1>2. CASE WritePayload(t)
  <2> DEFINE phase == IF version[target[t]].payloads + 1 = Payloads THEN "sync_tree" ELSE "payload"
  <2>1. pc'[t] = phase /\ target' = target
    BY <1>p, <1>2 DEF WritePayload
  <2>2. version'[target[t]].payloads = version[target[t]].payloads + 1
    BY <1>t, <1>o, <1>2 DEF WritePayload, Owning, TypeOK, Directory
  <2> QED
    BY <2>1, <2>2 DEF FinishInv
<1>3. CASE SyncTree(t)
  <2>1. pc[t] = "sync_tree" /\ pc'[t] = "complete" /\ target' = target
    BY <1>p, <1>3 DEF SyncTree
  <2>2. version'[target[t]].payloads = version[target[t]].payloads
    BY <1>t, <1>o, <1>3 DEF SyncTree, Owning, TypeOK, Directory
  <2> QED
    BY <2>1, <2>2 DEF FinishInv
<1>4. CASE Complete(t)
  <2>1. pc[t] = "complete" /\ pc'[t] = "sync_version" /\ target' = target
    BY <1>p, <1>4 DEF Complete
  <2>2. version'[target[t]].payloads = version[target[t]].payloads
    BY <1>t, <1>o, <1>4 DEF Complete, Owning, TypeOK, Directory
  <2> QED
    BY <2>1, <2>2 DEF FinishInv
<1>5. CASE SyncVersion(t)
  <2> DEFINE d == [version[target[t]] EXCEPT !.manifest = "present", !.synced = TRUE]
  <2>1. pc[t] = "sync_version" /\ pc'[t] = "sync_versions" /\ target' = target
    BY <1>p, <1>5 DEF SyncVersion
  <2>2. /\ target[t] \in Versions /\ version[target[t]] \in Directory
        /\ version[target[t]].by = t /\ version[target[t]].entry
        /\ version[target[t]].payloads = Payloads
    BY <1>o, <2>1 DEF Owning, Durable, FinishInv
  <2>3. version'[target[t]] = d
    BY <1>t, <2>2, <1>5 DEF SyncVersion, TypeOK, Directory
  <2>4. d \in Directory
    BY <2>2 DEF Directory
  <2>5. d.by = t /\ d.entry /\ d.payloads = Payloads /\ d.manifest = "present" /\ d.synced
    BY <2>2 DEF Directory
  <2> HIDE DEF d
  <2> QED
    BY <2>1, <2>3, <2>4, <2>5, NoneIsNothing DEF FinishInv, Finished
<1>6. CASE SyncVersions(t)
  <2> DEFINE d == [version[target[t]] EXCEPT !.entry = TRUE]
  <2>1. pc[t] = "sync_versions" /\ pc'[t] = "verify" /\ target' = target
    BY <1>p, <1>6 DEF SyncVersions
  <2>2. /\ target[t] \in Versions /\ version[target[t]] \in Directory
        /\ Finished(version[target[t]], t)
    BY <1>o, <2>1 DEF Owning, FinishInv
  <2>3. version'[target[t]] = d
    BY <2>2, <1>6 DEF SyncVersions, RootSynced, Finished
  <2>4. d \in Directory
    BY <2>2 DEF Directory
  <2>5. Finished(d, t)
    BY <2>2, <2>4, NoneIsNothing DEF Finished, Directory
  <2> HIDE DEF d
  <2> QED
    BY <2>1, <2>3, <2>5 DEF FinishInv
<1>7. CASE VerifyVersion(t)
  <2>1. pc[t] = "verify" /\ pc'[t] = "returned" /\ UNCHANGED <<target, version>>
    BY <1>p, <1>7 DEF VerifyVersion
  <2> QED
    BY <2>1 DEF FinishInv
<1>8. TrainStep(t) /\ ~(WritePayload(t) \/ SyncTree(t) \/ Complete(t) \/ SyncVersion(t)
                         \/ SyncVersions(t) \/ VerifyVersion(t)) =>
        pc'[t] \notin {"sync_tree", "complete", "sync_version", "sync_versions", "verify", "returned"}
  BY <1>p DEF TrainStep, Train, FitCandidate, LockVersion, ReserveVersion, SyncReservation,
       TrainFails, UnlinkManifest, SyncUnlink, Die
<1> QED
  BY <1>1, <1>2, <1>3, <1>4, <1>5, <1>6, <1>7, <1>8

\* And a crash leaves what is finished as it is.
LEMMA CrashFinish ==
    ASSUME IInv, HostCrash, NEW t \in Trainers, FinishInv(t)
    PROVE  FinishInv(t)'
<1>t. TypeOK
  BY DEF IInv
<1>1. PICK lost \in SUBSET {v \in Versions : version[v] # None /\ ~version[v].entry},
           left \in [Versions -> 0..Payloads], back \in SUBSET Versions :
        version' = [v \in Versions |-> IF version[v] = None \/ v \in lost THEN None
                                       ELSE Remains(v, left, back)]
  BY DEF HostCrash
<1>2. target' = target /\ pc'[t] = IF pc[t] \in Over \cup {"new"} THEN pc[t] ELSE "dead"
  BY DEF HostCrash
<1>3. ASSUME pc[t] = "returned" PROVE Finished(version'[target[t]], t)
  <2> DEFINE v == target[t]
  <2>1. v \in Versions /\ Finished(version[v], t) /\ version[v] \in Directory
    BY <1>t, <1>3 DEF IInv, TrainerInv, FinishInv, Finished, TypeOK
  <2>2. version'[v] = Remains(v, left, back)
    BY <1>1, <2>1 DEF Finished
  <2>3. Remains(v, left, back) \in Directory
    BY <2>1, CrashedVersion
  <2>4. Finished(Remains(v, left, back), t)
    BY <2>1, <2>3, NoneIsNothing DEF Remains, Finished, Directory
  <2> QED
    BY <2>2, <2>4
<1>4. pc'[t] \in Over \cup {"new"} /\ (pc'[t] = "returned" => pc[t] = "returned")
  BY <1>2 DEF Over
<1> QED
  BY <1>2, <1>3, <1>4 DEF FinishInv, Over

FinishesInv == \A t \in Trainers : FinishInv(t)

LEMMA FinishesNext == IInv /\ Durable /\ FinishesInv /\ [Next]_vars => FinishesInv'
<1> SUFFICES ASSUME IInv, Durable, FinishesInv, [Next]_vars, NEW u \in Trainers
             PROVE  FinishInv(u)'
  BY DEF FinishesInv
<1>0. FinishInv(u)
  BY DEF FinishesInv
<1>1. ASSUME NEW t \in Trainers, TrainStep(t) PROVE FinishInv(u)'
  BY <1>0, <1>1, OwnFinish, OthersFinish
<1>2. CASE UNCHANGED <<version, pc, target>>
  BY <1>0, <1>2 DEF FinishInv
<1>3. CASE HostCrash
  BY <1>0, <1>3, CrashFinish
<1> QED
  BY <1>1, <1>2, <1>3
     DEF Next, vars, store, ReadStep, BeginRead, VerifySource, EndRead, ReadFails

-----------------------------------------------------------------------------
\* What a name shows a reader, and whose train call returned for it.
Shows(v) == IF Readable(v) THEN version[v].by ELSE None

Told(v) ==
    IF \E t \in Trainers : pc[t] = "returned" /\ target[t] = v
    THEN CHOOSE t \in Trainers : pc[t] = "returned" /\ target[t] = v
    ELSE None

\* All that the promise needs of a state: who was told is shown, and is alone.
PromiseInv ==
    /\ IInv /\ ReadInv /\ FinishesInv
    /\ \A t \in Trainers : pc[t] = "returned" =>
          target[t] \in Versions /\ Shows(target[t]) = t /\ Told(target[t]) = t

LEMMA ReturnedShown ==
    ASSUME IInv, FinishesInv, NEW t \in Trainers, pc[t] = "returned"
    PROVE  target[t] \in Versions /\ Shows(target[t]) = t /\ Told(target[t]) = t
<1>1. /\ target[t] \in Versions
      /\ \A u \in Trainers : pc[u] = "returned" => Finished(version[target[u]], u)
  BY DEF IInv, TrainerInv, FinishesInv, FinishInv
<1>2. Shows(target[t]) = t
  BY <1>1 DEF Shows, Readable, Finished
<1>3. \A u \in Trainers : pc[u] = "returned" /\ target[u] = target[t] => u = t
  BY <1>1 DEF Finished
<1> QED
  BY <1>1, <1>2, <1>3 DEF Told

LEMMA PromiseInvariant == Spec => []PromiseInv
<1>1. Init => ReadInv
  BY NoneIsNothing DEF Init, SourceInit, ReadInv, Durable, Owning
<1>2. Init => FinishesInv
  BY DEF Init, FinishesInv, FinishInv
<1>3. ReadInv => Durable
  BY DEF ReadInv
<1>4. IInv /\ ReadInv /\ FinishesInv => PromiseInv
  BY ReturnedShown DEF PromiseInv
<1> QED
  BY <1>1, <1>2, <1>3, <1>4, VersionInvariant, ReadInvNext, FinishesNext, PTL DEF Spec

\* Whoever returned is still told.
LEMMA ReturnedStays ==
    ASSUME IInv, [Next]_vars, NEW t \in Trainers, pc[t] = "returned"
    PROVE  pc'[t] = "returned" /\ target'[t] = target[t]
<1>1. ASSUME NEW u \in Trainers, TrainStep(u) PROVE pc'[t] = "returned" /\ target'[t] = target[t]
  BY <1>1, OthersWait DEF Over
<1>2. CASE HostCrash
  BY <1>2 DEF HostCrash, Over
<1> QED
  BY <1>1, <1>2 DEF Next, vars, store, ReadStep, BeginRead, VerifySource, EndRead, ReadFails

\* And only the verification at the end of train tells anybody.
LEMMA ToldOnly ==
    ASSUME IInv, [Next]_vars, NEW t \in Trainers, pc'[t] = "returned", pc[t] # "returned"
    PROVE  VerifyVersion(t)
<1>t. TypeOK
  BY DEF IInv
<1>1. ASSUME NEW u \in Trainers, TrainStep(u) PROVE VerifyVersion(t)
  <2>1. u = t
    BY <1>1, OthersWait
  <2>2. \A phase : Goto(t, phase) => pc'[t] = phase
    BY <1>t DEF Goto, TypeOK
  <2> QED
    BY <1>1, <2>1, <2>2 DEF TrainStep, Train, FitCandidate, LockVersion, ReserveVersion,
       SyncReservation, WritePayload, SyncTree, Complete, SyncVersion, SyncVersions,
       TrainFails, UnlinkManifest, SyncUnlink, Die
<1>2. CASE HostCrash
  BY <1>2 DEF HostCrash, Over
<1> QED
  BY <1>1, <1>2 DEF Next, vars, store, ReadStep, BeginRead, VerifySource, EndRead, ReadFails

LEMMA ToldStays ==
    ASSUME PromiseInv, PromiseInv', [Next]_vars, NEW v \in Versions,
           \A t \in Trainers : pc'[t] = "returned" /\ target'[t] = v => pc[t] = "returned"
    PROVE  Told(v)' = Told(v)
<1>i. IInv
  BY DEF PromiseInv
<1>1. ASSUME NEW t \in Trainers, pc[t] = "returned", target[t] = v PROVE Told(v)' = Told(v)
  <2>1. pc'[t] = "returned" /\ target'[t] = v
    BY <1>i, <1>1, ReturnedStays
  <2>2. Told(v) = t
    BY <1>1 DEF PromiseInv
  <2>3. Told(v)' = t
    BY <2>1 DEF PromiseInv
  <2> QED
    BY <2>2, <2>3
<1>2. CASE ~\E t \in Trainers : pc[t] = "returned" /\ target[t] = v
  <2>1. ~\E t \in Trainers : pc'[t] = "returned" /\ target'[t] = v
    BY <1>i, <1>2, ReturnedStays
  <2> QED
    BY <1>2, <2>1 DEF Told
<1> QED
  BY <1>1, <1>2

\* What a name shows changes from or to nothing, and only while nobody was told.
LEMMA ShownStays ==
    ASSUME PromiseInv, PromiseInv', [Next]_vars, NEW v \in Versions, Shows(v)' # Shows(v)
    PROVE  Told(v) = None /\ None \in {Shows(v), Shows(v)'}
<1>i. IInv /\ Durable
  BY DEF PromiseInv, ReadInv
<1>1. Lasts
  BY <1>i, NextLasts
<1>2. None \in {Shows(v), Shows(v)'}
  <2>1. CASE Readable(v)
    <3>1. version[v] # None /\ version[v].entry
      BY <1>i, <2>1 DEF Readable, Durable
    <3>2. version'[v].by = version[v].by
      BY <1>1, <3>1 DEF Lasts
    <3> QED
      BY <2>1, <3>2 DEF Shows
  <2>2. CASE ~Readable(v)
    BY <2>2 DEF Shows
  <2> QED
    BY <2>1, <2>2
<1>3. Told(v) = None
  <2> SUFFICES ASSUME Told(v) # None PROVE FALSE
    OBVIOUS
  <2>1. PICK t \in Trainers : pc[t] = "returned" /\ target[t] = v
    BY DEF Told
  <2>2. pc'[t] = "returned" /\ target'[t] = v
    BY <1>i, <2>1, ReturnedStays
  <2>3. Shows(v) = t
    BY <2>1 DEF PromiseInv
  <2>4. Shows(v)' = t
    BY <2>2 DEF PromiseInv
  <2> QED
    BY <2>3, <2>4
<1> QED
  BY <1>2, <1>3

\* A return is a step Return of the promise; every other step settles what nobody
\* was told of, or changes nothing.
LEMMA PromiseStep ==
    ASSUME PromiseInv, PromiseInv', [Next]_vars
    PROVE  [Store!Next]_(Store!vars)
<1> DEFINE shown == [v \in Versions |-> Shows(v)]
           told == [v \in Versions |-> Told(v)]
<1>v. /\ Store!vars = <<shown, told>>
      /\ (Store!vars)' = <<shown', told'>>
  BY DEF Store!vars, Shows, Told
<1>i. IInv
  BY DEF PromiseInv
<1>r. \A n : Store!Return(n) <=>
        shown[n] # None /\ told' = [told EXCEPT ![n] = shown[n]] /\ shown' = shown
  BY DEF Store!Return, Shows, Told
<1>s. Store!Settle <=>
        /\ shown' \in [Versions -> Trainers \cup {None}]
        /\ \A n \in Versions : shown'[n] # shown[n] =>
              told[n] = None /\ None \in {shown[n], shown'[n]}
        /\ told' = told
  BY DEF Store!Settle, Shows, Told
<1>1. ASSUME NEW t \in Trainers, VerifyVersion(t), pc'[t] = "returned", pc[t] # "returned"
      PROVE  Store!Next
  <2>0. PICK n \in Versions : n = target[t]
    BY <1>1 DEF PromiseInv, IInv, TrainerInv, VerifyVersion
  <2>1. version' = version /\ target' = target /\ \A u \in Trainers \ {t} : pc'[u] = pc[u]
    BY <1>1, <1>i DEF VerifyVersion, Goto, IInv, TypeOK
  <2>2. Shows(n)' = t /\ Told(n)' = t
    BY <1>1, <2>0, <2>1 DEF PromiseInv
  <2>3. \A v : Shows(v)' = Shows(v)
    BY <2>1 DEF Shows, Readable
  <2>4. \A v \in Versions : v # n => Told(v)' = Told(v)
    <3> SUFFICES ASSUME NEW v \in Versions, v # n PROVE Told(v)' = Told(v)
      OBVIOUS
    <3>1. \A u \in Trainers : pc'[u] = "returned" /\ target'[u] = v => pc[u] = "returned"
      BY <2>0, <2>1
    <3> QED
      BY <3>1, ToldStays
  <2>5. shown[n] # None
    BY <2>2, <2>3, ProductionAssumption
  <2>6. shown' = shown
    BY <2>3
  <2>7. told' = [told EXCEPT ![n] = shown[n]]
    BY <2>2, <2>3, <2>4
  <2>8. Store!Return(n)
    <3> HIDE DEF shown, told
    <3> QED
      BY <1>r, <2>5, <2>6, <2>7
  <2> QED
    BY <2>2, <2>8 DEF Store!Next
<1>2. ASSUME \A t \in Trainers : pc'[t] = "returned" => pc[t] = "returned"
      PROVE  Store!Next
  <2>1. \A v \in Versions : Told(v)' = Told(v)
    BY <1>2, ToldStays
  <2>2. \A v \in Versions : Shows(v)' # Shows(v) =>
          Told(v) = None /\ None \in {Shows(v), Shows(v)'}
    BY ShownStays
  <2>3. \A v \in Versions : Shows(v)' \in Trainers \cup {None}
    BY DEF PromiseInv, IInv, TypeOK, Shows, Readable, Directory
  <2>4. Store!Settle
    BY <1>s, <2>1, <2>2, <2>3
  <2> QED
    BY <2>4 DEF Store!Next
<1> QED
  BY <1>i, <1>1, <1>2, ToldOnly

\* The versions implement the write-once store: a version that train returned for
\* is shown for ever, whatever fails, dies or crashes, and no name passes from one
\* model to another without showing nothing between.
THEOREM VersionsWriteOnce == Spec => ImplementsWriteOnce
<1>1. Init => Store!Init
  BY DEF Init, Store!Init, Readable
<1>2. PromiseInv /\ PromiseInv' /\ [Next]_vars => [Store!Next]_(Store!vars)
  BY PromiseStep
<1> QED
  BY <1>1, <1>2, PromiseInvariant, PTL DEF Spec, ImplementsWriteOnce, Store!Spec
=============================================================================
