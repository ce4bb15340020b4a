---------------------------- MODULE Phase1_proofs ----------------------------
(***************************************************************************)
(* Proofs about Phase 1: a production version is seen whole or not at all  *)
(* (ProductionPublication), a bundle that was prepared alone is loaded as  *)
(* it was prepared (PreparedData), and the holdout of a run is opened once *)
(* and promoted on evidence (HoldoutRun), for any number of processes,     *)
(* files and crashes.                                                      *)
(***************************************************************************)
EXTENDS MC_Phase1, TLAPS

-----------------------------------------------------------------------------
(* ProductionPublication. *)

\* What a process has done when it comes to a phase: the rename is of a synced
\* and complete directory, and who returns has published and synced the name.
TrainerInv(p) ==
    /\ trainer[p] # "idle" => bundle[p] \in Corrected
    /\ trainer[p] \in Production!Locked \cup {"lock"} => name[p] \in Versions
    /\ trainer[p] \in {"idle", "train", "lock", "check"} => staging[p] = Production!NoStaging
    /\ trainer[p] = "stage" => staging[p].files < Artifacts
    /\ trainer[p] \in {"recheck", "complete", "sync", "publish"} => staging[p].files = Artifacts
    /\ trainer[p] \in {"sync", "publish"} => staging[p].complete
    /\ trainer[p] = "publish" => staging[p].synced
    /\ trainer[p] \in {"confirm", "return"} => version[name[p]] # None
    /\ trainer[p] = "return" => name[p] \in durable

\* A published directory was synced, so that no crash can take a file of it.
VersionInv(v) ==
    version[v] # None =>
        /\ version[v].content.files = Artifacts
        /\ version[v].content.complete
        /\ version[v].content.synced

\* What a publisher was told is what there is, under a name that is synced.
ToldInv(v) == told[v] # None => told[v] = version[v] /\ v \in durable

ProductionInv ==
    /\ Production!TypeOK
    /\ \A p \in Trainers : TrainerInv(p)
    /\ \A v \in Versions : VersionInv(v) /\ ToldInv(v)

\* Versions that are there stay, and synced names stay synced.
VersionsKept ==
    /\ \A v \in Versions : version[v] # None => version'[v] = version[v]
    /\ durable \subseteq durable'

\* What no step of p changes for another process.
OtherTrainersSame(p) ==
    \A q \in Trainers \ {p} :
        /\ trainer'[q] = trainer[q] /\ bundle'[q] = bundle[q]
        /\ name'[q] = name[q] /\ staging'[q] = staging[q]

-----------------------------------------------------------------------------
LEMMA ProductionInit ==
    ASSUME Production!PublicationAssumption
    PROVE  Production!Init => ProductionInv
BY DEF Production!PublicationAssumption, Production!Init, ProductionInv,
       Production!TypeOK, TrainerInv, VersionInv, ToldInv, Production!NoStaging,
       Production!Staging, Production!Phases, Production!Locked

\* A step of one process that keeps the versions leaves the others' invariants.
LEMMA OtherTrainers ==
    ASSUME ProductionInv, NEW p \in Trainers, OtherTrainersSame(p), VersionsKept, TrainerInv(p)'
    PROVE  \A q \in Trainers : TrainerInv(q)'
<1> SUFFICES ASSUME NEW q \in Trainers, q # p PROVE TrainerInv(q)'
  OBVIOUS
<1>1. TrainerInv(q)
  BY DEF ProductionInv
<1>2. /\ trainer'[q] = trainer[q] /\ bundle'[q] = bundle[q]
      /\ name'[q] = name[q] /\ staging'[q] = staging[q]
  BY DEF OtherTrainersSame
<1>3. trainer[q] \in {"confirm", "return"} => version'[name[q]] = version[name[q]]
  BY <1>1 DEF TrainerInv, VersionsKept, Production!Locked
<1> QED
  BY <1>1, <1>2, <1>3 DEF TrainerInv, VersionsKept

\* Whoever leaves has nothing.
LEMMA TrainerLeaves ==
    ASSUME Production!PublicationAssumption, ProductionInv, NEW p \in Trainers,
           Production!Leave(p), UNCHANGED <<prepared, version, durable, told>>,
           locks' \subseteq Versions
    PROVE  ProductionInv'
<1>1. Production!TypeOK'
  BY DEF Production!PublicationAssumption, ProductionInv, Production!TypeOK,
         Production!Leave, Production!Goto, Production!NoStaging, Production!Staging,
         Production!Phases
<1>2. OtherTrainersSame(p) /\ VersionsKept
  BY DEF OtherTrainersSame, VersionsKept, Production!Leave, Production!Goto,
         ProductionInv, Production!TypeOK
<1>3. TrainerInv(p)'
  BY DEF TrainerInv, Production!Leave, Production!Goto, ProductionInv, Production!TypeOK,
         Production!Locked
<1>4. \A v \in Versions : VersionInv(v)' /\ ToldInv(v)'
  BY DEF VersionInv, ToldInv, ProductionInv
<1> QED
  BY <1>1, <1>2, <1>3, <1>4, OtherTrainers DEF ProductionInv

\* The steps that change neither a version nor what was told.
LEMMA StagingSteps ==
    ASSUME Production!PublicationAssumption, ProductionInv, NEW p \in Trainers,
           \/ Production!Load(p) \/ (\E v \in Versions : Production!Train(p, v))
           \/ Production!Lock(p) \/ Production!CheckVersion(p)
           \/ Production!Stage(p) \/ Production!Recheck(p)
           \/ Production!CompleteStaging(p) \/ Production!SyncStaging(p)
    PROVE  ProductionInv' /\ UNCHANGED <<version, told>>
<1> USE DEF Production!Goto, Production!disk
<1>0. TrainerInv(p) /\ Production!TypeOK /\ Artifacts \in Nat \ {0}
  BY DEF ProductionInv, Production!PublicationAssumption
<1>1. CASE Production!Load(p)
  <2>1. Production!TypeOK'
    BY <1>0, <1>1 DEF Production!Load, Production!TypeOK, Production!Phases
  <2>2. OtherTrainersSame(p) /\ VersionsKept
    BY <1>0, <1>1 DEF Production!Load, OtherTrainersSame, VersionsKept, Production!TypeOK
  <2>3. TrainerInv(p)'
    BY <1>0, <1>1 DEF Production!Load, TrainerInv, Production!TypeOK, Production!Locked
  <2> QED
    BY <1>1, <2>1, <2>2, <2>3, OtherTrainers
       DEF Production!Load, ProductionInv, VersionInv, ToldInv
<1>2. CASE \E v \in Versions : Production!Train(p, v)
  <2>1. Production!TypeOK'
    BY <1>0, <1>2 DEF Production!Train, Production!TypeOK, Production!Phases
  <2>2. OtherTrainersSame(p) /\ VersionsKept
    BY <1>0, <1>2 DEF Production!Train, OtherTrainersSame, VersionsKept, Production!TypeOK
  <2>3. TrainerInv(p)'
    BY <1>0, <1>2 DEF Production!Train, TrainerInv, Production!TypeOK, Production!Locked
  <2> QED
    BY <1>2, <2>1, <2>2, <2>3, OtherTrainers
       DEF Production!Train, ProductionInv, VersionInv, ToldInv
<1>3. CASE Production!Lock(p)
  <2>1. Production!TypeOK'
    BY <1>0, <1>3
       DEF Production!Lock, Production!TypeOK, Production!Phases, Production!Locked,
           TrainerInv
  <2>2. OtherTrainersSame(p) /\ VersionsKept
    BY <1>0, <1>3 DEF Production!Lock, OtherTrainersSame, VersionsKept, Production!TypeOK
  <2>3. TrainerInv(p)'
    BY <1>0, <1>3 DEF Production!Lock, TrainerInv, Production!TypeOK, Production!Locked
  <2> QED
    BY <1>3, <2>1, <2>2, <2>3, OtherTrainers
       DEF Production!Lock, ProductionInv, VersionInv, ToldInv
<1>4. CASE Production!CheckVersion(p)
  <2>1. Production!TypeOK'
    BY <1>0, <1>4
       DEF Production!CheckVersion, Production!TypeOK, Production!Phases,
           Production!Locked
  <2>2. OtherTrainersSame(p) /\ VersionsKept
    BY <1>0, <1>4
       DEF Production!CheckVersion, OtherTrainersSame, VersionsKept, Production!TypeOK
  <2>3. TrainerInv(p)'
    BY <1>0, <1>4
       DEF Production!CheckVersion, TrainerInv, Production!TypeOK, Production!Locked,
           Production!NoStaging
  <2> QED
    BY <1>4, <2>1, <2>2, <2>3, OtherTrainers
       DEF Production!CheckVersion, ProductionInv, VersionInv, ToldInv
<1>5. CASE Production!Stage(p)
  <2>1. Production!TypeOK'
    BY <1>0, <1>5
       DEF Production!Stage, Production!TypeOK, Production!Phases, Production!Locked,
           Production!Staging, TrainerInv
  <2>2. OtherTrainersSame(p) /\ VersionsKept
    BY <1>0, <1>5 DEF Production!Stage, OtherTrainersSame, VersionsKept, Production!TypeOK
  <2>3. TrainerInv(p)'
    BY <1>0, <1>5
       DEF Production!Stage, TrainerInv, Production!TypeOK, Production!Locked,
           Production!Staging
  <2> QED
    BY <1>5, <2>1, <2>2, <2>3, OtherTrainers
       DEF Production!Stage, ProductionInv, VersionInv, ToldInv
<1>6. CASE Production!Recheck(p)
  <2>1. Production!TypeOK'
    BY <1>0, <1>6
       DEF Production!Recheck, Production!TypeOK, Production!Phases, Production!Locked
  <2>2. OtherTrainersSame(p) /\ VersionsKept
    BY <1>0, <1>6
       DEF Production!Recheck, OtherTrainersSame, VersionsKept, Production!TypeOK
  <2>3. TrainerInv(p)'
    BY <1>0, <1>6 DEF Production!Recheck, TrainerInv, Production!TypeOK, Production!Locked
  <2> QED
    BY <1>6, <2>1, <2>2, <2>3, OtherTrainers
       DEF Production!Recheck, ProductionInv, VersionInv, ToldInv
<1>7. CASE Production!CompleteStaging(p)
  <2>1. Production!TypeOK'
    BY <1>0, <1>7
       DEF Production!CompleteStaging, Production!TypeOK, Production!Phases,
           Production!Locked, Production!Staging
  <2>2. OtherTrainersSame(p) /\ VersionsKept
    BY <1>0, <1>7
       DEF Production!CompleteStaging, OtherTrainersSame, VersionsKept,
           Production!TypeOK
  <2>3. TrainerInv(p)'
    BY <1>0, <1>7
       DEF Production!CompleteStaging, TrainerInv, Production!TypeOK, Production!Locked,
           Production!Staging
  <2> QED
    BY <1>7, <2>1, <2>2, <2>3, OtherTrainers
       DEF Production!CompleteStaging, ProductionInv, VersionInv, ToldInv
<1>8. CASE Production!SyncStaging(p)
  <2>1. Production!TypeOK'
    BY <1>0, <1>8
       DEF Production!SyncStaging, Production!TypeOK, Production!Phases,
           Production!Locked, Production!Staging
  <2>2. OtherTrainersSame(p) /\ VersionsKept
    BY <1>0, <1>8
       DEF Production!SyncStaging, OtherTrainersSame, VersionsKept, Production!TypeOK
  <2>3. TrainerInv(p)'
    BY <1>0, <1>8
       DEF Production!SyncStaging, TrainerInv, Production!TypeOK, Production!Locked,
           Production!Staging
  <2> QED
    BY <1>8, <2>1, <2>2, <2>3, OtherTrainers
       DEF Production!SyncStaging, ProductionInv, VersionInv, ToldInv
<1> QED
  BY <1>1, <1>2, <1>3, <1>4, <1>5, <1>6, <1>7, <1>8

\* The rename shows a directory nothing is missing of.
LEMMA PublishStep ==
    ASSUME Production!PublicationAssumption, ProductionInv, NEW p \in Trainers,
           Production!Publish(p)
    PROVE  /\ ProductionInv'
           /\ Production!Promise!Publish(name[p],
                  [author |-> p, bundle |-> bundle[p], content |-> staging[p]])
           /\ [author |-> p, bundle |-> bundle[p], content |-> staging[p]] \in Production!Directory
           /\ name[p] \in Versions
<1> DEFINE n == name[p]
           directory == [author |-> p, bundle |-> bundle[p], content |-> staging[p]]
<1>0. TrainerInv(p) /\ Production!TypeOK /\ trainer[p] = "publish" /\ n \in Versions
  BY DEF ProductionInv, Production!Publish, TrainerInv, Production!Locked
<1>1. directory \in Production!Directory
  BY <1>0 DEF Production!Directory, TrainerInv, Production!TypeOK
<1>2. directory # None
  BY <1>1 DEF Production!PublicationAssumption
<1>3. Production!TypeOK'
  BY <1>0, <1>1
     DEF Production!Publish, Production!TypeOK, Production!Goto, Production!Phases,
         Production!Locked
<1>4. OtherTrainersSame(p) /\ VersionsKept
  BY <1>0
     DEF Production!Publish, OtherTrainersSame, VersionsKept, Production!TypeOK,
         Production!Goto
<1>5. TrainerInv(p)'
  BY <1>0, <1>2
     DEF Production!Publish, TrainerInv, Production!TypeOK, Production!Goto,
         Production!Locked
<1>6. \A v \in Versions : VersionInv(v)'
  BY <1>0 DEF Production!Publish, VersionInv, ProductionInv, Production!TypeOK, TrainerInv
<1>7. \A v \in Versions : ToldInv(v)'
  BY <1>0 DEF Production!Publish, ToldInv, ProductionInv, Production!TypeOK
<1>8. Production!Promise!Publish(n, directory)
  BY DEF Production!Publish, Production!Promise!Publish
<1> QED
  BY <1>0, <1>1, <1>3, <1>4, <1>5, <1>6, <1>7, <1>8, OtherTrainers DEF ProductionInv

LEMMA ConfirmStep ==
    ASSUME ProductionInv, NEW p \in Trainers, Production!ConfirmVersion(p)
    PROVE  ProductionInv' /\ UNCHANGED <<version, told>>
<1>0. TrainerInv(p) /\ Production!TypeOK /\ trainer[p] = "confirm" /\ name[p] \in Versions
  BY DEF ProductionInv, Production!ConfirmVersion, TrainerInv, Production!Locked
<1>1. Production!TypeOK'
  BY <1>0
     DEF Production!ConfirmVersion, Production!TypeOK, Production!Goto,
         Production!Phases, Production!Locked
<1>2. OtherTrainersSame(p) /\ VersionsKept
  BY <1>0
     DEF Production!ConfirmVersion, OtherTrainersSame, VersionsKept, Production!TypeOK,
         Production!Goto
<1>3. TrainerInv(p)'
  BY <1>0
     DEF Production!ConfirmVersion, TrainerInv, Production!TypeOK, Production!Goto,
         Production!Locked
<1> QED
  BY <1>1, <1>2, <1>3, OtherTrainers
     DEF Production!ConfirmVersion, ProductionInv, VersionInv, ToldInv

\* Who is told is told what is there.
LEMMA ReturnStep ==
    ASSUME Production!PublicationAssumption, ProductionInv, NEW p \in Trainers,
           Production!Return(p)
    PROVE  ProductionInv' /\ Production!Promise!Return(name[p]) /\ name[p] \in Versions
<1> DEFINE n == name[p]
<1>0. TrainerInv(p) /\ Production!TypeOK /\ trainer[p] = "return" /\ n \in Versions
  BY DEF ProductionInv, Production!Return, TrainerInv, Production!Locked
<1>1. Production!TypeOK'
  BY <1>0
     DEF Production!PublicationAssumption, Production!Return, Production!Leave,
         Production!Unlock, Production!TypeOK, Production!Goto, Production!Phases,
         Production!Staging, Production!NoStaging
<1>2. OtherTrainersSame(p) /\ VersionsKept
  BY <1>0
     DEF Production!Return, Production!Leave, OtherTrainersSame, VersionsKept,
         Production!TypeOK, Production!Goto
<1>3. TrainerInv(p)'
  BY <1>0
     DEF Production!Return, Production!Leave, TrainerInv, Production!TypeOK,
         Production!Goto, Production!Locked
<1>4. \A v \in Versions : VersionInv(v)' /\ ToldInv(v)'
  BY <1>0
     DEF Production!Return, VersionInv, ToldInv, ProductionInv, Production!TypeOK,
         TrainerInv
<1>5. Production!Promise!Return(n)
  BY <1>0 DEF Production!Return, Production!Promise!Return, TrainerInv
<1> QED
  BY <1>0, <1>1, <1>2, <1>3, <1>4, <1>5, OtherTrainers DEF ProductionInv

LEMMA TrainerEnds ==
    ASSUME Production!PublicationAssumption, ProductionInv, NEW p \in Trainers,
           Production!Fail(p) \/ Production!Kill(p)
    PROVE  ProductionInv' /\ UNCHANGED <<version, told>>
<1>1. locks' \subseteq Versions
  BY DEF ProductionInv, Production!TypeOK, Production!Fail, Production!Kill,
         Production!Unlock, Production!disk
<1>2. Production!Leave(p) /\ UNCHANGED <<prepared, version, durable, told>>
  BY DEF Production!Fail, Production!Kill, Production!disk
<1> QED
  BY <1>1, <1>2, TrainerLeaves

LEMMA PrepareStep ==
    ASSUME ProductionInv, NEW b \in Corrected, Production!Prepare(b)
    PROVE  ProductionInv' /\ UNCHANGED <<version, told>>
BY DEF Production!Prepare, ProductionInv, Production!TypeOK, TrainerInv, VersionInv,
       ToldInv

\* A crash takes a whole version or nothing, and nothing whose name is synced.
LEMMA CrashStep ==
    ASSUME Production!PublicationAssumption, ProductionInv, Production!HostCrash
    PROVE  ProductionInv' /\ Production!Promise!Settle
<1>1. /\ version' \in [Versions -> Production!Directory \cup {None}]
      /\ \A v \in Versions : version'[v] = version[v] \/ (version'[v] = None /\ v \notin durable)
  <2>1. PICK stay \in SUBSET Versions :
               version' \in {after \in [Versions ->
                                           UNION {Production!Shown(v, stay) : v \in Versions}] :
                               \A v \in Versions : after[v] \in Production!Shown(v, stay)}
    BY Zenon DEF Production!HostCrash
  <2>2. DOMAIN version' = Versions /\ version' = [v \in Versions |-> version'[v]]
    BY <2>1
  <2>3. ASSUME NEW v \in Versions
        PROVE  version'[v] = version[v] \/ (version'[v] = None /\ v \notin durable)
    <3>1. version'[v] \in Production!Shown(v, stay)
      BY <2>1
    <3>2. CASE version[v] = None
      <4>1. Production!Shown(v, stay) = {None}
        BY <3>2 DEF Production!Shown
      <4> QED
        BY <3>1, <3>2, <4>1
    <3>3. CASE v \notin durable \cup stay
      <4>1. Production!Shown(v, stay) = {None}
        BY <3>3 DEF Production!Shown
      <4> QED
        BY <3>1, <3>3, <4>1
    <3>4. CASE version[v] # None /\ v \in durable \cup stay
      <4>1. version[v].content.synced
        BY <3>4 DEF ProductionInv, VersionInv
      <4>2. Production!Shown(v, stay) = {version[v]}
        BY <3>4, <4>1 DEF Production!Shown
      <4> QED
        BY <3>1, <4>2
    <3> QED
      BY <3>2, <3>3, <3>4
  <2> QED
    BY <2>2, <2>3 DEF ProductionInv, Production!TypeOK
<1>2. Production!TypeOK'
  <2>1. Production!NoStaging \in Production!Staging
    BY DEF Production!PublicationAssumption, Production!NoStaging, Production!Staging
  <2>2. /\ prepared' = prepared /\ durable' = durable /\ told' = told /\ locks' \subseteq locks
        /\ trainer' = [p \in Trainers |-> "idle"] /\ bundle' = [p \in Trainers |-> None]
        /\ name' = [p \in Trainers |-> None]
        /\ staging' = [p \in Trainers |-> Production!NoStaging]
    BY Zenon DEF Production!HostCrash
  <2> HIDE DEF Production!HostCrash
  <2> QED
    BY <1>1, <2>1, <2>2 DEF ProductionInv, Production!TypeOK, Production!Phases
<1>3. \A p \in Trainers : TrainerInv(p)'
  BY DEF Production!HostCrash, TrainerInv, Production!Locked
<1>4. \A v \in Versions : VersionInv(v)' /\ ToldInv(v)'
  BY <1>1 DEF Production!HostCrash, VersionInv, ToldInv, ProductionInv
<1>5. Production!Promise!Settle
  BY <1>1 DEF Production!HostCrash, Production!Promise!Settle, ProductionInv, ToldInv
<1> QED
  BY <1>2, <1>3, <1>4, <1>5 DEF ProductionInv

-----------------------------------------------------------------------------
LEMMA ProductionNext ==
    ASSUME Production!PublicationAssumption, ProductionInv, [Production!Next]_(Production!vars)
    PROVE  ProductionInv' /\ [Production!Promise!Next]_(Production!Promise!vars)
<1>1. ASSUME NEW p \in Trainers, Production!Step(p)
      PROVE  ProductionInv' /\ [Production!Promise!Next]_(Production!Promise!vars)
  <2>1. CASE Production!Publish(p)
    BY <2>1, PublishStep DEF Production!Promise!Next
  <2>2. CASE Production!Return(p)
    BY <2>2, ReturnStep DEF Production!Promise!Next
  <2>3. CASE Production!ConfirmVersion(p)
    BY <2>3, ConfirmStep DEF Production!Promise!vars
  <2>4. CASE Production!Fail(p) \/ Production!Kill(p)
    BY <2>4, TrainerEnds DEF Production!Promise!vars
  <2> QED
    BY <1>1, <2>1, <2>2, <2>3, <2>4, StagingSteps
       DEF Production!Step, Production!Promise!vars
<1>2. ASSUME NEW b \in Corrected, Production!Prepare(b)
      PROVE  ProductionInv' /\ [Production!Promise!Next]_(Production!Promise!vars)
  BY <1>2, PrepareStep DEF Production!Promise!vars
<1>3. CASE Production!HostCrash
  BY <1>3, CrashStep DEF Production!Promise!Next
<1>4. CASE UNCHANGED Production!vars
  BY <1>4
     DEF Production!vars, Production!disk, Production!Promise!vars, ProductionInv,
         Production!TypeOK, TrainerInv, VersionInv, ToldInv
<1> QED
  BY <1>1, <1>2, <1>3, <1>4 DEF Production!Next

\* The inductive invariant of the publication.
THEOREM PublicationInvariant == Production!Spec => []ProductionInv
<1>1. Production!Init => ProductionInv
  BY ProductionInit, Phase1Assumption
<1>2. ProductionInv /\ [Production!Next]_(Production!vars) => ProductionInv'
  BY ProductionNext, Phase1Assumption
<1> QED
  BY <1>1, <1>2, PTL DEF Production!Spec

\* A version is seen whole or not at all (train_versioned_production_model and
\* _publish_production_version), whoever dies and whatever a disk forgets.
THEOREM WholeOrAbsent == Production!Spec => []VersionsWhole
<1>1. ProductionInv => VersionsWhole
  BY DEF ProductionInv, VersionInv, VersionsWhole, Production!VersionsWhole
<1> QED
  BY <1>1, PublicationInvariant, PTL

\* The publication implements the write-once store: every step publishes under
\* a free name, tells what is there, takes back what nobody was told, or stutters.
THEOREM PublicationRefines == Production!Spec => ImplementsWriteOnce
<1>1. Production!Init => Production!Promise!Init
  BY DEF Production!Init, Production!Promise!Init
<1>2. ProductionInv /\ [Production!Next]_(Production!vars)
      => [Production!Promise!Next]_(Production!Promise!vars)
  BY ProductionNext, Phase1Assumption
<1> QED
  BY <1>1, <1>2, PublicationInvariant, PTL
     DEF Production!Spec, ImplementsWriteOnce, Production!ImplementsWriteOnce,
         Production!Promise!Spec

-----------------------------------------------------------------------------
(* PreparedData. *)

\* The phases in which a process has a manifest, its own or the one it loads.
Holding == Prepared!Preparing \cup {"load_features", "load_labels", "validate", "loaded"}

KeptFiles == [feature: Snapshots \cup {None}, labeled: Snapshots \cup {None},
              manifest: Prepared!Manifest \cup {None}]

\* The hashes of a manifest that was prepared alone are of its own files.
Bound(m) == m.alone => m.feature = m.source /\ m.labeled = m.source

\* Who is alone since its first write finds what it wrote.
PreparerInv(p) ==
    LET m == held[p]
    IN  /\ preparer[p] = "labels" /\ m.alone => feature = m.source
        /\ preparer[p] = "hash_features" /\ m.alone => feature = m.source /\ labeled = m.source
        /\ preparer[p] = "hash_labels" /\ m.alone => m.feature = m.source /\ labeled = m.source
        /\ preparer[p] = "manifest" => Bound(m)

\* What is loaded has the hashes of the manifest that was read first.
LoaderInv(p) ==
    /\ preparer[p] \in {"load_features", "load_labels", "validate", "loaded"} => Bound(held[p])
    /\ preparer[p] \in {"load_labels", "validate", "loaded"} =>
          loaded[p].feature = held[p].feature
    /\ preparer[p] \in {"validate", "loaded"} => loaded[p].labeled = held[p].labeled

PreparedInv ==
    /\ Prepared!TypeOK
    /\ kept \in KeptFiles
    /\ preparer \in [Trainers -> Holding \cup {"idle", "load"}]
    /\ \A p \in Trainers : preparer[p] \in Holding => held[p] \in Prepared!Manifest
    /\ \A p \in Trainers : PreparerInv(p) /\ LoaderInv(p)
    /\ \A m \in {onDisk, kept.manifest} : m # None => Bound(m)

LEMMA PreparedInit == Prepared!Init => PreparedInv
<1> SUFFICES ASSUME Prepared!Init PROVE PreparedInv
  OBVIOUS
<1> USE DEF Prepared!Init
<1>1. Prepared!TypeOK
  BY DEF Prepared!TypeOK, Prepared!Nothing
<1>2. kept \in KeptFiles
  BY DEF Prepared!NoFiles, KeptFiles
<1>3. \A p \in Trainers : preparer[p] = "idle"
  OBVIOUS
<1>4. preparer \in [Trainers -> Holding \cup {"idle", "load"}]
  OBVIOUS
<1>5. "idle" \notin Holding
  BY DEF Holding, Prepared!Preparing
<1>6. \A p \in Trainers : PreparerInv(p) /\ LoaderInv(p)
  BY <1>3 DEF PreparerInv, LoaderInv
<1>7. onDisk = None /\ kept.manifest = None
  BY DEF Prepared!NoFiles
<1> QED
  BY <1>1, <1>2, <1>3, <1>4, <1>5, <1>6, <1>7 DEF PreparedInv

\* A file's earlier version is of its type, like the one that replaces it.
LEMMA ReachKeeps ==
    ASSUME PreparedInv, NEW file \in {"feature", "labeled", "manifest"}, NEW content,
           content \in IF file = "manifest" THEN Prepared!Manifest ELSE Snapshots,
           Prepared!Reach(file, content)
    PROVE  /\ kept' \in KeptFiles
           /\ kept'.manifest \in {kept.manifest} \cup {c \in {content} : file = "manifest"}
<1>1. kept' = kept \/ kept' = [kept EXCEPT ![file] = content]
  BY DEF Prepared!Reach
<1>2. kept \in KeptFiles
  BY DEF PreparedInv
<1> QED
  BY <1>1, <1>2 DEF KeptFiles

\* A step that writes no file and moves p alone leaves the others where they were.
LEMMA OthersUnmoved ==
    ASSUME PreparedInv, NEW p \in Trainers, UNCHANGED <<feature, labeled, onDisk, kept>>,
           Prepared!TypeOK', preparer' \in [Trainers -> Holding \cup {"idle", "load"}],
           \A q \in Trainers \ {p} : /\ preparer'[q] = preparer[q] /\ held'[q] = held[q]
                                     /\ loaded'[q] = loaded[q],
           preparer'[p] \in Holding => held'[p] \in Prepared!Manifest,
           PreparerInv(p)', LoaderInv(p)'
    PROVE  PreparedInv'
<1>1. \A q \in Trainers \ {p} : PreparerInv(q)' /\ LoaderInv(q)'
  BY DEF PreparedInv, PreparerInv, LoaderInv, Bound
<1>2. \A m \in {onDisk', kept'.manifest} : m # None => Bound(m)
  BY DEF PreparedInv
<1>3. \A q \in Trainers : preparer'[q] \in Holding => held'[q] \in Prepared!Manifest
  BY DEF PreparedInv
<1>4. kept' \in KeptFiles
  BY DEF PreparedInv
<1> QED
  BY <1>1, <1>2, <1>3, <1>4 DEF PreparedInv, Bound

\* A write leaves nobody else alone between its first write and its hashes, and
\* no manifest as it is being written.
LEMMA OthersOverwritten ==
    ASSUME PreparedInv, NEW p \in Trainers, Prepared!Writes(p), UNCHANGED <<onDisk, loaded>>,
           NEW next \in {"labels", "hash_features"}, preparer[p] \in {"features", "labels"},
           preparer' = [preparer EXCEPT ![p] = next],
           Prepared!TypeOK', kept' \in KeptFiles, kept'.manifest = kept.manifest,
           PreparerInv(p)'
    PROVE  PreparedInv'
<1> USE DEF Holding, Prepared!Preparing
<1>1. preparer' \in [Trainers -> Holding \cup {"idle", "load"}]
  BY DEF PreparedInv
<1>2. held'[p] = held[p] /\ held[p] \in Prepared!Manifest
  BY DEF PreparedInv, Prepared!Writes
<1>3. ASSUME NEW q \in Trainers, q # p
      PROVE  /\ PreparerInv(q)' /\ LoaderInv(q)'
             /\ preparer'[q] \in Holding => held'[q] \in Prepared!Manifest
  <2>1. preparer'[q] = preparer[q]
    BY <1>3 DEF PreparedInv
  <2>2. CASE preparer[q] \in {"labels", "hash_features", "hash_labels"}
    <3>1. held'[q] = [held[q] EXCEPT !.alone = FALSE] /\ held[q] \in Prepared!Manifest
      BY <1>3, <2>2 DEF PreparedInv, Prepared!Writes
    <3>2. held'[q] \in Prepared!Manifest /\ ~held'[q].alone
      BY <3>1 DEF Prepared!Manifest
    <3> QED
      BY <2>1, <2>2, <3>2 DEF PreparerInv, LoaderInv
  <2>3. CASE preparer[q] \notin {"labels", "hash_features", "hash_labels"}
    <3>1. held'[q] = held[q]
      BY <1>3, <2>3 DEF Prepared!Writes
    <3>2. PreparerInv(q) /\ LoaderInv(q) /\ (preparer[q] \in Holding => held[q] \in Prepared!Manifest)
      BY DEF PreparedInv
    <3> QED
      BY <2>1, <2>3, <3>1, <3>2 DEF PreparerInv, LoaderInv, Bound
  <2> QED
    BY <2>2, <2>3
<1>4. LoaderInv(p)'
  BY DEF LoaderInv, PreparedInv
<1>5. \A m \in {onDisk', kept'.manifest} : m # None => Bound(m)
  BY DEF PreparedInv
<1> QED
  BY <1>1, <1>2, <1>3, <1>4, <1>5 DEF PreparedInv, Bound

\* Every step of a process keeps the invariant.
LEMMA PreparedStep ==
    ASSUME PreparedInv, NEW p \in Trainers,
           Prepared!PrepareStep(p) \/ Prepared!LoadStep(p) \/ Prepared!Done(p) \/ Prepared!Stop(p)
    PROVE  PreparedInv'
<1> USE DEF Prepared!TypeOK, Prepared!Goto, Prepared!Leave, Prepared!files, Holding,
            Prepared!Preparing, Prepared!Loading, Prepared!Nothing
<1>0. /\ Prepared!TypeOK
      /\ preparer \in [Trainers -> Holding \cup {"idle", "load"}]
      /\ preparer[p] \in Holding => held[p] \in Prepared!Manifest
      /\ PreparerInv(p) /\ LoaderInv(p)
      /\ onDisk # None => Bound(onDisk)
  BY DEF PreparedInv
<1>1. CASE \E s \in Snapshots : Prepared!StartPrepare(p, s)
  <2>1. PICK s \in Snapshots : Prepared!StartPrepare(p, s)
    BY <1>1
  <2>2. [source |-> s, feature |-> None, labeled |-> None, alone |-> TRUE] \in Prepared!Manifest
    BY DEF Prepared!Manifest
  <2> QED
    BY <1>0, <2>1, <2>2, OthersUnmoved DEF Prepared!StartPrepare, PreparerInv, LoaderInv
<1>2. CASE Prepared!WriteFeatures(p)
  <2>1. held[p] \in Prepared!Manifest /\ held[p].source \in Snapshots
    BY <1>0, <1>2 DEF Prepared!WriteFeatures, Prepared!Manifest
  <2>2. kept' \in KeptFiles /\ kept'.manifest = kept.manifest
    BY <1>2, <2>1, ReachKeeps DEF Prepared!WriteFeatures
  <2>3. held'[p] = held[p] /\ feature' = held[p].source /\ preparer'[p] = "labels"
    BY <1>0, <1>2 DEF Prepared!WriteFeatures, Prepared!Writes
  <2>4. held' \in [Trainers -> Prepared!Manifest \cup {None}]
    BY <1>0, <1>2 DEF PreparedInv, Prepared!WriteFeatures, Prepared!Writes, Prepared!Manifest
  <2>5. PreparerInv(p)'
    BY <2>3 DEF PreparerInv
  <2> QED
    BY <1>0, <1>2, <2>1, <2>2, <2>4, <2>5, OthersOverwritten DEF Prepared!WriteFeatures
<1>3. CASE Prepared!WriteLabels(p)
  <2>1. held[p] \in Prepared!Manifest /\ held[p].source \in Snapshots
    BY <1>0, <1>3 DEF Prepared!WriteLabels, Prepared!Manifest
  <2>2. kept' \in KeptFiles /\ kept'.manifest = kept.manifest
    BY <1>3, <2>1, ReachKeeps DEF Prepared!WriteLabels
  <2>3. /\ held'[p] = held[p] /\ labeled' = held[p].source /\ feature' = feature
        /\ preparer[p] = "labels" /\ preparer'[p] = "hash_features"
    BY <1>0, <1>3 DEF Prepared!WriteLabels, Prepared!Writes
  <2>4. held' \in [Trainers -> Prepared!Manifest \cup {None}]
    BY <1>0, <1>3 DEF PreparedInv, Prepared!WriteLabels, Prepared!Writes, Prepared!Manifest
  <2>5. PreparerInv(p)'
    BY <1>0, <2>3 DEF PreparerInv
  <2> QED
    BY <1>0, <1>3, <2>1, <2>2, <2>4, <2>5, OthersOverwritten DEF Prepared!WriteLabels
<1>4. CASE Prepared!HashFeatures(p)
  <2>1. [held[p] EXCEPT !.feature = feature] \in Prepared!Manifest
    BY <1>0, <1>4 DEF Prepared!HashFeatures, Prepared!Manifest
  <2>2. PreparerInv(p)' /\ LoaderInv(p)'
    BY <1>0, <1>4, <2>1 DEF Prepared!HashFeatures, Prepared!Manifest, PreparerInv, LoaderInv
  <2> QED
    BY <1>0, <1>4, <2>1, <2>2, OthersUnmoved DEF Prepared!HashFeatures
<1>5. CASE Prepared!HashLabels(p)
  <2>1. [held[p] EXCEPT !.labeled = labeled] \in Prepared!Manifest
    BY <1>0, <1>5 DEF Prepared!HashLabels, Prepared!Manifest
  <2>2. PreparerInv(p)' /\ LoaderInv(p)'
    BY <1>0, <1>5, <2>1 DEF Prepared!HashLabels, Prepared!Manifest, PreparerInv, LoaderInv, Bound
  <2> QED
    BY <1>0, <1>5, <2>1, <2>2, OthersUnmoved DEF Prepared!HashLabels
<1>6. CASE Prepared!CompleteBundle(p)
  <2>1. held[p] \in Prepared!Manifest /\ Bound(held[p])
    BY <1>0, <1>6 DEF Prepared!CompleteBundle, PreparerInv
  <2>2. kept' \in KeptFiles /\ kept'.manifest \in {kept.manifest, held[p]}
    BY <1>6, <2>1, ReachKeeps DEF Prepared!CompleteBundle
  <2>3. \A m \in {onDisk', kept'.manifest} : m # None => Bound(m)
    BY <1>6, <2>1, <2>2 DEF Prepared!CompleteBundle, PreparedInv
  <2>4. \A q \in Trainers : PreparerInv(q)' /\ LoaderInv(q)'
    BY <1>0, <1>6 DEF Prepared!CompleteBundle, PreparedInv, PreparerInv, LoaderInv, Bound
  <2> QED
    BY <1>0, <1>6, <2>1, <2>2, <2>3, <2>4 DEF Prepared!CompleteBundle, PreparedInv, Bound
<1>7. CASE Prepared!LoadManifest(p)
  <2>1. onDisk \in Prepared!Manifest /\ Bound(onDisk)
    BY <1>0, <1>7 DEF Prepared!LoadManifest
  <2>2. PreparerInv(p)' /\ LoaderInv(p)'
    BY <1>0, <1>7, <2>1 DEF Prepared!LoadManifest, PreparerInv, LoaderInv, Bound
  <2> QED
    BY <1>0, <1>7, <2>1, <2>2, OthersUnmoved DEF Prepared!LoadManifest
<1>8. CASE Prepared!LoadFeatures(p)
  <2>1. PreparerInv(p)' /\ LoaderInv(p)'
    BY <1>0, <1>8 DEF Prepared!LoadFeatures, Prepared!Verified, PreparerInv, LoaderInv, Bound
  <2> QED
    BY <1>0, <1>8, <2>1, OthersUnmoved DEF Prepared!LoadFeatures
<1>9. CASE Prepared!LoadLabels(p)
  <2>1. PreparerInv(p)' /\ LoaderInv(p)'
    BY <1>0, <1>9 DEF Prepared!LoadLabels, Prepared!Verified, PreparerInv, LoaderInv, Bound
  <2> QED
    BY <1>0, <1>9, <2>1, OthersUnmoved DEF Prepared!LoadLabels
<1>10. CASE Prepared!ValidateBundle(p)
  <2>1. PreparerInv(p)' /\ LoaderInv(p)'
    BY <1>0, <1>10 DEF Prepared!ValidateBundle, PreparerInv, LoaderInv, Bound
  <2> QED
    BY <1>0, <1>10, <2>1, OthersUnmoved DEF Prepared!ValidateBundle
<1>11. CASE Prepared!Done(p)
  BY <1>0, <1>11, OthersUnmoved DEF Prepared!Done, PreparerInv, LoaderInv
<1>12. CASE Prepared!Stop(p)
  BY <1>0, <1>12, OthersUnmoved DEF Prepared!Stop, PreparerInv, LoaderInv
<1> QED
  BY <1>1, <1>2, <1>3, <1>4, <1>5, <1>6, <1>7, <1>8, <1>9, <1>10, <1>11, <1>12
     DEF Prepared!PrepareStep, Prepared!LoadStep

\* A host crash brings back files that were there, and nothing that was loaded.
LEMMA PreparedCrash == ASSUME PreparedInv, Prepared!HostCrash PROVE PreparedInv'
<1>1. kept' \in {kept, Prepared!NoFiles} /\ onDisk' = kept.manifest
  BY DEF Prepared!HostCrash, Prepared!CrashFiles
<1>2. \A m \in {onDisk', kept'.manifest} : m # None => Bound(m)
  BY <1>1 DEF PreparedInv, Prepared!NoFiles
<1>3. \A p \in Trainers : preparer'[p] = "idle"
  BY DEF Prepared!HostCrash, Prepared!CrashFiles
<1>4. \A p \in Trainers : PreparerInv(p)' /\ LoaderInv(p)'
  BY <1>3 DEF PreparerInv, LoaderInv
<1>5. Prepared!TypeOK' /\ kept' \in KeptFiles
  BY <1>1 DEF Prepared!HostCrash, Prepared!CrashFiles, PreparedInv, Prepared!TypeOK,
              Prepared!Nothing, Prepared!NoFiles, KeptFiles
<1>6. preparer' \in [Trainers -> Holding \cup {"idle", "load"}]
  BY DEF Prepared!HostCrash, Prepared!CrashFiles
<1> QED
  BY <1>2, <1>3, <1>4, <1>5, <1>6 DEF PreparedInv, Holding, Prepared!Preparing, Bound

\* A bundle that was prepared alone is loaded as it was prepared, warm-up and
\* all, or not at all, however many processes prepare, load, fail or die at other
\* times and whatever a crash brings back (prepare_datasets,
\* load_prepared_dataset_bundle).
THEOREM AloneIsOne == Prepared!Spec => []PreparedAloneIsOne
<1>1. Prepared!Init => PreparedInv
  BY PreparedInit
<1>2. PreparedInv /\ [Prepared!Next]_(Prepared!vars) => PreparedInv'
  <2> SUFFICES ASSUME PreparedInv, [Prepared!Next]_(Prepared!vars) PROVE PreparedInv'
    OBVIOUS
  <2>1. CASE UNCHANGED Prepared!vars
    <3>1. \A p \in Trainers : PreparerInv(p)' /\ LoaderInv(p)'
      BY <2>1 DEF Prepared!vars, Prepared!files, PreparedInv, PreparerInv, LoaderInv, Bound
    <3>2. \A m \in {onDisk', kept'.manifest} : m # None => Bound(m)
      BY <2>1 DEF Prepared!vars, Prepared!files, PreparedInv
    <3> QED
      BY <2>1, <3>1, <3>2 DEF Prepared!vars, Prepared!files, PreparedInv, Prepared!TypeOK, Bound
  <2> QED
    BY <2>1, PreparedStep, PreparedCrash DEF Prepared!Next
<1>3. PreparedInv => PreparedAloneIsOne
  BY DEF PreparedInv, Prepared!TypeOK, LoaderInv, Bound, PreparedAloneIsOne,
         Prepared!PreparedAloneIsOne, Prepared!OfOneSnapshot
<1> QED
  BY <1>1, <1>2, <1>3, PTL DEF Prepared!Spec

-----------------------------------------------------------------------------
(* HoldoutRun. *)

USE DEF Outputs, Status, File, Manifest, Developing, Evaluating, Updating, Promoting, Owning

\* The initial states satisfy the invariant.
LEMMA InitInv == Init => IInv
<1> SUFFICES ASSUME Init PROVE IInv
  OBVIOUS
<1>1. TypeOK
  <2>1. 1 \in Outputs
    BY RunAssumption
  <2>2. /\ output \in [Outputs -> File \cup {None}]
        /\ evaluation \in Manifest \cup {None}
    <3> HIDE DEF Outputs, File, Manifest
    <3> QED
      BY DEF Init
  <2>3. /\ step \in [Procs -> Outputs]
        /\ seen \in [Procs -> Status \cup {None}]
    <3> HIDE DEF Outputs, Status
    <3> QED
      BY <2>1 DEF Init
  <2>4. /\ run \in BOOLEAN
        /\ manifest \in BOOLEAN
        /\ promoted \in BOOLEAN
    BY DEF Init
  <2>6. /\ frozen \in 0..Frozen
        /\ opened \in Nat
    BY RunAssumption DEF Init
  <2>7. /\ claim \in {"absent", "torn"} \cup Status
        /\ claimant \in Procs \cup {None}
    BY DEF Init
  <2>5. pc \in [Procs -> {"idle", "preflight", "claim"} \cup Developing \cup Evaluating
                         \cup Updating \cup Promoting]
    BY DEF Init
  <2> QED
    BY <2>2, <2>3, <2>4, <2>5, <2>6, <2>7 DEF TypeOK
<1> QED
  BY <1>1 DEF Init, IInv, HoldoutOpenedOnce, ResultsAreTheClaimants, ProcessInv

\* Every step keeps the types; a written output or manifest existed before.
LEMMA TypeStep == IInv /\ [Next]_vars => TypeOK'
<1> SUFFICES ASSUME IInv, [Next]_vars PROVE TypeOK'
  OBVIOUS
<1> USE RunAssumption DEF IInv, TypeOK, Goto, Leave, files, history
<1>1. CASE UNCHANGED vars
  BY <1>1 DEF vars
<1>2. ASSUME NEW p \in Procs, Step(p) PROVE TypeOK'
  <2>1. CASE Develop(p)
    BY <2>1 DEF Develop
  <2>2. CASE Freeze(p)
    BY <2>2 DEF Freeze
  <2>3. CASE WriteRunManifest(p)
    BY <2>3 DEF WriteRunManifest
  <2>4. CASE Preflight(p)
    BY <2>4 DEF Preflight
  <2>5. CASE CreateClaim(p)
    BY <2>5 DEF CreateClaim
  <2>6. CASE ClaimExists(p)
    BY <2>6 DEF ClaimExists
  <2>7. CASE WriteClaim(p)
    BY <2>7 DEF WriteClaim
  <2>8. CASE OpenHoldout(p)
    BY <2>8 DEF OpenHoldout
  <2>9. CASE CreateOutput(p)
    BY <2>9 DEF CreateOutput
  <2>10. CASE WriteOutput(p)
    <3>1. output[step[p]] \in File
      BY <2>10 DEF WriteOutput, ProcessInv
    <3>2. [output[step[p]] EXCEPT !.whole = TRUE] \in File
      BY <3>1
    <3>3. output' \in [Outputs -> File \cup {None}]
      BY <2>10, <3>2 DEF WriteOutput
    <3>4. step' \in [Procs -> Outputs]
      BY <2>10 DEF WriteOutput
    <3> QED
      BY <2>10, <3>3, <3>4 DEF WriteOutput
  <2>11. CASE CreateManifest(p)
    BY <2>11 DEF CreateManifest
  <2>12. CASE WriteManifest(p)
    BY <2>12 DEF WriteManifest, ProcessInv
  <2>13. CASE ReadStatus(p)
    BY <2>13 DEF ReadStatus
  <2>14. CASE ReplaceStatus(p)
    BY <2>14 DEF ReplaceStatus
  <2>15. CASE Invalidate(p)
    BY <2>15 DEF Invalidate
  <2>16. CASE Fail(p)
    <3>1. CASE Leave(p)
      BY <2>16, <3>1 DEF Fail
    <3>2. CASE ~Leave(p)
      <4>1. /\ UNCHANGED <<run, frozen, manifest, claim, output, evaluation, step>>
            /\ UNCHANGED <<claimant, opened, promoted>>
            /\ pc' = [pc EXCEPT ![p] = "failed"]
            /\ seen' = [seen EXCEPT ![p] = None]
        BY <2>16, <3>2 DEF Fail
      <4> QED
        BY <4>1
    <3> QED
      BY <3>1, <3>2
  <2>17. CASE AuthorizeProduction(p)
    BY <2>17 DEF AuthorizeProduction
  <2>18. CASE VerifyEvaluation(p)
    BY <2>18 DEF VerifyEvaluation
  <2>19. CASE Promote(p)
    BY <2>19 DEF Promote
  <2>20. CASE Kill(p)
    BY <2>20 DEF Kill
  <2> QED
    BY <1>2, <2>1, <2>2, <2>3, <2>4, <2>5, <2>6, <2>7, <2>8, <2>9, <2>10, <2>11, <2>12, <2>13, <2>14, <2>15, <2>16, <2>17, <2>18, <2>19, <2>20 DEF Step
<1> QED
  BY <1>1, <1>2 DEF Next

\* The conjuncts of IInv that are not types.
ClaimInv ==
    /\ claim = "absent" <=> claimant = None
    /\ claimant = None => opened = 0
    /\ HoldoutOpenedOnce
    /\ ResultsAreTheClaimants
    /\ \A p \in Procs : ProcessInv(p)
    /\ claim = "completed" => Evidenced /\ Finished
    /\ promoted \/ (\E p \in Procs : pc[p] \in Promoting) =>
          Evidenced /\ Finished /\ claim \in {"completed", "invalidated"}

\* A process in a phase of the claimant is the claimant, alone, and nothing has
\* completed yet.
LEMMA Owner ==
    ASSUME IInv, NEW p \in Procs, pc[p] \in Owning
    PROVE  /\ p = claimant
           /\ claimant # None
           /\ claim \notin {"absent", "completed", "failed"}
           /\ \A q \in Procs : q # p => pc[q] \notin Owning
           /\ ~promoted
           /\ \A q \in Procs : pc[q] \notin Promoting
<1>1. p = claimant /\ claim \notin {"completed", "failed"}
  BY DEF IInv, ProcessInv
<1>2. claimant # None /\ claim # "absent"
  BY <1>1, RunAssumption DEF IInv
<1>3. \A q \in Procs : q # p => pc[q] \notin Owning
  BY <1>1 DEF IInv, ProcessInv
<1>4. ~Finished
  BY DEF Finished
<1> HIDE DEF Owning, Promoting
<1> QED
  BY <1>1, <1>2, <1>3, <1>4 DEF IInv

\* What is left to prove of a step inside the claimant's phases.
LEMMA OwnerStep ==
    ASSUME IInv, NEW p \in Procs, pc[p] \in Owning, UNCHANGED <<claim, claimant, promoted>>,
           NEW next \in Owning, pc' = [pc EXCEPT ![p] = next],
           \A q \in Procs : q # p => step'[q] = step[q],
           HoldoutOpenedOnce', ResultsAreTheClaimants', ProcessInv(p)'
    PROVE  ClaimInv'
<1> USE DEF TypeOK
<1>1. /\ p = claimant
      /\ claimant # None
      /\ claim \notin {"absent", "completed", "failed"}
      /\ \A q \in Procs : q # p => pc[q] \notin Owning
      /\ ~promoted
      /\ \A q \in Procs : pc[q] \notin Promoting
  BY Owner
<1>2. \A q \in Procs : q # p => pc'[q] = pc[q]
  BY DEF IInv
<1>3. \A q \in Procs : q # p => ProcessInv(q)'
  <2> SUFFICES ASSUME NEW q \in Procs, q # p PROVE ProcessInv(q)'
    OBVIOUS
  <2>1. /\ pc'[q] = pc[q] /\ step'[q] = step[q] /\ pc'[q] \notin Owning
    BY <1>1, <1>2
  <2>2. pc[q] \in {"idle", "preflight"} => step[q] = 1
    BY DEF IInv, ProcessInv
  <2> QED
    BY <1>1, <2>1, <2>2 DEF ProcessInv
<1>4. \A q \in Procs : pc'[q] \notin Promoting
  BY <1>1, <1>2 DEF IInv
<1> QED
  BY <1>1, <1>3, <1>4 DEF ClaimInv

\* Every step keeps the rest of the invariant: only the claimant leaves its
\* phases, one at a time, and what it leaves behind is not touched again.
LEMMA ClaimStep == IInv /\ [Next]_vars => ClaimInv'
<1> SUFFICES ASSUME IInv, [Next]_vars PROVE ClaimInv'
  OBVIOUS
<1> USE RunAssumption DEF IInv, ClaimInv, TypeOK, Goto, Leave, files, history, HoldoutOpenedOnce,
        ResultsAreTheClaimants, ProcessInv, Evidenced, Finished, NoOutput, Written
<1>1. CASE UNCHANGED vars
  BY <1>1 DEF vars
<1>2. ASSUME NEW p \in Procs, Step(p) PROVE ClaimInv'
  <2>1. CASE Develop(p)
    BY <2>1, SMTT(60) DEF Develop
  <2>2. CASE Freeze(p)
    BY <2>2, SMTT(60) DEF Freeze
  <2>3. CASE WriteRunManifest(p)
    BY <2>3, SMTT(60) DEF WriteRunManifest
  <2>4. CASE Preflight(p)
    BY <2>4, SMTT(60) DEF Preflight
  <2>5. CASE CreateClaim(p)
    BY <2>5, SMTT(60) DEF CreateClaim
  <2>6. CASE ClaimExists(p)
    BY <2>6, SMTT(60) DEF ClaimExists
  <2>7. CASE WriteClaim(p)
    BY <2>7, SMTT(60) DEF WriteClaim
  <2>8. CASE OpenHoldout(p)
    <3> HIDE DEF ClaimInv
    <3>1. PICK next \in {"output"} : pc' = [pc EXCEPT ![p] = next]
      BY <2>8 DEF OpenHoldout
    <3>2. ProcessInv(p)
      BY DEF IInv
    <3>3. ProcessInv(p)'
      BY <2>8, <3>2 DEF OpenHoldout
    <3>4. ResultsAreTheClaimants' /\ HoldoutOpenedOnce'
      BY <2>8, <3>2 DEF OpenHoldout
    <3>5. /\ pc[p] \in Owning /\ next \in Owning
          /\ UNCHANGED <<claim, claimant, promoted>>
          /\ \A q \in Procs : q # p => step'[q] = step[q]
      BY <2>8, <3>1 DEF OpenHoldout
    <3> HIDE DEF IInv, Owning, ProcessInv, ResultsAreTheClaimants, HoldoutOpenedOnce
    <3> QED
      BY <3>1, <3>3, <3>4, <3>5, OwnerStep
  <2>9. CASE CreateOutput(p)
    <3> HIDE DEF ClaimInv
    <3>1. PICK next \in {"write"} : pc' = [pc EXCEPT ![p] = next]
      BY <2>9 DEF CreateOutput
    <3>2. ProcessInv(p)
      BY DEF IInv
    <3>3. ProcessInv(p)'
      <4>1. \A k \in 1..(step[p] - 1) : output'[k] = output[k]
        BY <2>9 DEF CreateOutput
      <4>2. output'[step[p]] # None
        <5>1. [author |-> p, whole |-> step[p] <= Tables] \in File
          OBVIOUS
        <5>2. step[p] \in Outputs /\ output \in [Outputs -> File \cup {None}]
          OBVIOUS
        <5>3. output' = [output EXCEPT ![step[p]] = [author |-> p, whole |-> step[p] <= Tables]]
          BY <2>9 DEF CreateOutput
        <5> HIDE DEF Outputs, File
        <5>4. output'[step[p]] = [author |-> p, whole |-> step[p] <= Tables]
          BY <5>2, <5>3
        <5> QED
          BY <5>1, <5>4, NoneAssumption
      <4> QED
        BY <2>9, <3>2, <4>1, <4>2 DEF CreateOutput
    <3>4. ResultsAreTheClaimants' /\ HoldoutOpenedOnce'
      <4>1. p = claimant
        BY <2>9, <3>2 DEF CreateOutput
      <4> QED
        BY <2>9, <4>1 DEF CreateOutput
    <3>5. /\ pc[p] \in Owning /\ next \in Owning
          /\ UNCHANGED <<claim, claimant, promoted>>
          /\ \A q \in Procs : q # p => step'[q] = step[q]
      BY <2>9, <3>1 DEF CreateOutput
    <3> HIDE DEF IInv, Owning, ProcessInv, ResultsAreTheClaimants, HoldoutOpenedOnce
    <3> QED
      BY <3>1, <3>3, <3>4, <3>5, OwnerStep
  <2>10. CASE WriteOutput(p)
    <3> HIDE DEF ClaimInv
    <3>1. PICK next \in {"output", "manifest"} : pc' = [pc EXCEPT ![p] = next]
      BY <2>10 DEF WriteOutput
    <3>2. ProcessInv(p)
      BY DEF IInv
    <3>3. ProcessInv(p)'
      <4>1. \A k \in 1..step[p] : Written(k)'
        <5>1. output[step[p]] \in File
          BY <2>10, <3>2 DEF WriteOutput
        <5>2. [output[step[p]] EXCEPT !.whole = TRUE] \in File
          BY <5>1
        <5>3. output'[step[p]] = [output[step[p]] EXCEPT !.whole = TRUE]
          BY <2>10 DEF WriteOutput
        <5>4. output'[step[p]] # None /\ output'[step[p]].whole
          <6>1. output'[step[p]].whole
            BY <5>1, <5>3
          <6>2. output'[step[p]] \in File
            BY <5>2, <5>3
          <6> HIDE DEF File
          <6> QED
            BY <6>1, <6>2, NoneAssumption
        <5>5. \A k \in 1..(step[p] - 1) : Written(k) /\ output'[k] = output[k]
          BY <2>10, <3>2 DEF WriteOutput
        <5>6. step'= step \/ step'[p] = step[p] + 1
          BY <2>10 DEF WriteOutput
        <5> QED
          BY <5>4, <5>5
      <4> QED
        BY <2>10, <3>2, <4>1 DEF WriteOutput
    <3>4. ResultsAreTheClaimants' /\ HoldoutOpenedOnce'
      <4>1. p = claimant
        BY <2>10, <3>2 DEF WriteOutput
      <4> QED
        BY <2>10, <3>2, <4>1 DEF WriteOutput
    <3>5. /\ pc[p] \in Owning /\ next \in Owning
          /\ UNCHANGED <<claim, claimant, promoted>>
          /\ \A q \in Procs : q # p => step'[q] = step[q]
      BY <2>10, <3>1 DEF WriteOutput
    <3> HIDE DEF IInv, Owning, ProcessInv, ResultsAreTheClaimants, HoldoutOpenedOnce
    <3> QED
      BY <3>1, <3>3, <3>4, <3>5, OwnerStep
  <2>11. CASE CreateManifest(p)
    <3> HIDE DEF ClaimInv
    <3>1. PICK next \in {"write_manifest"} : pc' = [pc EXCEPT ![p] = next]
      BY <2>11 DEF CreateManifest
    <3>2. ProcessInv(p)
      BY DEF IInv
    <3>3. ProcessInv(p)'
      <4>1. [author |-> p, whole |-> FALSE, hashes |-> output] \in Manifest
        OBVIOUS
      <4> QED
        BY <2>11, <3>2, <4>1, NoneAssumption DEF CreateManifest
    <3>4. ResultsAreTheClaimants' /\ HoldoutOpenedOnce'
      <4>1. p = claimant
        BY <2>11, <3>2 DEF CreateManifest
      <4> QED
        BY <2>11, <4>1 DEF CreateManifest
    <3>5. /\ pc[p] \in Owning /\ next \in Owning
          /\ UNCHANGED <<claim, claimant, promoted>>
          /\ \A q \in Procs : q # p => step'[q] = step[q]
      BY <2>11, <3>1 DEF CreateManifest
    <3> HIDE DEF IInv, Owning, ProcessInv, ResultsAreTheClaimants, HoldoutOpenedOnce
    <3> QED
      BY <3>1, <3>3, <3>4, <3>5, OwnerStep
  <2>12. CASE WriteManifest(p)
    <3> HIDE DEF ClaimInv
    <3>1. PICK next \in {"completed"} : pc' = [pc EXCEPT ![p] = next]
      BY <2>12 DEF WriteManifest
    <3>2. ProcessInv(p)
      BY DEF IInv
    <3>3. ProcessInv(p)'
      <4>1. evaluation \in Manifest /\ evaluation.hashes = output
        BY <2>12, <3>2 DEF WriteManifest
      <4>2. /\ evaluation' \in Manifest
            /\ evaluation'.whole
            /\ evaluation'.hashes = output
        BY <2>12, <4>1 DEF WriteManifest
      <4>3. Evidenced'
        BY <2>12, <3>2, <4>2, NoneAssumption DEF WriteManifest
      <4> QED
        BY <2>12, <3>2, <4>3 DEF WriteManifest
    <3>4. ResultsAreTheClaimants' /\ HoldoutOpenedOnce'
      BY <2>12, <3>2 DEF WriteManifest
    <3>5. /\ pc[p] \in Owning /\ next \in Owning
          /\ UNCHANGED <<claim, claimant, promoted>>
          /\ \A q \in Procs : q # p => step'[q] = step[q]
      BY <2>12, <3>1 DEF WriteManifest
    <3> HIDE DEF IInv, Owning, ProcessInv, ResultsAreTheClaimants, HoldoutOpenedOnce
    <3> QED
      BY <3>1, <3>3, <3>4, <3>5, OwnerStep
  <2>13. CASE ReadStatus(p)
    BY <2>13, SMTT(60) DEF ReadStatus, Allowed
  <2>14. CASE ReplaceStatus(p)
    <3>1. CASE pc[p] = "invalidated"
      <4>1. /\ claim' = "invalidated" /\ claim # "absent"
            /\ UNCHANGED <<claimant, opened, promoted, output, evaluation>>
        BY <2>14, <3>1 DEF ReplaceStatus
      <4>2. \A q \in Procs : q # p => pc'[q] = pc[q] /\ step'[q] = step[q]
        BY <2>14 DEF ReplaceStatus
      <4>a. pc'[p] = "idle" /\ step'[p] = 1
        BY <2>14 DEF ReplaceStatus
      <4>3. \A q \in Procs : ProcessInv(q)'
        <5> SUFFICES ASSUME NEW q \in Procs PROVE ProcessInv(q)'
          OBVIOUS
        <5>1. ProcessInv(q)
          OBVIOUS
        <5>2. CASE q = p
          BY <4>a, <5>2
        <5>3. CASE q # p
          <6>1. pc'[q] = pc[q] /\ step'[q] = step[q]
            BY <4>2, <5>3
          <6> HIDE DEF TypeOK, Manifest, File, Outputs
          <6> QED
            BY <4>1, <5>1, <6>1
        <5> QED
          BY <5>2, <5>3
      <4>8. \A q \in Procs : /\ pc'[q] \in Promoting => pc[q] \in Promoting
                             /\ pc'[q] \in Owning => pc[q] \in Owning
        BY <4>2, <4>a
      <4>4. Finished => Finished'
        BY <4>8
      <4>5. Evidenced' <=> Evidenced
        BY <4>1
      <4>6. HoldoutOpenedOnce' /\ ResultsAreTheClaimants'
        BY <4>1
      <4>7. claim \in {"claimed", "completed", "failed", "invalidated", "torn"}
        BY <4>1
      <4> HIDE DEF ProcessInv, Evidenced, Finished, HoldoutOpenedOnce, ResultsAreTheClaimants,
                   Promoting, TypeOK
      <4>9. promoted \/ (\E q \in Procs : pc[q] \in Promoting) => Evidenced /\ Finished
        OBVIOUS
      <4> QED
        BY <4>1, <4>3, <4>4, <4>5, <4>6, <4>7, <4>8, <4>9
    <3>2. CASE pc[p] \in Owning
      <4>1. /\ p = claimant
            /\ claimant # None
            /\ claim \notin {"absent", "completed", "failed"}
            /\ \A q \in Procs : q # p => pc[q] \notin Owning
            /\ ~promoted
            /\ \A q \in Procs : pc[q] \notin Promoting
        BY <3>2, Owner
      <4>2. ProcessInv(p)
        OBVIOUS
      <4>3. \A q \in Procs : pc'[q] \notin Owning \cup Promoting
        BY <2>14, <4>1 DEF ReplaceStatus
      <4>4. claim' = pc[p] /\ claim' \in {"completed", "failed"}
        BY <2>14, <3>2 DEF ReplaceStatus
      <4>5. claim' = "completed" => Evidenced'
        BY <2>14, <4>2, <4>4 DEF ReplaceStatus
      <4>a. \A q \in Procs : q # p => pc'[q] = pc[q] /\ step'[q] = step[q]
        BY <2>14 DEF ReplaceStatus
      <4>b. pc'[p] = "idle" /\ step'[p] = 1
        BY <2>14 DEF ReplaceStatus
      <4>6. \A q \in Procs : ProcessInv(q)'
        BY <4>1, <4>3, <4>4, <4>a, <4>b
      <4>7. HoldoutOpenedOnce' /\ ResultsAreTheClaimants' /\ UNCHANGED <<claimant, opened, promoted>>
        BY <2>14 DEF ReplaceStatus
      <4> HIDE DEF ProcessInv, Evidenced, HoldoutOpenedOnce, ResultsAreTheClaimants, IInv
      <4> QED
        BY <4>1, <4>3, <4>4, <4>5, <4>6, <4>7
    <3> QED
      BY <2>14, <3>1, <3>2 DEF ReplaceStatus
  <2>15. CASE Invalidate(p)
    BY <2>15, SMTT(60) DEF Invalidate
  <2>16. CASE Fail(p)
    BY <2>16, SMTT(60) DEF Fail
  <2>17. CASE AuthorizeProduction(p)
    BY <2>17, SMTT(60) DEF AuthorizeProduction
  <2>18. CASE VerifyEvaluation(p)
    BY <2>18, SMTT(60) DEF VerifyEvaluation
  <2>19. CASE Promote(p)
    BY <2>19, SMTT(60) DEF Promote
  <2>20. CASE Kill(p)
    BY <2>20, SMTT(60) DEF Kill
  <2> QED
    BY <1>2, <2>1, <2>2, <2>3, <2>4, <2>5, <2>6, <2>7, <2>8, <2>9, <2>10, <2>11, <2>12, <2>13, <2>14, <2>15, <2>16, <2>17, <2>18, <2>19, <2>20 DEF Step
<1> QED
  BY <1>1, <1>2 DEF Next

\* The invariant holds in every reachable state.
THEOREM ClaimInvariant == Spec => []IInv
<1>1. IInv /\ [Next]_vars => IInv'
  BY TypeStep, ClaimStep DEF IInv, ClaimInv
<1> QED
  BY InitInv, <1>1, PTL DEF Spec

\* However many processes race, fail and die, the holdout is read once at most.
THEOREM OpenedOnce == Spec => []HoldoutOpenedOnce
<1>1. IInv => HoldoutOpenedOnce
  BY DEF IInv
<1> QED
  BY ClaimInvariant, <1>1, PTL

\* A claim that reads completed has its whole evaluation behind it.
THEOREM CompletionIsEvidence == Spec => []CompletedIsWhole
<1>1. IInv => CompletedIsWhole
  BY DEF IInv, CompletedIsWhole
<1> QED
  BY ClaimInvariant, <1>1, PTL

\* A production version is promoted on one whole evaluation that nobody recorded
\* as failed.
THEOREM PromotionIsEvidenced == Spec => []PromotedOnEvidence
<1>1. IInv => PromotedOnEvidence
  BY DEF IInv, PromotedOnEvidence
<1> QED
  BY ClaimInvariant, <1>1, PTL

\* No step removes a claim, or rewrites a failed or completed one into anything
\* but an invalidated one.
THEOREM EvidenceStays == Spec => EvidenceKept
<1> DEFINE Kept == /\ claim # "absent" => claim' # "absent"
                   /\ claim \in {"completed", "failed"} => claim' \in {claim, "invalidated"}
<1>1. IInv /\ [Next]_vars => [Kept]_vars
  <2> SUFFICES ASSUME IInv, NEW p \in Procs, Step(p) PROVE Kept
    BY DEF Next
  <2>1. CASE UNCHANGED claim
    BY <2>1
  <2>2. CASE CreateClaim(p) \/ WriteClaim(p) \/ ReplaceStatus(p)
    BY <2>2 DEF IInv, ProcessInv, CreateClaim, WriteClaim, ReplaceStatus
  <2> QED
    BY <2>1, <2>2 DEF Step, Develop, Freeze, WriteRunManifest, Preflight, ClaimExists,
        OpenHoldout, CreateOutput, WriteOutput, CreateManifest, WriteManifest, ReadStatus,
        Invalidate, Fail, AuthorizeProduction, VerifyEvaluation, Promote, Kill, files
<1> QED
  BY ClaimInvariant, <1>1, PTL DEF Spec, EvidenceKept
=============================================================================
