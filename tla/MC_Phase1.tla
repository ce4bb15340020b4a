----------------------------- MODULE MC_Phase1 ------------------------------
(***************************************************************************)
(* Phase 1 of the workflow in one run: the prepared data, the run with its *)
(* holdout, and the publication of a production model.  They hand finished *)
(* files to each other, so a behaviour exercises one of them, named by     *)
(* `part`, and the others stay as they began.                              *)
(***************************************************************************)
EXTENDS HoldoutRun, TLC

CONSTANTS
    Trainers,       \* two processes that prepare, load or publish
    Snapshots,      \* three of them
    Corrected,      \* the two that differ in the warm-up only, or their bundles
    Versions,
    Artifacts,      \* two staged files
    MaxPrepares,
    MaxCrashes

VARIABLES
    part,
    feature, labeled, onDisk, kept, preparer, held, loaded, prepares, failures,    \* PreparedData
    prepared, locks, version, durable, trainer, bundle, name, staging, told, crashes
                                                                \* ProductionPublication

preparedVars   == <<feature, labeled, onDisk, kept, preparer, held, loaded, prepares, failures>>
productionVars == <<prepared, locks, version, durable, trainer, bundle, name, staging, told,
                    crashes>>

-----------------------------------------------------------------------------
\* The candles of a snapshot after the warm-up, named by who has them.
CandlesOf == [s \in Snapshots |-> IF s \in Corrected THEN Corrected ELSE {s}]

\* Two processes that prepare or load, three snapshots.
Prepared == INSTANCE PreparedData WITH
    Procs <- Trainers, Sources <- Snapshots, Candles <- CandlesOf,
    manifest <- onDisk, pc <- preparer, crashes <- failures

\* Two trainers, two bundles, two names, two staged files.
Production == INSTANCE ProductionPublication WITH
    Procs <- Trainers, Bundles <- Corrected, pc <- trainer

ASSUME Phase1Assumption == Prepared!PreparedAssumption /\ Production!PublicationAssumption

-----------------------------------------------------------------------------
\* Where the publication waits when it is not exercised: nothing is prepared.
ProductionWaits ==
    /\ prepared = None
    /\ locks = {} /\ durable = {}
    /\ version = [v \in Versions |-> None] /\ told = version
    /\ trainer = [p \in Trainers |-> "idle"]
    /\ bundle = [p \in Trainers |-> None] /\ name = bundle
    /\ staging = [p \in Trainers |-> Production!NoStaging]
    /\ crashes = 0

InitPart ==
    /\ part \in {"holdout", "prepared", "production"}
    /\ Init /\ Prepared!Init
    /\ IF part = "production" THEN Production!Init ELSE ProductionWaits

NextPart ==
    \/ part = "holdout"    /\ Next            /\ UNCHANGED <<part, preparedVars, productionVars>>
    \/ part = "prepared"   /\ Prepared!Next   /\ UNCHANGED <<part, vars, productionVars>>
    \/ part = "production" /\ Production!Next /\ UNCHANGED <<part, vars, preparedVars>>

SpecPart == InitPart /\ [][NextPart]_<<part, vars, preparedVars, productionVars>>

Symmetry == Permutations(Trainers) \cup Permutations(Corrected)

-----------------------------------------------------------------------------
\* PreparedData: a bundle prepared alone is loaded as it was prepared.
PreparedAloneIsOne == Prepared!PreparedAloneIsOne

\* PreparedData: every loaded bundle is of the snapshot its manifest names.
BundleIsOne == Prepared!BundleIsOne

\* ProductionPublication: a version is seen whole or not at all.
VersionsWhole == Production!VersionsWhole

\* ProductionPublication: a name is filled once, for good when that was said.
ImplementsWriteOnce == Production!ImplementsWriteOnce
=============================================================================
