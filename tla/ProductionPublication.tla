------------------------ MODULE ProductionPublication ------------------------
(***************************************************************************)
(* train_versioned_production_model of Phase 1 (workflow.py) after its     *)
(* evaluation was accepted (HoldoutRun): a prepared bundle is loaded, a    *)
(* model is fitted, and a version is staged in a hidden directory under a  *)
(* lock file, synced, renamed to its name and synced again.                *)
(*                                                                         *)
(* Others may prepare new data at any time, and processes may fail or die  *)
(* at every step; the lock of a process that died is never removed.        *)
(***************************************************************************)
EXTENDS Integers, FiniteSets, TLC

CONSTANTS
    Procs,
    Bundles,        \* prepared datasets (PreparedData)
    Versions,       \* version names
    None,
    Artifacts,      \* staged files besides the manifest (3)
    MaxCrashes      \* bound on host crashes

VARIABLES
    prepared,       \* the bundle the prepared manifest completes
    locks,          \* the lock files there are
    version,        \* what each name shows, or None
    durable,        \* the names whose directory entry is synced
    pc,
    bundle,         \* the bundle a process trains on, or None
    name,           \* the version it publishes, or None
    staging,        \* its staging directory
    told,           \* history: what a publisher was told it published
    crashes

disk == <<prepared, locks, version, durable>>
vars == <<disk, pc, bundle, name, staging, told, crashes>>

\* A directory: whose, of which bundle, how many of the files are in it, and
\* whether its own entries are synced.
NoStaging  == [files |-> 0, complete |-> FALSE, synced |-> FALSE]
Staging    == [files: 0..Artifacts, complete: BOOLEAN, synced: BOOLEAN]
Directory  == [author: Procs, bundle: Bundles, content: Staging]

\* What the constants must be.
PublicationAssumption ==
    /\ Artifacts \in Nat \ {0}
    /\ MaxCrashes \in Nat
    /\ None \notin Versions \cup Bundles \cup Directory

Locked  == {"check", "stage", "recheck", "complete", "sync", "publish", "confirm", "return"}
Phases  == {"idle", "train", "lock"} \cup Locked

\* Locks, names and what the processes stage are typed.
TypeOK ==
    /\ prepared \in Bundles
    /\ locks \subseteq Versions
    /\ version \in [Versions -> Directory \cup {None}]
    /\ durable \subseteq Versions
    /\ pc \in [Procs -> Phases]
    /\ bundle \in [Procs -> Bundles \cup {None}]
    /\ name \in [Procs -> Versions \cup {None}]
    /\ staging \in [Procs -> Staging]
    /\ told \in [Versions -> Directory \cup {None}]

Init ==
    /\ prepared \in Bundles
    /\ locks = {}
    /\ version = [v \in Versions |-> None]
    /\ durable = {}
    /\ pc = [p \in Procs |-> "idle"]
    /\ bundle = [p \in Procs |-> None]
    /\ name = [p \in Procs |-> None]
    /\ staging = [p \in Procs |-> NoStaging]
    /\ told = [v \in Versions |-> None]
    /\ crashes = 0

Goto(p, phase) == pc' = [pc EXCEPT ![p] = phase]

\* A staging directory that is left behind is hidden and is never looked at.
Leave(p) ==
    /\ Goto(p, "idle")
    /\ bundle' = [bundle EXCEPT ![p] = None]
    /\ name' = [name EXCEPT ![p] = None]
    /\ staging' = [staging EXCEPT ![p] = NoStaging]

Unlock(p) == locks' = locks \ {name[p]}

-----------------------------------------------------------------------------
\* The bundle is captured, bytes of its manifest included.
Load(p) ==
    /\ pc[p] = "idle"
    /\ bundle' = [bundle EXCEPT ![p] = prepared]
    /\ Goto(p, "train")
    /\ UNCHANGED <<disk, name, staging, told, crashes>>

\* The fitted model counts if the prepared manifest is still the one; the name
\* is made of the time and the commit, and may be another process's too.
Train(p, v) ==
    /\ pc[p] = "train"
    /\ prepared = bundle[p]
    /\ name' = [name EXCEPT ![p] = v]
    /\ Goto(p, "lock")
    /\ UNCHANGED <<disk, bundle, staging, told, crashes>>

\* _production_publication_lock: exclusive creation of the lock file.
Lock(p) ==
    /\ pc[p] = "lock"
    /\ name[p] \notin locks
    /\ locks' = locks \cup {name[p]}
    /\ Goto(p, "check")
    /\ UNCHANGED <<prepared, version, durable, bundle, name, staging, told, crashes>>

CheckVersion(p) ==
    /\ pc[p] = "check"
    /\ version[name[p]] = None
    /\ Goto(p, "stage")
    /\ UNCHANGED <<disk, bundle, name, staging, told, crashes>>

\* The model, the schema and the captured manifest, each synced before it has
\* its name.
Stage(p) ==
    /\ pc[p] = "stage"
    /\ staging' = [staging EXCEPT ![p].files = @ + 1]
    /\ Goto(p, IF staging[p].files + 1 = Artifacts THEN "recheck" ELSE "stage")
    /\ UNCHANGED <<disk, bundle, name, told, crashes>>

\* The prepared manifest must still be the one the model was fitted to ...
Recheck(p) ==
    /\ pc[p] = "recheck"
    /\ prepared = bundle[p]
    /\ Goto(p, "complete")
    /\ UNCHANGED <<disk, bundle, name, staging, told, crashes>>

\* ... and the version's own manifest is written and everything read again.
CompleteStaging(p) ==
    /\ pc[p] = "complete"
    /\ staging' = [staging EXCEPT ![p].complete = TRUE]
    /\ Goto(p, "sync")
    /\ UNCHANGED <<disk, bundle, name, told, crashes>>

\* Mutant of SyncStaging: the staging directory is not synced.
SyncStaging_skipped(p) ==
    /\ pc[p] = "sync"
    /\ Goto(p, "publish")
    /\ UNCHANGED <<disk, bundle, name, staging, told, crashes>>

SyncStaging(p) ==
    /\ pc[p] = "sync"
    /\ staging' = [staging EXCEPT ![p].synced = TRUE]
    /\ Goto(p, "publish")
    /\ UNCHANGED <<disk, bundle, name, told, crashes>>

\* One rename that refuses an existing name.
Publish(p) ==
    /\ pc[p] = "publish"
    /\ version[name[p]] = None
    /\ version' = [version EXCEPT ![name[p]] =
                     [author |-> p, bundle |-> bundle[p], content |-> staging[p]]]
    /\ Goto(p, "confirm")
    /\ UNCHANGED <<prepared, locks, durable, bundle, name, staging, told, crashes>>

\* Mutant of ConfirmVersion: the parent directory is not synced.
ConfirmVersion_skipped(p) ==
    /\ pc[p] = "confirm"
    /\ Goto(p, "return")
    /\ UNCHANGED <<disk, bundle, name, staging, told, crashes>>

\* The parent directory is synced; an error here is raised although the version
\* is published.
ConfirmVersion(p) ==
    /\ pc[p] = "confirm"
    /\ durable' = durable \cup {name[p]}
    /\ Goto(p, "return")
    /\ UNCHANGED <<prepared, locks, version, bundle, name, staging, told, crashes>>

\* The lock is removed and the version returned.
Return(p) ==
    /\ pc[p] = "return"
    /\ Unlock(p)
    /\ told' = [told EXCEPT ![name[p]] = version[name[p]]]
    /\ Leave(p)
    /\ UNCHANGED <<prepared, version, durable, crashes>>

\* A failed check or call: the staging directory and the own lock are removed,
\* a version that is published is not.
Fail(p) ==
    /\ pc[p] \notin {"idle", "return"}
    /\ IF pc[p] \in Locked THEN Unlock(p) ELSE UNCHANGED locks
    /\ Leave(p)
    /\ UNCHANGED <<prepared, version, durable, told, crashes>>

\* The process dies: its lock stays.
Kill(p) ==
    /\ pc[p] # "idle"
    /\ Leave(p)
    /\ UNCHANGED <<disk, told, crashes>>

-----------------------------------------------------------------------------
\* prepare_datasets completes another bundle (PreparedData).
Prepare(b) ==
    /\ b # prepared
    /\ prepared' = b
    /\ UNCHANGED <<locks, version, durable, pc, bundle, name, staging, told, crashes>>

\* A name that is not synced may vanish; so may the entries of a directory that
\* is not, and any lock.
Shown(v, kept) ==
    IF version[v] = None \/ v \notin durable \cup kept THEN {None}
    ELSE IF version[v].content.synced THEN {version[v]}
    ELSE {[version[v] EXCEPT !.content.files = n, !.content.complete = c] :
              n \in 0..version[v].content.files, c \in BOOLEAN}

HostCrash ==
    /\ crashes < MaxCrashes
    /\ crashes' = crashes + 1
    /\ \E kept \in SUBSET Versions :
          LET any == UNION {Shown(v, kept) : v \in Versions}
          IN  version' \in {after \in [Versions -> any] :
                              \A v \in Versions : after[v] \in Shown(v, kept)}
    /\ locks' \in SUBSET locks
    /\ pc' = [p \in Procs |-> "idle"]
    /\ bundle' = [p \in Procs |-> None]
    /\ name' = [p \in Procs |-> None]
    /\ staging' = [p \in Procs |-> NoStaging]
    /\ UNCHANGED <<prepared, durable, told>>

Step(p) ==
    \/ Load(p) \/ Lock(p) \/ CheckVersion(p) \/ Stage(p) \/ Recheck(p) \/ CompleteStaging(p)
    \/ SyncStaging(p) \/ Publish(p) \/ ConfirmVersion(p) \/ Return(p) \/ Fail(p) \/ Kill(p)
    \/ \E v \in Versions : Train(p, v)

Next ==
    \/ \E p \in Procs : Step(p)
    \/ \E b \in Bundles : Prepare(b)
    \/ HostCrash

Spec == Init /\ [][Next]_vars

-----------------------------------------------------------------------------
\* A version is seen whole or not at all: whoever died, lost a race or a disk's
\* memory, a directory under a version's name has all files and its manifest.
VersionsWhole ==
    \A v \in Versions : version[v] # None =>
        version[v].content.files = Artifacts /\ version[v].content.complete

\* A name is filled once, and for good when its publisher was told so; one whose
\* publisher was not told may stay all the same.
Promise == INSTANCE WriteOnce WITH
    Names <- Versions, Contents <- Directory, value <- version

ImplementsWriteOnce == Promise!Spec
=============================================================================
