-------------------------- MODULE ProductionVersions ------------------------
(***************************************************************************)
(* ProductionStore of phase2/production_store.py, and the engine and the   *)
(* registry of phase2/production.py over it.  A version is a directory     *)
(* reserved under its public name and completed in place: payloads first,  *)
(* the manifest renamed into it last.  Trainer and reader verify, several  *)
(* times, that the evaluation the version rests on is still accepted; the  *)
(* evaluation may be invalidated beside them.  A publication that fails    *)
(* takes its manifest back; the name stays taken.                          *)
(***************************************************************************)
EXTENDS EvaluationSource, Integers

CONSTANTS
    Trainers,       \* calls of OfflineProductionEngine.train, each made once
    Readers,        \* processes that call ProductionRegistry.get
    Versions,       \* model versions
    Payloads        \* how many payload files a version has

ASSUME ProductionAssumption ==
    /\ Payloads \in Nat \ {0}
    /\ None \notin Trainers

VARIABLES
    version,        \* the version directories
    lock,           \* who holds the flock of .lock-<version>, or None
    pc,             \* trainers
    target,         \* the version a trainer makes, or None
    reading,        \* what a reader is at, or None
    reads           \* history: what reads returned

store == <<version, lock, pc, target, reading, reads>>
vars  == <<source, store>>

\* A version directory: whether its own entry and its payloads' are fsynced,
\* and its manifest, renamed into place, fsynced there, unlinked again, or gone.
Directory == [by: Trainers, payloads: 0..Payloads, synced: BOOLEAN, entry: BOOLEAN,
              manifest: {"none", "renamed", "present", "unlinked", "removed"}]

ASSUME NoneIsNothing == None \notin Directory

Owning == {"sync_parent", "payload", "sync_tree", "complete", "sync_version",
           "sync_versions", "verify"}
Over   == {"returned", "raised", "dead"}

Read == [version: Versions, by: Trainers, late: BOOLEAN]

\* Directories, locks, trainers and readers are typed.
TypeOK ==
    /\ SourceTypeOK
    /\ version \in [Versions -> Directory \cup {None}]
    /\ lock \in [Versions -> Trainers \cup {None}]
    /\ pc \in [Trainers -> {"new", "fit", "lock", "reserve", "unlink", "sync_unlink"}
                              \cup Owning \cup Over]
    /\ target \in [Trainers -> Versions \cup {None}]
    /\ reading \in [Readers -> [read: Read, step: {"source", "replay", "capture"}] \cup {None}]
    /\ reads \subseteq Read

Init ==
    /\ SourceInit
    /\ version = [v \in Versions |-> None]
    /\ lock = [v \in Versions |-> None]
    /\ pc = [t \in Trainers |-> "new"]
    /\ target = [t \in Trainers |-> None]
    /\ reading = [r \in Readers |-> None]
    /\ reads = {}

Goto(t, phase) == pc' = [pc EXCEPT ![t] = phase]

\* The lock's descriptor is closed, by the with block or by the kernel.
Unlock(t) == lock' = [v \in Versions |-> IF lock[v] = t THEN None ELSE lock[v]]

\* _capture: a manifest and exactly the payloads it inventories.
Readable(v) ==
    /\ version[v] # None
    /\ version[v].manifest \in {"renamed", "present"}
    /\ version[v].payloads = Payloads

-----------------------------------------------------------------------------
\* train

\* assert_available, an early guard only.
Train(t, v) ==
    /\ pc[t] = "new"
    /\ version[v] = None
    /\ target' = [target EXCEPT ![t] = v]
    /\ Goto(t, "fit")
    /\ UNCHANGED <<source, version, lock, reading, reads>>

\* _Source.capture reads a verified evaluation, and the model is fitted to it.
FitCandidate(t) ==
    /\ pc[t] = "fit"
    /\ visible
    /\ Goto(t, "lock")
    /\ UNCHANGED <<source, version, lock, target, reading, reads>>

\* The flock is taken without waiting.
LockVersion(t) ==
    /\ pc[t] = "lock"
    /\ lock[target[t]] = None
    /\ lock' = [lock EXCEPT ![target[t]] = t]
    /\ Goto(t, "reserve")
    /\ UNCHANGED <<source, version, target, reading, reads>>

Reservation(t) ==
    [by |-> t, payloads |-> 0, synced |-> FALSE, entry |-> FALSE, manifest |-> "none"]

\* Under the lock: the name is free, the source still verifies, mkdir.
ReserveVersion(t) ==
    /\ pc[t] = "reserve"
    /\ visible
    /\ version[target[t]] = None
    /\ version' = [version EXCEPT ![target[t]] = Reservation(t)]
    /\ Goto(t, "sync_parent")
    /\ UNCHANGED <<source, lock, target, reading, reads>>

\* The fsync of the versions root, of every entry in it.
RootSynced == [v \in Versions |-> IF version[v] = None THEN None
                                  ELSE [version[v] EXCEPT !.entry = TRUE]]

SyncReservation(t) ==
    /\ pc[t] = "sync_parent"
    /\ version' = RootSynced
    /\ Goto(t, "payload")
    /\ UNCHANGED <<source, lock, target, reading, reads>>

WritePayload(t) ==
    /\ pc[t] = "payload"
    /\ version' = [version EXCEPT ![target[t]].payloads = @ + 1,
                                  ![target[t]].synced = FALSE]
    /\ Goto(t, IF version[target[t]].payloads + 1 = Payloads THEN "sync_tree" ELSE "payload")
    /\ UNCHANGED <<source, lock, target, reading, reads>>

SyncTree(t) ==
    /\ pc[t] = "sync_tree"
    /\ version' = [version EXCEPT ![target[t]].synced = TRUE]
    /\ Goto(t, "complete")
    /\ UNCHANGED <<source, lock, target, reading, reads>>

\* The manifest is written and fsynced under a pending name, then renamed.
Complete(t) ==
    /\ pc[t] = "complete"
    /\ version' = [version EXCEPT ![target[t]].manifest = "renamed"]
    /\ Goto(t, "sync_version")
    /\ UNCHANGED <<source, lock, target, reading, reads>>

\* Mutant of SyncVersion: the version's directory is not fsynced.
SyncVersion_skipped(t) ==
    /\ pc[t] = "sync_version"
    /\ Goto(t, "sync_versions")
    /\ UNCHANGED <<source, version, lock, target, reading, reads>>

SyncVersion(t) ==
    /\ pc[t] = "sync_version"
    /\ version' = [version EXCEPT ![target[t]].manifest = "present",
                                  ![target[t]].synced = TRUE]
    /\ Goto(t, "sync_versions")
    /\ UNCHANGED <<source, lock, target, reading, reads>>

SyncVersions(t) ==
    /\ pc[t] = "sync_versions"
    /\ version' = RootSynced
    /\ Goto(t, "verify")
    /\ UNCHANGED <<source, lock, target, reading, reads>>

\* The version is captured, its source verified again, captured again; the lock
\* is released and train returns.
VerifyVersion(t) ==
    /\ pc[t] = "verify"
    /\ visible /\ Readable(target[t])
    /\ Unlock(t)
    /\ Goto(t, "returned")
    /\ UNCHANGED <<source, version, target, reading, reads>>

\* A refusal, a failed system call or a source that no longer verifies.  The
\* lock goes first; a reserved directory is then rolled back, but a mkdir whose
\* check failed leaves one behind.
TrainFails(t) ==
    /\ \/ /\ pc[t] \in {"fit", "lock", "reserve"} /\ Goto(t, "raised")
          /\ UNCHANGED version
       \/ /\ pc[t] = "reserve" /\ visible /\ version[target[t]] = None
          /\ Goto(t, "raised")
          /\ version' = [version EXCEPT ![target[t]] = Reservation(t)]
       \/ /\ pc[t] \in Owning /\ Goto(t, "unlink")
          /\ UNCHANGED version
    /\ Unlock(t)
    /\ UNCHANGED <<source, target, reading, reads>>

\* _rollback_owned_directory, through the pinned inode and without the lock.
UnlinkManifest(t) ==
    /\ pc[t] = "unlink"
    /\ version' = [version EXCEPT ![target[t]].manifest =
           CASE @ = "none" -> "none" [] OTHER -> "unlinked"]
    /\ Goto(t, "sync_unlink")
    /\ UNCHANGED <<source, lock, target, reading, reads>>

\* Mutant of SyncUnlink: the directory is not fsynced.
SyncUnlink_skipped(t) ==
    /\ pc[t] = "sync_unlink"
    /\ Goto(t, "raised")
    /\ UNCHANGED <<source, version, lock, target, reading, reads>>

SyncUnlink(t) ==
    /\ pc[t] = "sync_unlink"
    /\ version' = [version EXCEPT ![target[t]].manifest =
                                      CASE @ = "none" -> "none" [] OTHER -> "removed",
                                  ![target[t]].synced = TRUE]
    /\ Goto(t, "raised")
    /\ UNCHANGED <<source, lock, target, reading, reads>>

\* The rollback fails, or the process is killed.
Die(t) ==
    /\ pc[t] \notin Over \cup {"new"}
    /\ Unlock(t)
    /\ Goto(t, "dead")
    /\ UNCHANGED <<source, version, target, reading, reads>>

-----------------------------------------------------------------------------
\* ProductionRegistry.get

BeginRead(r, v) ==
    /\ reading[r] = None
    /\ Readable(v)
    /\ reading' = [reading EXCEPT ![r] =
           [read |-> [version |-> v, by |-> version[v].by, late |-> verdict = "raised"],
            step |-> "source"]]
    /\ UNCHANGED <<source, version, lock, pc, target, reads>>

\* Mutant of VerifySource: the version's own bytes are enough.
VerifySource_skipped(r) ==
    /\ reading[r] # None /\ reading[r].step \in {"source", "replay"}
    /\ reading' = [reading EXCEPT ![r].step = "capture"]
    /\ UNCHANGED <<source, version, lock, pc, target, reads>>

\* The source is captured, the fit replayed, the source captured again.
VerifySource(r) ==
    /\ reading[r] # None /\ reading[r].step \in {"source", "replay"}
    /\ visible
    /\ reading' = [reading EXCEPT ![r].step = IF @ = "source" THEN "replay" ELSE "capture"]
    /\ UNCHANGED <<source, version, lock, pc, target, reads>>

\* The second capture finds the same bytes, and the read returns.
EndRead(r) ==
    /\ reading[r] # None /\ reading[r].step = "capture"
    /\ Readable(reading[r].read.version)
    /\ version[reading[r].read.version].by = reading[r].read.by
    /\ reads' = reads \cup {reading[r].read}
    /\ reading' = [reading EXCEPT ![r] = None]
    /\ UNCHANGED <<source, version, lock, pc, target>>

ReadFails(r) ==
    /\ reading[r] # None
    /\ reading' = [reading EXCEPT ![r] = None]
    /\ UNCHANGED <<source, version, lock, pc, target, reads>>

-----------------------------------------------------------------------------
\* What a crash of the host leaves of a directory.
Remains(v, left, back) ==
    [version[v] EXCEPT !.entry = TRUE, !.synced = TRUE,
        !.payloads = IF version[v].synced \/ left[v] > @ THEN @ ELSE left[v],
        !.manifest = CASE @ = "renamed"  -> IF v \in back THEN "present" ELSE "none"
                       [] @ = "unlinked" -> IF v \in back THEN "present" ELSE "removed"
                       [] OTHER -> @]

HostCrash ==
    /\ \E lost \in SUBSET {v \in Versions : version[v] # None /\ ~version[v].entry},
          left \in [Versions -> 0..Payloads], back \in SUBSET Versions :
          version' = [v \in Versions |-> IF version[v] = None \/ v \in lost THEN None
                                         ELSE Remains(v, left, back)]
    /\ lock' = [v \in Versions |-> None]
    /\ pc' = [t \in Trainers |-> IF pc[t] \in Over \cup {"new"} THEN pc[t] ELSE "dead"]
    /\ reading' = [r \in Readers |-> None]
    /\ UNCHANGED <<source, target, reads>>

TrainStep(t) ==
    \/ \E v \in Versions : Train(t, v)
    \/ FitCandidate(t) \/ LockVersion(t) \/ ReserveVersion(t) \/ SyncReservation(t)
    \/ WritePayload(t) \/ SyncTree(t) \/ Complete(t) \/ SyncVersion(t) \/ SyncVersions(t)
    \/ VerifyVersion(t) \/ TrainFails(t) \/ UnlinkManifest(t) \/ SyncUnlink(t) \/ Die(t)

ReadStep(r) ==
    \/ \E v \in Versions : BeginRead(r, v)
    \/ VerifySource(r) \/ EndRead(r) \/ ReadFails(r)

Next ==
    \/ \E t \in Trainers : TrainStep(t)
    \/ \E r \in Readers : ReadStep(r)
    \/ HostCrash
    \/ SourceNext /\ UNCHANGED store

Spec == Init /\ [][Next]_vars

-----------------------------------------------------------------------------
\* All reads of a version that ever return, before and after crashes, failed
\* publications and rollbacks, return the same model, and none that begins
\* after its evaluation was invalidated returns.
ReadsStand ==
    \A x, y \in reads : ~x.late /\ (x.version = y.version => x.by = y.by)

\* A train call that raised, its rollback done, leaves no version, not even to a
\* crash that undoes what was not fsynced.
RaisedIsWithdrawn == \A v \in Versions : Readable(v) => pc[version[v].by] # "raised"

TrainerInv(t) ==
    /\ pc[t] # "new" => target[t] \in Versions
    /\ pc[t] \in Owning \cup {"unlink", "sync_unlink"} =>
          version[target[t]] # None /\ version[target[t]].by = t
    /\ pc[t] = "sync_parent" => version[target[t]].payloads = 0
    /\ pc[t] = "payload" => version[target[t]].payloads < Payloads

VersionInv(v) ==
    version[v] # None =>
        LET t == version[v].by
        IN  /\ target[t] = v
            /\ pc[t] \in Owning \cup {"unlink", "sync_unlink"} \cup Over
            /\ pc[t] = "raised" => version[v].manifest \in {"none", "removed"}

\* The inductive invariant behind RaisedIsWithdrawn: a version belongs to the
\* trainer that reserved it, and when that one raises nothing on disk can bring
\* the manifest back.
IInv ==
    /\ TypeOK
    /\ \A t \in Trainers : TrainerInv(t)
    /\ \A v \in Versions : VersionInv(v)

\* A read's version is there to stay.
Settled(x) ==
    /\ version[x.version] # None
    /\ version[x.version].by = x.by
    /\ version[x.version].entry

\* A version is reserved durably before its manifest is renamed into it.
Durable ==
    /\ \A v \in Versions :
          version[v] # None /\ version[v].manifest # "none" => version[v].entry
    /\ \A t \in Trainers :
          pc[t] \in Owning \ {"sync_parent"} => version[target[t]].entry

\* The invariant behind ReadsStand: what is read is durable, and an evaluation
\* once invalidated stops a read at its first look.
ReadInv ==
    /\ Durable
    /\ verdict = "raised" => ~visible
    /\ \A r \in Readers : reading[r] # None =>
          /\ Settled(reading[r].read)
          /\ reading[r].read.late => verdict = "raised" /\ reading[r].step = "source"
    /\ \A x \in reads : Settled(x) /\ ~x.late

\* The versions implement a write-once store: what train returned for is never
\* lost, replaced or changed.
Store == INSTANCE WriteOnce WITH
    Names    <- Versions,
    Contents <- Trainers,
    value    <- [v \in Versions |-> IF Readable(v) THEN version[v].by ELSE None],
    told     <- [v \in Versions |->
                    IF \E t \in Trainers : pc[t] = "returned" /\ target[t] = v
                    THEN CHOOSE t \in Trainers : pc[t] = "returned" /\ target[t] = v
                    ELSE None]

ImplementsWriteOnce == Store!Spec
=============================================================================
