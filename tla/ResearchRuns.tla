---------------------------- MODULE ResearchRuns ----------------------------
(***************************************************************************)
(* The Phase 2 publications: a prepared dataset (phase2/dataset.py), the   *)
(* experiments run on it (phase2/experiments.py) and the reports made of   *)
(* an experiment (phase2/artifacts.py, phase2/backtests.py).  Experiments  *)
(* and reports share one directory of runs.  Every publication is staged   *)
(* under a hidden name, completed by its manifest, synced and renamed; a   *)
(* run that fails is invalidated through the directory it staged, never    *)
(* through its name.                                                       *)
(*                                                                         *)
(* A process makes one call.  What it publishes is determined by its       *)
(* parents, so a directory is the process that staged it, and its content  *)
(* is which of its entries are there.                                      *)
(***************************************************************************)
EXTENDS Integers, FiniteSets, TLC

CONSTANTS
    Procs,
    Runs,           \* run identifiers
    Dataset,        \* the name of the prepared dataset
    None,
    MaxCrashes      \* bound on host crashes

\* What the constants must be.
RunsAssumption ==
    /\ MaxCrashes \in Nat
    /\ Dataset \notin Runs /\ None \notin Procs \cup Runs \cup {Dataset}
    /\ None \notin {"published", "found", "failed", "notInvalidated"}

VARIABLES
    call,       \* what a process was asked to publish, or None
    pc,
    dir,        \* the entries of each process's staged directory
    dirKept,    \* those the disk has
    entry,      \* the directory each name shows, or None
    entryKept,  \* the one the disk has
    outcome,    \* what each process was told, or None
    crashes

disk == <<dir, dirKept, entry, entryKept>>
vars == <<call, pc, disk, outcome, crashes>>

Names   == Runs \cup {Dataset}
Entries == {"payload", "manifest"}
Calls   == [kind: {"dataset"}, name: {Dataset}, source: {None}]
             \cup [kind: {"experiment"}, name: Runs, source: {None}]
             \cup [kind: {"report"}, name: Runs, source: Runs]

Staging == {"stage", "complete", "capture", "sync", "rename", "keep", "confirm"}
Phases  == {"idle", "rollback", "invalidated", "done"} \cup Staging

TypeOK ==
    /\ call \in [Procs -> Calls \cup {None}]
    /\ pc \in [Procs -> Phases]
    /\ dir \in [Procs -> SUBSET Entries] /\ dirKept \in [Procs -> SUBSET Entries]
    /\ entry \in [Names -> Procs \cup {None}] /\ entryKept \in [Names -> Procs \cup {None}]
    /\ outcome \in [Procs -> {None, "published", "found", "failed", "notInvalidated"}]

\* A capture needs the manifest and every file it lists.
Whole(p) == dir[p] = Entries

\* get: the run is captured at its name, and what it was made of is read again
\* and replayed.
DatasetReads         == entry[Dataset] # None /\ Whole(entry[Dataset])
RunReads(r, kind) == entry[r] # None /\ Whole(entry[r]) /\ call[entry[r]].kind = kind
ExperimentReads(r)   == RunReads(r, "experiment") /\ DatasetReads
ReportReads(r)       == RunReads(r, "report") /\ ExperimentReads(call[entry[r]].source)

ParentsRead(c) ==
    CASE c.kind = "dataset"    -> TRUE      \* its parents are the CAS (ContentStore)
      [] c.kind = "experiment" -> DatasetReads
      [] c.kind = "report"     -> ExperimentReads(c.source)

-----------------------------------------------------------------------------
Init ==
    /\ call = [p \in Procs |-> None]
    /\ pc = [p \in Procs |-> "idle"]
    /\ dir = [p \in Procs |-> {}] /\ dirKept = [p \in Procs |-> {}]
    /\ entry = [n \in Names |-> None] /\ entryKept = [n \in Names |-> None]
    /\ outcome = [p \in Procs |-> None]
    /\ crashes = 0

Goto(p, phase)   == pc' = [pc EXCEPT ![p] = phase]
Tell(p, result)  == outcome' = [outcome EXCEPT ![p] = result] /\ Goto(p, "done")

\* publish verifies the parents before it stages; a dataset that is already
\* there is compared and returned, and nothing is synced for it.
Begin(p, c) ==
    /\ pc[p] = "idle"
    /\ c.name # c.source
    /\ call' = [call EXCEPT ![p] = c]
    /\ IF ~ParentsRead(c) \/ (c.kind = "dataset" /\ entry[Dataset] # None /\ ~DatasetReads)
       THEN Tell(p, "failed")
       ELSE IF c.kind = "dataset" /\ DatasetReads
            THEN Tell(p, "found")
            ELSE Goto(p, "stage") /\ UNCHANGED outcome
    /\ UNCHANGED <<disk, crashes>>

\* Every payload is written, synced and read back, then the manifest.
Stage(p) ==
    /\ pc[p] = "stage"
    /\ dir' = [dir EXCEPT ![p] = {"payload"}]
    /\ Goto(p, "complete")
    /\ UNCHANGED <<call, dirKept, entry, entryKept, outcome, crashes>>

Complete(p) ==
    /\ pc[p] = "complete"
    /\ dir' = [dir EXCEPT ![p] = @ \cup {"manifest"}]
    /\ Goto(p, "capture")
    /\ UNCHANGED <<call, dirKept, entry, entryKept, outcome, crashes>>

Capture(p) ==
    /\ pc[p] = "capture"
    /\ Whole(p)
    /\ Goto(p, "sync")
    /\ UNCHANGED <<call, disk, outcome, crashes>>

\* Mutant of SyncTree: the staged tree is not synced.
SyncTree_skipped(p) ==
    /\ pc[p] = "sync"
    /\ Goto(p, "rename")
    /\ UNCHANGED <<call, disk, outcome, crashes>>

SyncTree(p) ==
    /\ pc[p] = "sync"
    /\ dirKept' = [dirKept EXCEPT ![p] = dir[p]]
    /\ Goto(p, "rename")
    /\ UNCHANGED <<call, dir, entry, entryKept, outcome, crashes>>

\* A name that is taken is refused.  A dataset's publisher then reads the
\* winner and returns it.  The call may also raise although it renamed.
Rename(p) ==
    /\ pc[p] = "rename"
    /\ LET n == call[p].name
       IN \/ /\ entry[n] = None
             /\ entry' = [entry EXCEPT ![n] = p]
             /\ \E phase \in {"keep", "rollback"} : Goto(p, phase)
             /\ UNCHANGED outcome
          \/ /\ entry[n] # None
             /\ IF n = Dataset /\ DatasetReads
                THEN Tell(p, "found")
                ELSE Goto(p, "rollback") /\ UNCHANGED outcome
             /\ UNCHANGED entry
    /\ UNCHANGED <<call, dir, dirKept, entryKept, crashes>>

\* Syncing a directory keeps every name in it.
Keep(p) ==
    /\ pc[p] = "keep"
    /\ entryKept' = [n \in Names |-> IF n = Dataset <=> call[p].name = Dataset
                                     THEN entry[n] ELSE entryKept[n]]
    /\ Goto(p, "confirm")
    /\ UNCHANGED <<call, dir, dirKept, entry, outcome, crashes>>

\* The name must still show the staged directory, whole; a report is replayed
\* once more, a dataset is read again.
Confirm(p) ==
    /\ pc[p] = "confirm"
    /\ entry[call[p].name] = p /\ Whole(p) /\ ParentsRead(call[p])
    /\ Tell(p, "published")
    /\ UNCHANGED <<call, disk, crashes>>

-----------------------------------------------------------------------------
\* A failed step, or a check that did not hold.
Fail(p) ==
    /\ pc[p] \in Staging
    /\ Goto(p, "rollback")
    /\ UNCHANGED <<call, disk, outcome, crashes>>

\* Mutant of Invalidate: the manifest is unlinked at the public name.
Invalidate_byName(p) ==
    /\ pc[p] = "rollback" /\ call[p].kind # "dataset"
    /\ dir' = IF entry[call[p].name] = None THEN dir
              ELSE [dir EXCEPT ![entry[call[p].name]] = @ \ {"manifest"}]
    /\ Goto(p, "invalidated")
    /\ UNCHANGED <<call, dirKept, entry, entryKept, outcome, crashes>>

\* _rollback_owned_directory: the manifest is unlinked through the descriptor of
\* the staged directory, wherever that is by now ...
Invalidate(p) ==
    /\ pc[p] = "rollback" /\ call[p].kind # "dataset"
    /\ dir' = [dir EXCEPT ![p] = @ \ {"manifest"}]
    /\ Goto(p, "invalidated")
    /\ UNCHANGED <<call, dirKept, entry, entryKept, outcome, crashes>>

\* ... and the directory is synced before the failure is raised.
Invalidated(p) ==
    /\ pc[p] = "invalidated"
    /\ dirKept' = [dirKept EXCEPT ![p] = dir[p]]
    /\ Tell(p, "failed")
    /\ UNCHANGED <<call, dir, entry, entryKept, crashes>>

\* Either of the two may fail itself, which the error says.
NotInvalidated(p) ==
    /\ \/ pc[p] = "invalidated"
       \/ pc[p] = "rollback" /\ call[p].kind # "dataset"
    /\ Tell(p, "notInvalidated")
    /\ UNCHANGED <<call, disk, crashes>>

\* A dataset is cleaned up only while it has not been renamed.
CleanUp(p) ==
    /\ pc[p] = "rollback" /\ call[p].kind = "dataset"
    /\ dir' = IF entry[Dataset] = p THEN dir ELSE [dir EXCEPT ![p] = {}]
    /\ Tell(p, "failed")
    /\ UNCHANGED <<call, dirKept, entry, entryKept, crashes>>

\* A killed process is told nothing and leaves what it staged.
Kill(p) ==
    /\ pc[p] \notin {"idle", "done"}
    /\ Goto(p, "done")
    /\ UNCHANGED <<call, disk, outcome, crashes>>

\* What the disk does not have yet may be lost or kept, in any mixture.
HostCrash ==
    /\ crashes < MaxCrashes
    /\ crashes' = crashes + 1
    /\ \E lost \in SUBSET {x \in Procs \X Entries : (x[2] \in dir[x[1]]) # (x[2] \in dirKept[x[1]])},
          forgotten \in SUBSET {n \in Names : entry[n] # entryKept[n]} :
          /\ dir' = [p \in Procs |-> {e \in Entries :
                        IF <<p, e>> \in lost THEN e \in dirKept[p] ELSE e \in dir[p]}]
          /\ entry' = [n \in Names |-> IF n \in forgotten THEN entryKept[n] ELSE entry[n]]
    /\ dirKept' = dir' /\ entryKept' = entry'
    /\ pc' = [p \in Procs |-> IF pc[p] = "idle" THEN "idle" ELSE "done"]
    /\ UNCHANGED <<call, outcome>>

Step(p) ==
    \/ \E c \in Calls : Begin(p, c)
    \/ Stage(p) \/ Complete(p) \/ Capture(p) \/ SyncTree(p) \/ Rename(p) \/ Keep(p) \/ Confirm(p)
    \/ Fail(p) \/ Invalidate(p) \/ Invalidated(p) \/ NotInvalidated(p) \/ CleanUp(p) \/ Kill(p)

Next == HostCrash \/ \E p \in Procs : Step(p)

Spec == Init /\ [][Next]_vars

-----------------------------------------------------------------------------
Published(kind, n) ==
    \E p \in Procs : outcome[p] = "published" /\ call[p].kind = kind /\ call[p].name = n

\* A publication whose own publisher was told so is shown whole at its name for
\* good, whoever else claimed the name, failed, was killed or lost a disk's memory
\* (experiments.py:951-983, artifacts.py:361-399).  So a run can be read as long as
\* what it was made of was published so, too: a dataset that was only found there
\* by another publisher may be lost by a crash.
PublishedRunStays ==
    /\ \A p \in Procs : outcome[p] = "published" => entry[call[p].name] = p /\ Whole(p)
    /\ Published("dataset", Dataset) => \A r \in Runs :
          /\ Published("experiment", r) => ExperimentReads(r)
          /\ Published("report", r) /\ Published("experiment", call[entry[r]].source)
                => ReportReads(r)

\* A name never shows part of a publication as complete: a manifest has its
\* payload, after any crash.  And a publication that was reported as failed can
\* be read by nobody from then on, unless the error says that it could not be
\* invalidated (docs/phase2-milestone-7.md:211, experiments.py:827-842).
FailedIsUnreadable ==
    \A n \in Names : entry[n] # None =>
        /\ "manifest" \in dir[entry[n]] => Whole(entry[n])
        /\ n # Dataset /\ outcome[entry[n]] = "failed" => ~Whole(entry[n])
=============================================================================
