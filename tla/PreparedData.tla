----------------------------- MODULE PreparedData ----------------------------
(***************************************************************************)
(* The prepared dataset of one symbol (features/dataset.py): a feature     *)
(* file, a labeled file and the manifest that completes them, all derived  *)
(* from one immutable raw snapshot.  `prepare_datasets` replaces the three *)
(* files one after the other and without a lock, hashes what it then finds *)
(* under the two names, and loads the bundle again; training loads it too. *)
(*                                                                         *)
(* A file is named by the snapshot it was derived from, which is what its  *)
(* hash tells.  Its rows tell less: two snapshots may have the same        *)
(* candles after the warm-up, and it is those alone that a feature file    *)
(* shows, beside features that the warm-up went into.  Snapshots come and  *)
(* go as MarketStore says: any may be the latest, and one that is missing  *)
(* is an error like any other.                                             *)
(***************************************************************************)
EXTENDS Integers, FiniteSets, TLC

CONSTANTS
    Procs,
    Sources,        \* raw snapshots
    Candles,        \* the candles after the warm-up, of each snapshot
    None,
    MaxPrepares,    \* bound on preparations
    MaxCrashes      \* bound on host crashes

VARIABLES
    feature,        \* what the feature file was derived from, or None
    labeled,        \* what the labeled file was derived from, or None
    manifest,       \* the manifest, or None
    kept,           \* what a host crash brings back of each file
    pc,
    held,           \* the manifest a process writes or has loaded
    loaded,         \* what a load has read so far: feature and labeled file
    prepares,
    crashes

files == <<feature, labeled, manifest, kept>>
vars  == <<files, pc, held, loaded, prepares, crashes>>

\* A manifest names its source and the hashes of the two files.  `alone` is
\* history, which no step reads: nobody else replaced a file from the first one
\* the manifest's process wrote to the second hash it took.
Manifest == [source: Sources, feature: Sources \cup {None}, labeled: Sources \cup {None},
             alone: BOOLEAN]
Nothing  == [feature |-> None, labeled |-> None]
NoFiles  == [feature |-> None, labeled |-> None, manifest |-> None]

\* What the constants must be.
PreparedAssumption ==
    /\ DOMAIN Candles = Sources
    /\ None \notin Sources /\ None \notin Manifest
    /\ {MaxPrepares, MaxCrashes} \subseteq Nat

Preparing == {"features", "labels", "hash_features", "hash_labels", "manifest"}
Loading   == {"load", "load_features", "load_labels", "validate"}

\* The files and what a process has of them are typed.
TypeOK ==
    /\ {feature, labeled} \subseteq Sources \cup {None}
    /\ manifest \in Manifest \cup {None}
    /\ held \in [Procs -> Manifest \cup {None}]
    /\ loaded \in [Procs -> [feature: Sources \cup {None}, labeled: Sources \cup {None}]]

Init ==
    /\ feature = None
    /\ labeled = None
    /\ manifest = None
    /\ kept = NoFiles
    /\ pc = [p \in Procs |-> "idle"]
    /\ held = [p \in Procs |-> None]
    /\ loaded = [p \in Procs |-> Nothing]
    /\ prepares = 0
    /\ crashes = 0

\* A rename reaches the disk or not: the directory is never synced.  Only a host
\* crash tells, which of the older versions of each file then is back; when the
\* bound allows no further one, nothing does.
Reach(file, content) ==
    kept' \in {kept} \cup {[kept EXCEPT ![file] = content] : n \in 1..(MaxCrashes - crashes)}

\* Whoever is between its first write and its hashes is not alone when p writes.
Writes(p) ==
    held' = [q \in Procs |->
        IF q # p /\ pc[q] \in {"labels", "hash_features", "hash_labels"}
        THEN [held[q] EXCEPT !.alone = FALSE] ELSE held[q]]

Goto(p, phase) == pc' = [pc EXCEPT ![p] = phase]

Leave(p) ==
    /\ Goto(p, "idle")
    /\ held' = [held EXCEPT ![p] = None]
    /\ loaded' = [loaded EXCEPT ![p] = Nothing]

-----------------------------------------------------------------------------
\* prepare_datasets: the snapshot with the latest file's hash is read.
StartPrepare(p, s) ==
    /\ pc[p] = "idle"
    /\ prepares < MaxPrepares
    /\ prepares' = prepares + 1
    /\ held' = [held EXCEPT ![p] = [source |-> s, feature |-> None, labeled |-> None,
                                         alone |-> TRUE]]
    /\ Goto(p, "features")
    /\ UNCHANGED <<files, loaded, crashes>>

WriteFeatures(p) ==
    /\ pc[p] = "features"
    /\ feature' = held[p].source
    /\ Reach("feature", held[p].source)
    /\ Writes(p)
    /\ Goto(p, "labels")
    /\ UNCHANGED <<labeled, manifest, loaded, prepares, crashes>>

WriteLabels(p) ==
    /\ pc[p] = "labels"
    /\ labeled' = held[p].source
    /\ Reach("labeled", held[p].source)
    /\ Writes(p)
    /\ Goto(p, "hash_features")
    /\ UNCHANGED <<feature, manifest, loaded, prepares, crashes>>

\* The hashes are taken of whatever has the names by now.
HashFeatures(p) ==
    /\ pc[p] = "hash_features"
    /\ held' = [held EXCEPT ![p].feature = feature]
    /\ Goto(p, "hash_labels")
    /\ UNCHANGED <<files, loaded, prepares, crashes>>

HashLabels(p) ==
    /\ pc[p] = "hash_labels"
    /\ held' = [held EXCEPT ![p].labeled = labeled]
    /\ Goto(p, "manifest")
    /\ UNCHANGED <<files, loaded, prepares, crashes>>

\* The completion marker, and then the bundle is loaded like any other.
CompleteBundle(p) ==
    /\ pc[p] = "manifest"
    /\ manifest' = held[p]
    /\ Reach("manifest", held[p])
    /\ held' = [held EXCEPT ![p] = None]
    /\ Goto(p, "load")
    /\ UNCHANGED <<feature, labeled, loaded, prepares, crashes>>

-----------------------------------------------------------------------------
\* load_prepared_dataset_bundle: one read of the manifest; the snapshot and
\* the files must have the hashes it names; their rows must be of one bundle.
LoadManifest(p) ==
    /\ pc[p] \in {"idle", "load"}
    /\ manifest # None
    /\ held' = [held EXCEPT ![p] = manifest]
    /\ Goto(p, "load_features")
    /\ UNCHANGED <<files, loaded, prepares, crashes>>

\* Mutant of Verified: a file that is there is read.
Verified_present(file, hash) == file # None

\* _read_verified_bytes: the file is there and has the hash the manifest names.
Verified(file, hash) == file # None /\ file = hash

LoadFeatures(p) ==
    /\ pc[p] = "load_features"
    /\ Verified(feature, held[p].feature)
    /\ loaded' = [loaded EXCEPT ![p].feature = feature]
    /\ Goto(p, "load_labels")
    /\ UNCHANGED <<files, held, prepares, crashes>>

LoadLabels(p) ==
    /\ pc[p] = "load_labels"
    /\ Verified(labeled, held[p].labeled)
    /\ loaded' = [loaded EXCEPT ![p].labeled = labeled]
    /\ Goto(p, "validate")
    /\ UNCHANGED <<files, held, prepares, crashes>>

\* _validate_logical_bundle: the candles of the snapshot after the warm-up are
\* the feature file's; its candles and features, without the last ones, are the
\* labeled file's.  No feature is computed again from the snapshot.
Validates(m, b) == Candles[b.feature] = Candles[m.source] /\ b.labeled = b.feature

ValidateBundle(p) ==
    /\ pc[p] = "validate"
    /\ Validates(held[p], loaded[p])
    /\ Goto(p, "loaded")
    /\ UNCHANGED <<files, held, loaded, prepares, crashes>>

\* What loaded the bundle is done with it.
Done(p) ==
    /\ pc[p] = "loaded"
    /\ Leave(p)
    /\ UNCHANGED <<files, prepares, crashes>>

\* Any error, and any death of the process: every file is replaced whole.
Stop(p) ==
    /\ pc[p] \in Preparing \cup Loading
    /\ Leave(p)
    /\ UNCHANGED <<files, prepares, crashes>>

-----------------------------------------------------------------------------
\* Contents are synced before they get their names, names never.
CrashFiles ==
    /\ feature' = kept.feature
    /\ labeled' = kept.labeled
    /\ manifest' = kept.manifest
    /\ held' = [p \in Procs |-> None]
    /\ loaded' = [p \in Procs |-> Nothing]
    /\ pc' = [p \in Procs |-> "idle"]
    /\ kept' = IF crashes' < MaxCrashes THEN kept ELSE NoFiles

HostCrash ==
    /\ crashes < MaxCrashes
    /\ crashes' = crashes + 1
    /\ CrashFiles
    /\ UNCHANGED prepares

PrepareStep(p) ==
    \/ \E s \in Sources : StartPrepare(p, s)
    \/ WriteFeatures(p) \/ WriteLabels(p)
    \/ HashFeatures(p) \/ HashLabels(p) \/ CompleteBundle(p)

LoadStep(p) ==
    LoadManifest(p) \/ LoadFeatures(p) \/ LoadLabels(p) \/ ValidateBundle(p)

Next ==
    \/ \E p \in Procs : PrepareStep(p) \/ LoadStep(p) \/ Done(p) \/ Stop(p)
    \/ HostCrash

Spec == Init /\ [][Next]_vars

-----------------------------------------------------------------------------
\* Features and labels of a loaded bundle are of the snapshot its manifest names.
OfOneSnapshot(p) ==
    loaded[p] = [feature |-> held[p].source, labeled |-> held[p].source]

\* A bundle that was prepared alone is loaded as it was prepared, warm-up and
\* all, or not at all: whoever replaces its files before or after, dies between
\* two of them, or loses some to a crash, the hashes of its manifest bind the
\* files to its snapshot where their rows cannot (prepare_datasets,
\* load_prepared_dataset_bundle).
PreparedAloneIsOne ==
    \A p \in Procs : pc[p] = "loaded" /\ held[p].alone => OfOneSnapshot(p)

\* So is every bundle, whoever prepared at the same time: what the docstring of
\* load_prepared_dataset_bundle says of the hashes, and what overlapping
\* preparations of snapshots with the same candles after the warm-up refute.
BundleIsOne ==
    \A p \in Procs : pc[p] = "loaded" => OfOneSnapshot(p)
=============================================================================
