---------------------------- MODULE Phase2_proofs ----------------------------
(***************************************************************************)
(* Proofs about Phase 2: a published run stays whole and a failed one is   *)
(* read by nobody (ResearchRuns), and the generation's holdout is opened   *)
(* once, only the evaluation of the call that opened it is accepted, and   *)
(* what it returned is kept (GenerationEvaluation implements               *)
(* EvaluationSource), for any number of calls, runs and crashes.           *)
(***************************************************************************)
EXTENDS MC_Phase2, TLAPS

-----------------------------------------------------------------------------
(* ResearchRuns. *)

\* What a call has made of its directory: it is complete and synced before it
\* has a name, and a failure is told only when no manifest is left in it.
StagedInv(p) ==
    /\ runner[p] # "idle" => call[p] \in Research!Calls
    /\ outcome[p] # None => runner[p] = "done"
    /\ runner[p] \in {"idle", "stage"} => dir[p] = {} /\ dirKept[p] = {}
    /\ runner[p] = "complete" => dir[p] = {"payload"}
    /\ runner[p] = "sync" => dir[p] = Research!Entries
    /\ runner[p] \in {"rename", "keep", "confirm"} =>
          dir[p] = Research!Entries /\ dirKept[p] = Research!Entries
    /\ runner[p] \in {"keep", "confirm"} => entry[call[p].name] = p
    /\ runner[p] = "confirm" => entryKept[call[p].name] = p
    /\ runner[p] = "invalidated" => "manifest" \notin dir[p]
    /\ outcome[p] = "failed" /\ call[p].kind # "dataset" =>
          "manifest" \notin dir[p] \cup dirKept[p]
    /\ outcome[p] = "published" =>
          /\ entry[call[p].name] = p /\ entryKept[call[p].name] = p
          /\ dir[p] = Research!Entries /\ dirKept[p] = Research!Entries

\* A name shows a directory that was staged for it, and whose payload no crash
\* and no failure takes; what the disk has of it, it shows.
ShownInv(n) ==
    /\ entryKept[n] # None => entry[n] = entryKept[n]
    /\ entry[n] # None =>
          /\ call[entry[n]] \in Research!Calls /\ call[entry[n]].name = n
          /\ "payload" \in dir[entry[n]] \cap dirKept[entry[n]]

ResearchInv ==
    /\ Research!TypeOK
    /\ \A p \in Attempts : StagedInv(p)
    /\ \A n \in Research!Names : ShownInv(n)

\* What no step of p changes for another call, and for a name that is taken.
OtherRunsSame(p) ==
    \A q \in Attempts \ {p} :
        /\ call'[q] = call[q] /\ runner'[q] = runner[q] /\ outcome'[q] = outcome[q]
        /\ dir'[q] = dir[q] /\ dirKept'[q] = dirKept[q]

NamesKept ==
    \A n \in Research!Names :
        /\ entry[n] # None => entry'[n] = entry[n]
        /\ entryKept[n] # None => entryKept'[n] = entryKept[n]

-----------------------------------------------------------------------------
\* A call is of a dataset when its name is the dataset's.
LEMMA CallNames ==
    ASSUME NEW c \in Research!Calls
    PROVE  /\ c.name \in Research!Names
           /\ c.kind = "dataset" <=> c.name = Dataset
BY Phase2Assumption DEF Research!Calls, Research!Names, Research!RunsAssumption

LEMMA ResearchInit == Research!Init => ResearchInv
<1> SUFFICES ASSUME Research!Init PROVE ResearchInv
  OBVIOUS
<1> USE DEF Research!Init
<1>1. Research!TypeOK
  BY DEF Research!TypeOK, Research!Phases
<1>2. \A p \in Attempts : StagedInv(p)
  BY Phase2Assumption DEF StagedInv, Research!RunsAssumption
<1>3. \A n \in Research!Names : ShownInv(n)
  BY DEF ShownInv
<1> QED
  BY <1>1, <1>2, <1>3 DEF ResearchInv

\* Whatever one call does, the others stand where they stood.
LEMMA OtherRuns ==
    ASSUME ResearchInv, NEW p \in Attempts, OtherRunsSame(p), NamesKept, StagedInv(p)'
    PROVE  \A q \in Attempts : StagedInv(q)'
<1> SUFFICES ASSUME NEW q \in Attempts, q # p PROVE StagedInv(q)'
  OBVIOUS
<1>1. StagedInv(q) /\ q # None /\ None \notin {"published", "found", "failed"}
  BY Phase2Assumption DEF ResearchInv, Research!RunsAssumption
<1>2. /\ call'[q] = call[q] /\ runner'[q] = runner[q] /\ outcome'[q] = outcome[q]
      /\ dir'[q] = dir[q] /\ dirKept'[q] = dirKept[q]
  BY DEF OtherRunsSame
<1>3. runner[q] # "idle" => call[q].name \in Research!Names
  BY <1>1, CallNames DEF StagedInv
<1>4. runner[q] # "idle" =>
         /\ entry[call[q].name] = q => entry'[call[q].name] = q
         /\ entryKept[call[q].name] = q => entryKept'[call[q].name] = q
  BY <1>1, <1>3 DEF NamesKept
<1> QED
  BY <1>1, <1>2, <1>4 DEF StagedInv

\* The names show what they showed if no payload is taken from them.
LEMMA ShownStays ==
    ASSUME ResearchInv, NEW p \in Attempts, OtherRunsSame(p), UNCHANGED <<entry, entryKept>>,
           (\E n \in Research!Names : entry[n] = p) =>
               call'[p] = call[p] /\ "payload" \in dir'[p] \cap dirKept'[p]
    PROVE  NamesKept /\ \A n \in Research!Names : ShownInv(n)'
<1>1. NamesKept
  BY DEF NamesKept
<1>2. ASSUME NEW n \in Research!Names PROVE ShownInv(n)'
  <2>1. ShownInv(n) /\ entry[n] \in Attempts \cup {None}
    BY DEF ResearchInv, Research!TypeOK
  <2>2. CASE entry[n] = p
    BY <2>1, <2>2 DEF ShownInv
  <2>3. CASE entry[n] # p
    BY <2>1, <2>3 DEF ShownInv, OtherRunsSame
  <2> QED
    BY <2>2, <2>3
<1> QED
  BY <1>1, <1>2

\* The steps of a call that gives no name to its directory.
LEMMA StagingRuns ==
    ASSUME ResearchInv, NEW p \in Attempts,
           \/ \E c \in Research!Calls : Research!Begin(p, c)
           \/ Research!Stage(p) \/ Research!Complete(p) \/ Research!Capture(p)
           \/ Research!SyncTree(p) \/ Research!Confirm(p) \/ Research!Fail(p)
           \/ Research!Invalidate(p) \/ Research!Invalidated(p) \/ Research!NotInvalidated(p)
           \/ Research!CleanUp(p) \/ Research!Kill(p)
    PROVE  ResearchInv'
<1> USE DEF Research!Goto, Research!Tell, Research!disk
<1>0. Research!TypeOK /\ StagedInv(p) /\ p # None /\ None \notin {"published", "found", "failed"}
  BY Phase2Assumption DEF ResearchInv, Research!RunsAssumption
<1>t. ASSUME Research!TypeOK', OtherRunsSame(p), UNCHANGED <<entry, entryKept>>, StagedInv(p)',
             (\E n \in Research!Names : entry[n] = p) =>
                 call'[p] = call[p] /\ "payload" \in dir'[p] \cap dirKept'[p]
      PROVE  ResearchInv'
  BY <1>t, ShownStays, OtherRuns DEF ResearchInv
<1>s. (\E n \in Research!Names : entry[n] = p) =>
          "payload" \in dir[p] \cap dirKept[p] /\ runner[p] \notin {"idle", "stage"}
          /\ call[p] \in Research!Calls
  BY <1>0 DEF ResearchInv, ShownInv, StagedInv
<1>1. ASSUME NEW c \in Research!Calls, Research!Begin(p, c) PROVE ResearchInv'
  <2>1. Research!TypeOK'
    BY <1>0, <1>1 DEF Research!Begin, Research!TypeOK, Research!Phases, Research!Staging
  <2>2. OtherRunsSame(p)
    BY <1>0, <1>1 DEF Research!Begin, Research!TypeOK, OtherRunsSame
  <2>3. StagedInv(p)'
    BY <1>0, <1>1, CallNames DEF Research!Begin, Research!TypeOK, StagedInv
  <2> QED
    BY <1>t, <1>s, <1>1, <2>1, <2>2, <2>3 DEF Research!Begin
<1>2. CASE Research!Stage(p)
  <2>1. Research!TypeOK'
    BY <1>0, <1>2 DEF Research!Stage, Research!TypeOK, Research!Phases, Research!Staging,
                      Research!Entries
  <2>2. OtherRunsSame(p)
    BY <1>0, <1>2 DEF Research!Stage, Research!TypeOK, OtherRunsSame
  <2>3. StagedInv(p)'
    BY <1>0, <1>2 DEF Research!Stage, Research!TypeOK, StagedInv
  <2> QED
    BY <1>t, <1>s, <1>2, <2>1, <2>2, <2>3 DEF Research!Stage
<1>3. CASE Research!Complete(p)
  <2>1. Research!TypeOK'
    BY <1>0, <1>3 DEF Research!Complete, Research!TypeOK, Research!Phases, Research!Staging,
                      Research!Entries
  <2>2. OtherRunsSame(p)
    BY <1>0, <1>3 DEF Research!Complete, Research!TypeOK, OtherRunsSame
  <2>3. StagedInv(p)'
    BY <1>0, <1>3 DEF Research!Complete, Research!TypeOK, StagedInv
  <2>4. "payload" \in dir[p] => "payload" \in dir'[p]
    BY <1>0, <1>3 DEF Research!Complete, Research!TypeOK
  <2> QED
    BY <1>t, <1>s, <1>3, <2>1, <2>2, <2>3, <2>4 DEF Research!Complete
<1>4. CASE Research!Capture(p)
  <2>1. Research!TypeOK'
    BY <1>0, <1>4 DEF Research!Capture, Research!TypeOK, Research!Phases, Research!Staging
  <2>2. OtherRunsSame(p)
    BY <1>0, <1>4 DEF Research!Capture, Research!TypeOK, OtherRunsSame
  <2>3. StagedInv(p)'
    BY <1>0, <1>4 DEF Research!Capture, Research!TypeOK, StagedInv, Research!Whole
  <2> QED
    BY <1>t, <1>s, <1>4, <2>1, <2>2, <2>3 DEF Research!Capture
<1>5. CASE Research!SyncTree(p)
  <2>1. Research!TypeOK'
    BY <1>0, <1>5 DEF Research!SyncTree, Research!TypeOK, Research!Phases, Research!Staging
  <2>2. OtherRunsSame(p)
    BY <1>0, <1>5 DEF Research!SyncTree, Research!TypeOK, OtherRunsSame
  <2>3. StagedInv(p)'
    BY <1>0, <1>5 DEF Research!SyncTree, Research!TypeOK, StagedInv
  <2>4. dirKept'[p] = dir[p]
    BY <1>0, <1>5 DEF Research!SyncTree, Research!TypeOK
  <2> QED
    BY <1>t, <1>s, <1>5, <2>1, <2>2, <2>3, <2>4 DEF Research!SyncTree
<1>6. CASE Research!Confirm(p)
  <2>1. Research!TypeOK'
    BY <1>0, <1>6 DEF Research!Confirm, Research!TypeOK, Research!Phases
  <2>2. OtherRunsSame(p)
    BY <1>0, <1>6 DEF Research!Confirm, Research!TypeOK, OtherRunsSame
  <2>3. StagedInv(p)'
    BY <1>0, <1>6 DEF Research!Confirm, Research!TypeOK, StagedInv
  <2> QED
    BY <1>t, <1>s, <1>6, <2>1, <2>2, <2>3 DEF Research!Confirm
<1>7. CASE Research!Fail(p)
  <2>1. Research!TypeOK'
    BY <1>0, <1>7 DEF Research!Fail, Research!TypeOK, Research!Phases
  <2>2. OtherRunsSame(p)
    BY <1>0, <1>7 DEF Research!Fail, Research!TypeOK, OtherRunsSame
  <2>3. StagedInv(p)'
    BY <1>0, <1>7 DEF Research!Fail, Research!TypeOK, StagedInv, Research!Staging
  <2> QED
    BY <1>t, <1>s, <1>7, <2>1, <2>2, <2>3 DEF Research!Fail
<1>8. CASE Research!Invalidate(p)
  <2>1. Research!TypeOK'
    BY <1>0, <1>8 DEF Research!Invalidate, Research!TypeOK, Research!Phases
  <2>2. OtherRunsSame(p)
    BY <1>0, <1>8 DEF Research!Invalidate, Research!TypeOK, OtherRunsSame
  <2>3. StagedInv(p)'
    BY <1>0, <1>8 DEF Research!Invalidate, Research!TypeOK, StagedInv
  <2>4. "payload" \in dir[p] => "payload" \in dir'[p]
    BY <1>0, <1>8 DEF Research!Invalidate, Research!TypeOK
  <2> QED
    BY <1>t, <1>s, <1>8, <2>1, <2>2, <2>3, <2>4 DEF Research!Invalidate
<1>9. CASE Research!Invalidated(p)
  <2>1. Research!TypeOK'
    BY <1>0, <1>9 DEF Research!Invalidated, Research!TypeOK, Research!Phases
  <2>2. OtherRunsSame(p)
    BY <1>0, <1>9 DEF Research!Invalidated, Research!TypeOK, OtherRunsSame
  <2>3. StagedInv(p)'
    BY <1>0, <1>9 DEF Research!Invalidated, Research!TypeOK, StagedInv
  <2>4. dirKept'[p] = dir[p]
    BY <1>0, <1>9 DEF Research!Invalidated, Research!TypeOK
  <2> QED
    BY <1>t, <1>s, <1>9, <2>1, <2>2, <2>3, <2>4 DEF Research!Invalidated
<1>10. CASE Research!NotInvalidated(p)
  <2>1. Research!TypeOK'
    BY <1>0, <1>10 DEF Research!NotInvalidated, Research!TypeOK, Research!Phases
  <2>2. OtherRunsSame(p)
    BY <1>0, <1>10 DEF Research!NotInvalidated, Research!TypeOK, OtherRunsSame
  <2>3. StagedInv(p)'
    BY <1>0, <1>10 DEF Research!NotInvalidated, Research!TypeOK, StagedInv
  <2> QED
    BY <1>t, <1>s, <1>10, <2>1, <2>2, <2>3 DEF Research!NotInvalidated
<1>11. CASE Research!CleanUp(p)
  <2>1. Research!TypeOK'
    BY <1>0, <1>11 DEF Research!CleanUp, Research!TypeOK, Research!Phases
  <2>2. OtherRunsSame(p)
    BY <1>0, <1>11 DEF Research!CleanUp, Research!TypeOK, OtherRunsSame
  <2>3. StagedInv(p)'
    BY <1>0, <1>11 DEF Research!CleanUp, Research!TypeOK, StagedInv
  <2>4. (\E n \in Research!Names : entry[n] = p) => entry[Dataset] = p
    <3>1. call[p] \in Research!Calls /\ call[p].name = Dataset
      BY <1>0, <1>11, CallNames DEF Research!CleanUp, StagedInv
    <3> QED
      BY <1>0, <3>1 DEF ResearchInv, ShownInv
  <2> QED
    BY <1>t, <1>s, <1>11, <2>1, <2>2, <2>3, <2>4 DEF Research!CleanUp
<1>12. CASE Research!Kill(p)
  <2>1. Research!TypeOK'
    BY <1>0, <1>12 DEF Research!Kill, Research!TypeOK, Research!Phases
  <2>2. OtherRunsSame(p)
    BY <1>0, <1>12 DEF Research!Kill, Research!TypeOK, OtherRunsSame
  <2>3. StagedInv(p)'
    BY <1>0, <1>12 DEF Research!Kill, Research!TypeOK, StagedInv
  <2> QED
    BY <1>t, <1>s, <1>12, <2>1, <2>2, <2>3 DEF Research!Kill
<1> QED
  BY <1>1, <1>2, <1>3, <1>4, <1>5, <1>6, <1>7, <1>8, <1>9, <1>10, <1>11, <1>12

\* A free name shows the directory of the call, complete and synced.
LEMMA RenameRun ==
    ASSUME ResearchInv, NEW p \in Attempts, Research!Rename(p)
    PROVE  ResearchInv'
<1> USE DEF Research!Goto, Research!Tell, Research!disk
<1>0. /\ Research!TypeOK /\ StagedInv(p) /\ p # None /\ runner[p] = "rename"
      /\ call[p] \in Research!Calls /\ call[p].name \in Research!Names
      /\ call[p].kind = "dataset" <=> call[p].name = Dataset
      /\ outcome[p] = None
      /\ dir[p] = Research!Entries /\ dirKept[p] = Research!Entries
  BY Phase2Assumption, CallNames DEF ResearchInv, Research!RunsAssumption, Research!Rename, StagedInv
<1>1. Research!TypeOK'
  BY <1>0 DEF Research!Rename, Research!TypeOK, Research!Phases, Research!Staging
<1>2. OtherRunsSame(p)
  BY <1>0 DEF Research!Rename, Research!TypeOK, OtherRunsSame
<1>3. NamesKept
  BY <1>0 DEF Research!Rename, Research!TypeOK, NamesKept
<1>4. StagedInv(p)'
  BY <1>0 DEF Research!Rename, Research!TypeOK, StagedInv
<1>5. ASSUME NEW n \in Research!Names PROVE ShownInv(n)'
  <2>1. ShownInv(n)
    BY DEF ResearchInv
  <2>2. /\ UNCHANGED <<call, dir, dirKept, entryKept>>
        /\ entry' = entry \/ (entry[call[p].name] = None
                              /\ entry' = [entry EXCEPT ![call[p].name] = p])
    BY DEF Research!Rename
  <2>3. "payload" \in Research!Entries
    BY DEF Research!Entries
  <2> QED
    BY <1>0, <2>1, <2>2, <2>3 DEF ShownInv, Research!TypeOK
<1> QED
  BY <1>1, <1>2, <1>3, <1>4, <1>5, OtherRuns DEF ResearchInv

\* What is synced is what is shown.
LEMMA KeepRun ==
    ASSUME ResearchInv, NEW p \in Attempts, Research!Keep(p)
    PROVE  ResearchInv'
<1> USE DEF Research!Goto
<1>0. /\ Research!TypeOK /\ StagedInv(p) /\ runner[p] = "keep"
      /\ call[p] \in Research!Calls /\ call[p].name \in Research!Names
      /\ outcome[p] = None
  BY CallNames DEF ResearchInv, Research!Keep, StagedInv
<1>1. \A n \in Research!Names :
         /\ entryKept'[n] = entry[n] \/ entryKept'[n] = entryKept[n]
         /\ n = call[p].name => entryKept'[n] = entry[n]
  BY DEF Research!Keep
<1>2. Research!TypeOK'
  <2>1. entryKept' \in [Research!Names -> Attempts \cup {None}]
    BY <1>0 DEF Research!Keep, Research!TypeOK
  <2> QED
    BY <1>0, <2>1 DEF Research!Keep, Research!TypeOK, Research!Phases, Research!Staging
<1>3. OtherRunsSame(p)
  BY <1>0 DEF Research!Keep, Research!TypeOK, OtherRunsSame
<1>4. NamesKept
  BY <1>1 DEF Research!Keep, NamesKept, ResearchInv, ShownInv
<1>5. StagedInv(p)'
  BY <1>0, <1>1 DEF Research!Keep, Research!TypeOK, StagedInv
<1>6. ASSUME NEW n \in Research!Names PROVE ShownInv(n)'
  BY <1>1 DEF Research!Keep, ResearchInv, ShownInv
<1> QED
  BY <1>2, <1>3, <1>4, <1>5, <1>6, OtherRuns DEF ResearchInv

\* A crash takes what the disk does not have: no payload, no synced manifest
\* and no name whose directory was synced.
LEMMA CrashRuns == ASSUME ResearchInv, Research!HostCrash PROVE ResearchInv'
<1>1. /\ \A p \in Attempts : \A e \in Research!Entries :
            /\ e \in dir[p] /\ e \in dirKept[p] => e \in dir'[p]
            /\ e \in dir'[p] => e \in dir[p] \/ e \in dirKept[p]
      /\ \A n \in Research!Names : entry'[n] = entry[n] \/ entry'[n] = entryKept[n]
      /\ dir' \in [Attempts -> SUBSET Research!Entries]
      /\ entry' = [n \in Research!Names |-> entry'[n]]
  BY DEF Research!HostCrash
<1>2. /\ dirKept' = dir' /\ entryKept' = entry' /\ call' = call /\ outcome' = outcome
      /\ runner' = [p \in Attempts |-> IF runner[p] = "idle" THEN "idle" ELSE "done"]
  BY DEF Research!HostCrash
<1> HIDE DEF Research!HostCrash
<1>3. /\ Research!TypeOK /\ None \notin {"published", "found", "failed"}
      /\ \A p \in Attempts : StagedInv(p) /\ p # None
  BY Phase2Assumption DEF ResearchInv, Research!RunsAssumption
<1>4. Research!TypeOK'
  <2>1. entry' \in [Research!Names -> Attempts \cup {None}]
    BY <1>1, <1>3 DEF Research!TypeOK
  <2>2. runner' \in [Attempts -> Research!Phases]
    BY <1>2 DEF Research!Phases
  <2> QED
    BY <1>1, <1>2, <1>3, <2>1, <2>2 DEF Research!TypeOK
<1>5. ASSUME NEW n \in Research!Names PROVE ShownInv(n)'
  <2>1. ShownInv(n) /\ entry[n] \in Attempts \cup {None} /\ "payload" \in Research!Entries
    BY <1>3 DEF ResearchInv, Research!TypeOK, Research!Entries
  <2>2. entry'[n] # None => entry'[n] = entry[n]
    BY <1>1, <2>1 DEF ShownInv
  <2>3. entry[n] # None => "payload" \in dir'[entry[n]]
    BY <1>1, <2>1 DEF ShownInv
  <2> QED
    BY <1>2, <2>1, <2>2, <2>3 DEF ShownInv
<1>6. ASSUME NEW p \in Attempts PROVE StagedInv(p)'
  <2>1. StagedInv(p) /\ None \notin {"published", "found", "failed"}
        /\ dir[p] \subseteq Research!Entries /\ dir'[p] \subseteq Research!Entries
        /\ dirKept[p] \subseteq Research!Entries
    BY <1>1, <1>3 DEF Research!TypeOK
  <2>2. runner'[p] = (IF runner[p] = "idle" THEN "idle" ELSE "done")
    BY <1>2
  <2>3. runner[p] = "idle" => dir'[p] = {}
    BY <1>1, <2>1 DEF StagedInv
  <2>4. outcome[p] = "published" =>
           entry'[call[p].name] = p /\ dir'[p] = Research!Entries
    <3> SUFFICES ASSUME outcome[p] = "published"
                 PROVE  entry'[call[p].name] = p /\ dir'[p] = Research!Entries
      OBVIOUS
    <3>1. /\ entry[call[p].name] = p /\ entryKept[call[p].name] = p
          /\ dir[p] = Research!Entries /\ dirKept[p] = Research!Entries
          /\ call[p] \in Research!Calls
      BY <2>1 DEF StagedInv
    <3>2. call[p].name \in Research!Names
      BY <3>1, CallNames
    <3> QED
      BY <1>1, <2>1, <3>1, <3>2
  <2>5. "manifest" \in Research!Entries
    BY DEF Research!Entries
  <2>6. outcome[p] = "failed" /\ call[p].kind # "dataset" => "manifest" \notin dir'[p]
    BY <1>1, <2>1, <2>5 DEF StagedInv
  <2> QED
    BY <1>2, <2>1, <2>2, <2>3, <2>4, <2>6 DEF StagedInv
<1> QED
  BY <1>4, <1>5, <1>6 DEF ResearchInv

LEMMA ResearchNext == ASSUME ResearchInv, [Research!Next]_(Research!vars) PROVE ResearchInv'
<1>1. CASE Research!HostCrash
  BY <1>1, CrashRuns
<1>2. ASSUME NEW p \in Attempts, Research!Step(p) PROVE ResearchInv'
  BY <1>2, StagingRuns, RenameRun, KeepRun DEF Research!Step
<1>3. CASE UNCHANGED Research!vars
  BY <1>3 DEF Research!vars, Research!disk, ResearchInv, Research!TypeOK, StagedInv, ShownInv
<1> QED
  BY <1>1, <1>2, <1>3 DEF Research!Next

\* The publications of datasets, experiments and reports stay consistent.
THEOREM ResearchInvariant == Research!Spec => []ResearchInv
<1>1. Research!Init => ResearchInv
  BY ResearchInit
<1>2. ResearchInv /\ [Research!Next]_(Research!vars) => ResearchInv'
  BY ResearchNext
<1> QED
  BY <1>1, <1>2, PTL DEF Research!Spec

\* A publication whose own publisher was told so is shown whole at its name for
\* good, and read if what it was made of was published so, too.
THEOREM PublishedStays == Research!Spec => []PublishedRunStays
<1>1. ASSUME ResearchInv, NEW p \in Attempts, outcome[p] = "published"
      PROVE  /\ call[p] \in Research!Calls /\ call[p].name \in Research!Names
             /\ entry[call[p].name] = p /\ p # None /\ Research!Whole(p)
  <2>1. StagedInv(p) /\ p # None /\ None # "published"
    BY <1>1, Phase2Assumption DEF ResearchInv, Research!RunsAssumption
  <2>2. call[p] \in Research!Calls
    BY <1>1, <2>1 DEF StagedInv
  <2> QED
    BY <1>1, <2>1, <2>2, CallNames DEF StagedInv, Research!Whole
<1>2. ASSUME ResearchInv, NEW k, NEW n, Research!Published(k, n)
      PROVE  entry[n] # None /\ Research!Whole(entry[n]) /\ call[entry[n]].kind = k
  BY <1>1, <1>2 DEF Research!Published
<1>3. ResearchInv => PublishedRunStays
  <2> SUFFICES ASSUME ResearchInv PROVE PublishedRunStays
    OBVIOUS
  <2>1. Research!Published("dataset", Dataset) => Research!DatasetReads
    BY <1>2 DEF Research!DatasetReads
  <2>2. \A r, k : Research!Published(k, r) => Research!RunReads(r, k)
    BY <1>2 DEF Research!RunReads
  <2> QED
    BY <1>1, <2>1, <2>2
    DEF PublishedRunStays, Research!PublishedRunStays, Research!ExperimentReads,
        Research!ReportReads
<1> QED
  BY <1>3, ResearchInvariant, PTL

\* No name shows a part of a run as a run, nor one that was reported as failed.
THEOREM FailedStaysUnreadable == Research!Spec => []FailedIsUnreadable
<1>1. ASSUME ResearchInv, NEW n \in Research!Names, entry[n] # None
      PROVE  /\ "manifest" \in dir[entry[n]] => Research!Whole(entry[n])
             /\ n # Dataset /\ outcome[entry[n]] = "failed" => ~Research!Whole(entry[n])
  <2> DEFINE p == entry[n]
  <2>1. /\ p \in Attempts /\ call[p] \in Research!Calls /\ call[p].name = n
        /\ "payload" \in dir[p] /\ dir[p] \subseteq Research!Entries /\ StagedInv(p)
    BY <1>1 DEF ResearchInv, ShownInv, Research!TypeOK
  <2>2. n # Dataset => call[p].kind # "dataset"
    BY <2>1, CallNames
  <2> QED
    BY <2>1, <2>2 DEF StagedInv, Research!Whole, Research!Entries
<1>2. ResearchInv => FailedIsUnreadable
  BY <1>1 DEF FailedIsUnreadable, Research!FailedIsUnreadable
<1> QED
  BY <1>2, ResearchInvariant, PTL

-----------------------------------------------------------------------------
(* GenerationEvaluation. *)

\* A call at a file is at one of the places, and the marker is one of them.
LEMMA PlaceOfCall ==
    ASSUME NEW a \in Attempts, kind[a] \in {"marker", "claim", "completion"},
           kind[a] = "marker" \/ run[a] \in Runs
    PROVE  Place(a) \in Places
  BY DEF Place, Places

\* The registry is no run: the marker is apart from claims and completions.
LEMMA MarkerPlace ==
    /\ <<Registry, "marker">> \in Places
    /\ \A a \in Attempts : kind[a] = "marker" => Place(a) = <<Registry, "marker">>
    /\ \A a \in Attempts : kind[a] # "marker" => Place(a) # <<Registry, "marker">>
  BY DEF Place, Places

\* Initially nothing is written, nothing is opened and nobody has started.
LEMMA InitInv == Init => IInv
<1> SUFFICES ASSUME Init PROVE IInv
  OBVIOUS
<1>1. TypeOK
  BY DEF Init, TypeOK, Phases
<1>2. ASSUME NEW a \in Attempts PROVE CallInv(a)
  BY <1>2 DEF Init, CallInv, Published, Writing
<1>3. ASSUME NEW e \in Evaluations PROVE EvaluationInv(e)
  BY <1>3 DEF Init, EvaluationInv
<1> QED
  BY <1>1, <1>2, <1>3 DEF IInv

\* Fsyncing a directory keeps the files and their types.
LEMMA SyncedFiles ==
    ASSUME NEW d, files \in [Places -> File \cup {None}]
    PROVE  /\ Synced(d) \in [Places -> File \cup {None}]
           /\ \A p \in Places : files[p] = None <=> Synced(d)[p] = None
           /\ \A p \in Places : files[p] # None =>
                 /\ Synced(d)[p].by = files[p].by
                 /\ Synced(d)[p].run = files[p].run
                 /\ Synced(d)[p].bytes = files[p].bytes
                 /\ p[1] = d => Synced(d)[p].entry
                 /\ files[p].entry => Synced(d)[p].entry
<1> SUFFICES ASSUME NEW p \in Places
             PROVE  /\ Synced(d)[p] \in File \cup {None}
                    /\ files[p] = None <=> Synced(d)[p] = None
                    /\ files[p] # None =>
                         /\ Synced(d)[p].by = files[p].by
                         /\ Synced(d)[p].run = files[p].run
                         /\ Synced(d)[p].bytes = files[p].bytes
                         /\ p[1] = d => Synced(d)[p].entry
                         /\ files[p].entry => Synced(d)[p].entry
  BY DEF Synced
<1>1. CASE files[p] = None
  BY <1>1 DEF Synced
<1>2. CASE files[p] # None
  <2>1. files[p] \in File
    BY <1>2
  <2>2. [files[p] EXCEPT !.entry = TRUE] \in File
    BY <2>1 DEF File
  <2>3. [files[p] EXCEPT !.entry = TRUE] # None
    BY <2>2, NoneIsNothing
  <2> QED
    BY <1>2, <2>1, <2>2, <2>3 DEF Synced, File
<1> QED
  BY <1>1, <1>2

\* What a crash leaves of every file: nothing, if its entry was not fsynced, or
\* the file, torn only if its bytes were not.
LEMMA CrashedFiles ==
    ASSUME TypeOK, HostCrash, NEW p \in Places
    PROVE  /\ files'[p] \in File \cup {None}
           /\ files[p] = None => files'[p] = None
           /\ files[p] # None /\ files[p].entry => files'[p] # None
           /\ files'[p] # None =>
                 /\ files'[p].by = files[p].by
                 /\ files'[p].run = files[p].run
                 /\ files'[p].entry
                 /\ files[p].bytes = "synced" => files'[p].bytes = "synced"
<1>1. PICK lost \in SUBSET {q \in Places : files[q] # None /\ ~files[q].entry},
           torn \in SUBSET {q \in Places : files[q] # None /\ files[q].bytes = "buffered"} :
        files' = [q \in Places |->
            IF files[q] = None \/ q \in lost THEN None
            ELSE [by |-> files[q].by, run |-> files[q].run, entry |-> TRUE,
                  bytes |-> IF q \in torn \/ files[q].bytes = "torn" THEN "torn" ELSE "synced"]]
  BY DEF HostCrash
<1> DEFINE left == [by |-> files[p].by, run |-> files[p].run, entry |-> TRUE,
                    bytes |-> IF p \in torn \/ files[p].bytes = "torn" THEN "torn" ELSE "synced"]
<1>2. files'[p] = IF files[p] = None \/ p \in lost THEN None ELSE left
  BY <1>1
<1>3. files[p] # None => left \in File
  BY DEF TypeOK, File
<1>4. files[p] # None => left # None
  BY <1>3, NoneIsNothing
<1>5. /\ left.by = files[p].by
      /\ left.run = files[p].run
      /\ left.entry
      /\ files[p].bytes = "synced" /\ p \notin torn => left.bytes = "synced"
  OBVIOUS
<1>6. /\ p \in lost => files[p] # None /\ ~files[p].entry
      /\ p \in torn => files[p].bytes = "buffered"
  BY <1>1
<1> HIDE DEF left
<1> QED
  BY <1>2, <1>3, <1>4, <1>5, <1>6

\* And of every evaluation: an invalidation is undone only before its fsync.
LEMMA CrashedEvaluations ==
    ASSUME TypeOK, HostCrash, NEW e \in Evaluations
    PROVE  /\ evaluations'[e] \in Directory \cup {None}
           /\ evaluations[e] = None => evaluations'[e] = None
           /\ evaluations'[e] # None =>
                 /\ evaluations'[e].by = evaluations[e].by
                 /\ evaluations'[e].entry
                 /\ evaluations[e].manifest # "unlinked" =>
                       evaluations'[e].manifest = evaluations[e].manifest
           /\ evaluations[e] # None /\ evaluations[e].entry => evaluations'[e] # None
<1>1. PICK lost \in SUBSET {d \in Evaluations : evaluations[d] # None /\ ~evaluations[d].entry},
           back \in SUBSET {d \in Evaluations : evaluations[d] # None
                                                 /\ evaluations[d].manifest = "unlinked"} :
        evaluations' = [d \in Evaluations |->
            IF evaluations[d] = None \/ d \in lost THEN None
            ELSE [by |-> evaluations[d].by, entry |-> TRUE,
                  manifest |-> IF d \in back THEN "present"
                               ELSE IF evaluations[d].manifest = "unlinked" THEN "removed"
                               ELSE evaluations[d].manifest]]
  BY DEF HostCrash
<1> DEFINE left == [by |-> evaluations[e].by, entry |-> TRUE,
                    manifest |-> IF e \in back THEN "present"
                                 ELSE IF evaluations[e].manifest = "unlinked" THEN "removed"
                                 ELSE evaluations[e].manifest]
<1>2. evaluations'[e] = IF evaluations[e] = None \/ e \in lost THEN None ELSE left
  BY <1>1
<1>3. evaluations[e] # None => left \in Directory
  BY DEF TypeOK, Directory
<1>4. /\ left.by = evaluations[e].by
      /\ left.entry
      /\ evaluations[e].manifest # "unlinked" /\ e \notin back =>
            left.manifest = evaluations[e].manifest
  OBVIOUS
<1>5. /\ e \in back => evaluations[e].manifest = "unlinked"
      /\ e \in lost => ~evaluations[e].entry
  BY <1>1
<1>6. evaluations[e] # None => left # None
  BY <1>3, NoneIsNothing
<1> HIDE DEF left
<1> QED
  BY <1>2, <1>3, <1>4, <1>5, <1>6

\* Every step keeps the types.
LEMMA TypeStep == IInv /\ [Next]_vars => TypeOK'
<1> SUFFICES ASSUME IInv, [Next]_vars PROVE TypeOK'
  OBVIOUS
<1>t. TypeOK
  BY DEF IInv
<1>1. CASE UNCHANGED vars
  BY <1>t, <1>1 DEF vars, request, TypeOK
<1>2. ASSUME NEW a \in Attempts, Step(a) PROVE TypeOK'
  <2>c. CallInv(a)
    BY DEF IInv
  <2>k. kind[a] \in {"marker", "claim", "completion"}
    BY <1>t DEF TypeOK
  <2>p. pc[a] # "new" => Place(a) \in Places
    BY <2>c, <2>k, PlaceOfCall DEF CallInv
  <2>1. ASSUME NEW r \in Runs, NEW e \in Evaluations, Preflight(a, r, e) PROVE TypeOK'
    BY <1>t, <2>1 DEF Preflight, Goto, TypeOK, Phases
  <2>2. CASE InspectClaim(a)
    BY <1>t, <2>2 DEF InspectClaim, Goto, TypeOK, Phases, Writing, Over, request
  <2>3. CASE CreateFile(a)
    <3>1. [by |-> a, run |-> run[a], bytes |-> "torn", entry |-> FALSE] \in File
      BY <2>3, <2>c DEF CreateFile, CallInv, File
    <3> HIDE DEF File
    <3> QED
      BY <1>t, <2>3, <2>p, <3>1 DEF CreateFile, Goto, TypeOK, Phases, Writing, request
  <2>4. CASE FileExists(a)
    BY <1>t, <2>4 DEF FileExists, Failing, Goto, TypeOK, Phases, Over, request
  <2>5. CASE WriteFile(a)
    <3>1. files[Place(a)] \in File
      BY <1>t, <2>5, <2>p, <2>c DEF WriteFile, TypeOK, CallInv, Mine
    <3>2. [files[Place(a)] EXCEPT !.bytes = "buffered"] \in File
      BY <3>1 DEF File
    <3>3. files' \in [Places -> File \cup {None}]
      BY <1>t, <2>5, <2>p, <3>2 DEF WriteFile, TypeOK
    <3> QED
      BY <1>t, <2>5, <3>3 DEF WriteFile, Goto, TypeOK, Phases, Writing, request
  <2>6. CASE SyncFile(a)
    <3>1. files[Place(a)] \in File
      BY <1>t, <2>6, <2>p, <2>c DEF SyncFile, TypeOK, CallInv, Mine
    <3>2. [files[Place(a)] EXCEPT !.bytes = "synced"] \in File
      BY <3>1 DEF File
    <3>3. files' \in [Places -> File \cup {None}]
      BY <1>t, <2>6, <2>p, <3>2 DEF SyncFile, TypeOK
    <3> QED
      BY <1>t, <2>6, <3>3 DEF SyncFile, Goto, TypeOK, Phases, Writing, request
  <2>7. CASE SyncDirectory(a)
    <3>1. files' \in [Places -> File \cup {None}]
      BY <1>t, <2>7, SyncedFiles DEF SyncDirectory, TypeOK
    <3>2. /\ kind' \in [Attempts -> {"marker", "claim", "completion"}]
          /\ pc' \in [Attempts -> Phases]
      BY <1>t, <2>7 DEF SyncDirectory, Written, Goto, TypeOK, Phases, Writing
    <3> QED
      BY <1>t, <2>7, <3>1, <3>2 DEF SyncDirectory, TypeOK, request
  <2>8. CASE WritingFails(a)
    <3>1. files' \in [Places -> File \cup {None}]
      BY <1>t, <2>8, SyncedFiles DEF WritingFails, TypeOK
    <3>2. pc' \in [Attempts -> Phases]
      BY <1>t, <2>8 DEF WritingFails, Failing, Goto, TypeOK, Phases, Over
    <3> QED
      BY <1>t, <2>8, <3>1, <3>2 DEF WritingFails, TypeOK, request
  <2>9. CASE OpenHoldout(a)
    BY <1>t, <2>9 DEF OpenHoldout, Goto, TypeOK, Phases, request
  <2>10. CASE RenameEvaluation(a)
    <3>1. [by |-> a, manifest |-> "present", entry |-> FALSE] \in Directory
      BY DEF Directory
    <3> QED
      BY <1>t, <2>10, <3>1 DEF RenameEvaluation, Goto, TypeOK, Phases, request
  <2>11. CASE SyncRoot(a)
    <3>1. \A e \in Evaluations :
            evaluations[e] # None => [evaluations[e] EXCEPT !.entry = TRUE] \in Directory
      BY <1>t DEF TypeOK, Directory
    <3>2. evaluations' \in [Evaluations -> Directory \cup {None}]
      BY <1>t, <2>11, <3>1 DEF SyncRoot, TypeOK
    <3> QED
      BY <1>t, <2>11, <3>2 DEF SyncRoot, Goto, TypeOK, Phases, Writing, request
  <2>12. CASE PublishFails(a)
    BY <1>t, <2>12 DEF PublishFails, Goto, TypeOK, Phases, Over, request
  <2>13. CASE VerifyCompleted(a)
    BY <1>t, <2>13 DEF VerifyCompleted, Goto, TypeOK, Phases, Over, request
  <2>14. CASE UnlinkManifest(a)
    <3>1. eval[a] \in Evaluations /\ evaluations[eval[a]] \in Directory
      BY <1>t, <2>14, <2>c DEF UnlinkManifest, CallInv, Published, TypeOK
    <3>2. [evaluations[eval[a]] EXCEPT !.manifest = "unlinked"] \in Directory
      BY <3>1 DEF Directory
    <3> QED
      BY <1>t, <2>14, <3>1, <3>2 DEF UnlinkManifest, Goto, TypeOK, Phases, request
  <2>15. CASE SyncUnlink(a)
    <3>1. eval[a] \in Evaluations /\ evaluations[eval[a]] \in Directory
      BY <1>t, <2>15, <2>c DEF SyncUnlink, CallInv, Published, TypeOK
    <3>2. [evaluations[eval[a]] EXCEPT !.manifest = "removed"] \in Directory
      BY <3>1 DEF Directory
    <3> QED
      BY <1>t, <2>15, <3>1, <3>2 DEF SyncUnlink, Goto, TypeOK, Phases, Over, request
  <2>16. CASE Die(a)
    BY <1>t, <2>16 DEF Die, Goto, TypeOK, Phases, Over, request
  <2> QED
    BY <1>2, <2>1, <2>2, <2>3, <2>4, <2>5, <2>6, <2>7, <2>8, <2>9, <2>10, <2>11,
       <2>12, <2>13, <2>14, <2>15, <2>16 DEF Step
<1>3. ASSUME NEW r \in Runs, NEW s \in Runs, CopyRun(r, s) PROVE TypeOK'
  <2>1. \A p \in Places : p[1] = s => <<r, p[2]>> \in Places
    BY GenerationAssumption DEF Places
  <2>2. \A f \in File : [f EXCEPT !.bytes = IF @ = "torn" THEN @ ELSE "buffered",
                                   !.entry = FALSE] \in File
    BY DEF File
  <2>3. files' \in [Places -> File \cup {None}]
    BY <1>t, <1>3, <2>1, <2>2 DEF CopyRun, TypeOK
  <2> QED
    BY <1>t, <1>3, <2>3 DEF CopyRun, TypeOK, request
<1>4. CASE HostCrash
  <2>1. \A p \in Places : files'[p] \in File \cup {None}
    BY <1>t, <1>4, CrashedFiles
  <2>2. \A e \in Evaluations : evaluations'[e] \in Directory \cup {None}
    BY <1>t, <1>4, CrashedEvaluations
  <2>3. files' \in [Places -> File \cup {None}]
    BY <1>4, <2>1 DEF HostCrash
  <2>6. evaluations' \in [Evaluations -> Directory \cup {None}]
    BY <1>4, <2>2 DEF HostCrash
  <2>7. pc' \in [Attempts -> Phases]
    BY <1>t, <1>4 DEF HostCrash, TypeOK, Phases, Over
  <2> QED
    BY <1>t, <1>4, <2>3, <2>6, <2>7 DEF HostCrash, TypeOK, request
<1> QED
  BY <1>1, <1>2, <1>3, <1>4 DEF Next

\* What a step of one call leaves to the others: their state, and every file and
\* evaluation that is not its own.
Apart(a) ==
    /\ \A b \in Attempts \ {a} :
          /\ pc'[b] = pc[b]
          /\ kind'[b] = kind[b]
          /\ run'[b] = run[b]
          /\ eval'[b] = eval[b]
          /\ b \in opened' <=> b \in opened
    /\ \A p \in Places : files[p] # None /\ files[p].by # a =>
          /\ files'[p] # None
          /\ files'[p].by = files[p].by
          /\ files'[p].run = files[p].run
          /\ files'[p].bytes = files[p].bytes
          /\ files[p].entry => files'[p].entry
    /\ \A e \in Evaluations :
          /\ evaluations[e] # None /\ evaluations[e].by # a =>
                /\ evaluations'[e] # None
                /\ evaluations'[e].by = evaluations[e].by
                /\ evaluations'[e].manifest = evaluations[e].manifest
                /\ evaluations[e].entry => evaluations'[e].entry
          /\ evaluations'[e] # None /\ evaluations'[e].by # a =>
                evaluations[e] # None /\ evaluations[e].by = evaluations'[e].by

\* So each other call keeps its invariant.
LEMMA OtherCalls ==
    ASSUME IInv, NEW a \in Attempts, Apart(a), NEW b \in Attempts, b # a
    PROVE  CallInv(b)'
<1>1. CallInv(b)
  BY DEF IInv
<1>2. kind[b] \in {"marker", "claim", "completion"}
  BY DEF IInv, TypeOK
<1>3. pc[b] # "new" => Place(b) \in Places
  BY <1>1, <1>2, PlaceOfCall DEF CallInv
<1>4. /\ pc'[b] = pc[b]
      /\ kind'[b] = kind[b]
      /\ run'[b] = run[b]
      /\ eval'[b] = eval[b]
      /\ b \in opened' <=> b \in opened
  BY DEF Apart
<1>5. Place(b)' = Place(b)
  BY <1>4 DEF Place
<1>6. pc[b] # "new" /\ Mine(b) => Mine(b)' /\ files'[Place(b)'].bytes = files[Place(b)].bytes
  BY <1>3, <1>4, <1>5 DEF Mine, Apart
<1>7. Consumed(b) => Consumed(b)'
  BY <1>4, MarkerPlace DEF Consumed, Apart
<1>8. eval[b] \in Evaluations /\ evaluations[eval[b]] # None /\ evaluations[eval[b]].by = b =>
        evaluations'[eval'[b]] # None /\ evaluations'[eval'[b]].by = b
  BY <1>4 DEF Apart
<1> QED
  BY <1>1, <1>4, <1>6, <1>7, <1>8 DEF CallInv, Writing, Published

\* And so does each evaluation of another call.
LEMMA OtherEvaluations ==
    ASSUME IInv, NEW a \in Attempts, Apart(a), NEW e \in Evaluations,
           evaluations'[e] # None, evaluations'[e].by # a, evaluations'[e].by \in Attempts
    PROVE  EvaluationInv(e)'
  BY DEF IInv, EvaluationInv, Apart

\* A step of a call leaves the others alone.
LEMMA StepApart == ASSUME IInv, NEW a \in Attempts, Step(a) PROVE Apart(a)
<1>t. TypeOK
  BY DEF IInv
<1>c. CallInv(a)
  BY DEF IInv
<1>p. pc[a] # "new" => Place(a) \in Places
  BY <1>t, <1>c, PlaceOfCall DEF CallInv, TypeOK
<1>1. ASSUME NEW r \in Runs, NEW e \in Evaluations, Preflight(a, r, e) PROVE Apart(a)
  BY <1>t, <1>1 DEF Preflight, Goto, Apart, TypeOK
<1>2. CASE InspectClaim(a)
  BY <1>t, <1>2 DEF InspectClaim, Goto, Apart, TypeOK, request
<1>3. CASE FileExists(a)
  BY <1>t, <1>3 DEF FileExists, Goto, Apart, TypeOK, request
<1>4. CASE OpenHoldout(a)
  BY <1>t, <1>4 DEF OpenHoldout, Goto, Apart, TypeOK, request
<1>5. CASE PublishFails(a)
  BY <1>t, <1>5 DEF PublishFails, Goto, Apart, TypeOK, request
<1>6. CASE VerifyCompleted(a)
  BY <1>t, <1>6 DEF VerifyCompleted, Goto, Apart, TypeOK, request
<1>7. CASE Die(a)
  BY <1>t, <1>7 DEF Die, Goto, Apart, TypeOK, request
<1>8. CASE CreateFile(a)
  <2>1. \A p \in Places : files[p] # None /\ files[p].by # a => files'[p] = files[p]
    BY <1>t, <1>8, <1>p, <1>c DEF CreateFile, TypeOK
  <2> QED
    BY <1>t, <1>8, <2>1 DEF CreateFile, Goto, Apart, TypeOK, request
<1>9. CASE WriteFile(a)
  <2>1. \A p \in Places : files[p] # None /\ files[p].by # a => files'[p] = files[p]
    BY <1>t, <1>9, <1>p, <1>c DEF WriteFile, TypeOK, Mine, CallInv
  <2> QED
    BY <1>t, <1>9, <2>1 DEF WriteFile, Goto, Apart, TypeOK, request
<1>10. CASE SyncFile(a)
  <2>1. \A p \in Places : files[p] # None /\ files[p].by # a => files'[p] = files[p]
    BY <1>t, <1>10, <1>p, <1>c DEF SyncFile, TypeOK, Mine, CallInv
  <2> QED
    BY <1>t, <1>10, <2>1 DEF SyncFile, Goto, Apart, TypeOK, request
<1>11. CASE SyncDirectory(a)
  <2>1. \A p \in Places : files[p] # None =>
          /\ files'[p] # None
          /\ files'[p].by = files[p].by
          /\ files'[p].run = files[p].run
          /\ files'[p].bytes = files[p].bytes
          /\ files[p].entry => files'[p].entry
    BY <1>t, <1>11, SyncedFiles DEF SyncDirectory, TypeOK
  <2> QED
    BY <1>t, <1>11, <2>1 DEF SyncDirectory, Written, Goto, Apart, TypeOK, request
<1>12. CASE WritingFails(a)
  <2>1. \A p \in Places : files[p] # None =>
          /\ files'[p] # None
          /\ files'[p].by = files[p].by
          /\ files'[p].run = files[p].run
          /\ files'[p].bytes = files[p].bytes
          /\ files[p].entry => files'[p].entry
    BY <1>t, <1>12, SyncedFiles DEF WritingFails, TypeOK
  <2> QED
    BY <1>t, <1>12, <2>1 DEF WritingFails, Goto, Apart, TypeOK, request
<1>13. CASE RenameEvaluation(a)
  <2>1. eval[a] \in Evaluations
    BY <1>t, <1>13, <1>c DEF RenameEvaluation, CallInv
  <2>2. \A e \in Evaluations : e # eval[a] => evaluations'[e] = evaluations[e]
    BY <1>t, <1>13 DEF RenameEvaluation, TypeOK
  <2>3. evaluations[eval[a]] = None /\ evaluations'[eval[a]].by = a
    BY <1>t, <1>13, <2>1 DEF RenameEvaluation, TypeOK
  <2> QED
    BY <1>t, <1>13, <2>1, <2>2, <2>3 DEF RenameEvaluation, Goto, Apart, TypeOK, request
<1>14. CASE SyncRoot(a)
  <2>1. \A e \in Evaluations :
          /\ evaluations[e] = None => evaluations'[e] = None
          /\ evaluations[e] # None =>
                /\ evaluations'[e] = [evaluations[e] EXCEPT !.entry = TRUE]
                /\ evaluations[e] \in Directory
    BY <1>t, <1>14 DEF SyncRoot, TypeOK
  <2>2. \A d \in Directory :
          /\ [d EXCEPT !.entry = TRUE] # None
          /\ [d EXCEPT !.entry = TRUE].by = d.by
          /\ [d EXCEPT !.entry = TRUE].manifest = d.manifest
          /\ [d EXCEPT !.entry = TRUE].entry
    <3>1. ASSUME NEW d \in Directory PROVE [d EXCEPT !.entry = TRUE] \in Directory
      BY <3>1 DEF Directory
    <3>2. ASSUME NEW d \in Directory
          PROVE  /\ [d EXCEPT !.entry = TRUE].by = d.by
                 /\ [d EXCEPT !.entry = TRUE].manifest = d.manifest
                 /\ [d EXCEPT !.entry = TRUE].entry
      BY <3>2 DEF Directory
    <3> QED
      BY <3>1, <3>2, NoneIsNothing
  <2>3. \A e \in Evaluations :
          /\ evaluations'[e] = None <=> evaluations[e] = None
          /\ evaluations[e] # None =>
                /\ evaluations'[e].by = evaluations[e].by
                /\ evaluations'[e].manifest = evaluations[e].manifest
                /\ evaluations'[e].entry
    BY <2>1, <2>2
  <2> QED
    BY <1>t, <1>14, <2>3 DEF SyncRoot, Goto, Apart, TypeOK, request
<1>15. CASE UnlinkManifest(a)
  <2>1. eval[a] \in Evaluations /\ evaluations[eval[a]].by = a /\ evaluations[eval[a]] \in Directory
    BY <1>t, <1>15, <1>c DEF UnlinkManifest, CallInv, Published, TypeOK
  <2>2. \A e \in Evaluations : e # eval[a] => evaluations'[e] = evaluations[e]
    BY <1>t, <1>15 DEF UnlinkManifest, TypeOK
  <2>3. evaluations'[eval[a]].by = a
    BY <1>t, <1>15, <2>1 DEF UnlinkManifest, TypeOK, Directory
  <2> QED
    BY <1>t, <1>15, <2>1, <2>2, <2>3 DEF UnlinkManifest, Goto, Apart, TypeOK, request
<1>16. CASE SyncUnlink(a)
  <2>1. eval[a] \in Evaluations /\ evaluations[eval[a]].by = a /\ evaluations[eval[a]] \in Directory
    BY <1>t, <1>16, <1>c DEF SyncUnlink, CallInv, Published, TypeOK
  <2>2. \A e \in Evaluations : e # eval[a] => evaluations'[e] = evaluations[e]
    BY <1>t, <1>16 DEF SyncUnlink, TypeOK
  <2>3. evaluations'[eval[a]].by = a
    BY <1>t, <1>16, <2>1 DEF SyncUnlink, TypeOK, Directory
  <2> QED
    BY <1>t, <1>16, <2>1, <2>2, <2>3 DEF SyncUnlink, Goto, Apart, TypeOK, request
<1> QED
  BY <1>1, <1>2, <1>3, <1>4, <1>5, <1>6, <1>7, <1>8, <1>9, <1>10, <1>11, <1>12, <1>13, <1>14, <1>15, <1>16 DEF Step

\* A consumed generation stays consumed by the same call.
LEMMA ConsumedStays ==
    ASSUME IInv, NEW a \in Attempts, Step(a), kind[a] # "marker"
    PROVE  Consumed(a)' /\ run'[a] = run[a] /\ eval'[a] = eval[a]
<1>t. TypeOK
  BY DEF IInv
<1>c. CallInv(a) /\ Consumed(a) /\ pc[a] \notin {"new", "inspect"}
  BY DEF IInv, CallInv
<1>m. <<Registry, "marker">> \in Places /\ Place(a) # <<Registry, "marker">>
  BY MarkerPlace
<1>1. CASE UNCHANGED files /\ UNCHANGED request
  BY <1>1, <1>c DEF Consumed, request
<1>2. CASE CreateFile(a) \/ WriteFile(a) \/ SyncFile(a)
  <2>1. files'[<<Registry, "marker">>] = files[<<Registry, "marker">>]
    BY <1>t, <1>2, <1>m DEF CreateFile, WriteFile, SyncFile, TypeOK
  <2>2. run' = run /\ eval' = eval
    BY <1>2 DEF CreateFile, WriteFile, SyncFile, request
  <2> QED
    BY <1>c, <2>1, <2>2 DEF Consumed
<1>3. CASE SyncDirectory(a) \/ WritingFails(a)
  <2>1. files' = files \/ files' = Synced(Place(a)[1])
    BY <1>3 DEF SyncDirectory, WritingFails
  <2>2. run' = run /\ eval' = eval
    BY <1>3 DEF SyncDirectory, WritingFails, request
  <2> QED
    BY <1>t, <1>c, <1>m, <2>1, <2>2, SyncedFiles DEF Consumed, TypeOK
<1>4. ASSUME NEW r \in Runs, NEW e \in Evaluations, Preflight(a, r, e) PROVE FALSE
  BY <1>c, <1>4 DEF Preflight
<1> QED
  BY <1>1, <1>2, <1>3, <1>4
     DEF Step, InspectClaim, FileExists, OpenHoldout, RenameEvaluation, SyncRoot,
         PublishFails, VerifyCompleted, UnlinkManifest, SyncUnlink, Die

\* The call that steps keeps its own invariant.
LEMMA OwnCall == ASSUME IInv, NEW a \in Attempts, Step(a) PROVE CallInv(a)'
<1>t. TypeOK
  BY DEF IInv
<1>c. CallInv(a)
  BY DEF IInv
<1>k. kind[a] \in {"marker", "claim", "completion"}
  BY <1>t DEF TypeOK
<1>p. pc[a] # "new" => Place(a) \in Places
  BY <1>c, <1>k, PlaceOfCall DEF CallInv
<1>s. kind[a] # "marker" => Consumed(a)' /\ run'[a] = run[a] /\ eval'[a] = eval[a]
  BY ConsumedStays
<1> USE DEF Goto, Writing, Published, request
<1>1. ASSUME NEW r \in Runs, NEW e \in Evaluations, Preflight(a, r, e) PROVE CallInv(a)'
  <2>1. /\ pc'[a] = "inspect" /\ kind'[a] = "marker" /\ a \notin opened'
        /\ run'[a] \in Runs /\ eval'[a] \in Evaluations
    BY <1>t, <1>c, <1>1 DEF Preflight, TypeOK, CallInv
  <2> QED
    BY <2>1 DEF CallInv
<1>2. CASE InspectClaim(a)
  BY <1>t, <1>c, <1>k, <1>s, <1>2 DEF InspectClaim, TypeOK, CallInv
<1>3. CASE FileExists(a)
  <2>1. /\ pc[a] = "create" /\ pc'[a] = Failing(a)
        /\ UNCHANGED <<files, evaluations, run, eval, kind, opened>>
    BY <1>t, <1>3 DEF FileExists, TypeOK
  <2> QED
    BY <1>c, <1>k, <1>s, <2>1 DEF Failing, CallInv
<1>4. CASE OpenHoldout(a)
  BY <1>t, <1>c, <1>k, <1>s, <1>4 DEF OpenHoldout, TypeOK, CallInv
<1>5. CASE PublishFails(a)
  BY <1>t, <1>c, <1>k, <1>s, <1>5 DEF PublishFails, TypeOK, CallInv
<1>6. CASE VerifyCompleted(a)
  BY <1>t, <1>c, <1>k, <1>s, <1>6 DEF VerifyCompleted, TypeOK, CallInv
<1>7. CASE Die(a)
  BY <1>t, <1>c, <1>k, <1>s, <1>7 DEF Die, TypeOK, CallInv
<1>8. CASE CreateFile(a)
  <2>1. /\ pc[a] = "create" /\ pc'[a] = "write"
        /\ UNCHANGED <<evaluations, run, eval, kind, opened>>
    BY <1>t, <1>8 DEF CreateFile, TypeOK
  <2>2. Place(a)' = Place(a)
    BY <2>1 DEF Place
  <2>3. files'[Place(a)] = [by |-> a, run |-> run[a], bytes |-> "torn", entry |-> FALSE]
    BY <1>t, <1>p, <1>8 DEF CreateFile, TypeOK
  <2>4. files'[Place(a)] \in File
    BY <1>c, <2>1, <2>3 DEF CallInv, File
  <2>5. files'[Place(a)].by = a /\ files'[Place(a)].run = run[a]
    BY <2>3
  <2>6. files'[Place(a)] # None
    BY <2>4, NoneIsNothing
  <2>7. Mine(a)'
    BY <2>1, <2>2, <2>5, <2>6 DEF Mine
  <2> QED
    BY <1>c, <1>s, <2>1, <2>7 DEF CallInv
<1>9. CASE WriteFile(a)
  <2>1. /\ pc[a] = "write" /\ pc'[a] = "sync"
        /\ UNCHANGED <<evaluations, run, eval, kind, opened>>
    BY <1>t, <1>9 DEF WriteFile, TypeOK
  <2>2. Place(a)' = Place(a)
    BY <2>1 DEF Place
  <2>3. files[Place(a)] \in File /\ Mine(a)
    BY <1>t, <1>c, <1>p, <2>1 DEF CallInv, Mine, TypeOK
  <2>4. files'[Place(a)] = [files[Place(a)] EXCEPT !.bytes = "buffered"]
    BY <1>t, <1>p, <1>9 DEF WriteFile, TypeOK
  <2>5. /\ files'[Place(a)] \in File
        /\ files'[Place(a)].by = files[Place(a)].by
        /\ files'[Place(a)].run = files[Place(a)].run
    BY <2>3, <2>4 DEF File
  <2>6. Mine(a)'
    BY <2>1, <2>2, <2>3, <2>5, NoneIsNothing DEF Mine
  <2> QED
    BY <1>c, <1>s, <2>1, <2>6 DEF CallInv
<1>10. CASE SyncFile(a)
  <2>1. /\ pc[a] = "sync" /\ pc'[a] = "sync_directory"
        /\ UNCHANGED <<evaluations, run, eval, kind, opened>>
    BY <1>t, <1>10 DEF SyncFile, TypeOK
  <2>2. Place(a)' = Place(a)
    BY <2>1 DEF Place
  <2>3. files[Place(a)] \in File /\ Mine(a)
    BY <1>t, <1>c, <1>p, <2>1 DEF CallInv, Mine, TypeOK
  <2>4. files'[Place(a)] = [files[Place(a)] EXCEPT !.bytes = "synced"]
    BY <1>t, <1>p, <1>10 DEF SyncFile, TypeOK
  <2>5. /\ files'[Place(a)] \in File
        /\ files'[Place(a)].by = files[Place(a)].by
        /\ files'[Place(a)].run = files[Place(a)].run
        /\ files'[Place(a)].bytes = "synced"
    BY <2>3, <2>4 DEF File
  <2>6. Mine(a)' /\ files'[Place(a)'].bytes = "synced"
    BY <2>1, <2>2, <2>3, <2>5, NoneIsNothing DEF Mine
  <2> QED
    BY <1>c, <1>s, <2>1, <2>6 DEF CallInv
<1>11. CASE SyncDirectory(a)
  <2>1. /\ pc[a] = "sync_directory" /\ files' = Synced(Place(a)[1]) /\ Written(a)
        /\ UNCHANGED <<evaluations, run, eval, opened>>
    BY <1>11 DEF SyncDirectory
  <2>2. /\ Mine(a) /\ files[Place(a)].bytes = "synced"
        /\ kind[a] = "marker" => a \notin opened
    BY <1>c, <2>1 DEF CallInv
  <2>3. CASE kind[a] = "marker"
    <3>1. Place(a) = <<Registry, "marker">> /\ <<Registry, "marker">> \in Places
      BY <2>3, MarkerPlace
    <3>2. Consumed(a)'
      BY <1>t, <2>1, <2>2, <3>1, SyncedFiles DEF Mine, Consumed, TypeOK
    <3>3. pc'[a] = "create" /\ kind'[a] = "claim"
      BY <1>t, <2>1, <2>3 DEF Written, TypeOK
    <3> QED
      BY <1>c, <2>1, <2>2, <2>3, <3>2, <3>3 DEF CallInv
  <2>4. CASE kind[a] = "claim"
    <3>1. pc'[a] = "open" /\ kind'[a] = "claim"
      BY <1>t, <2>1, <2>4 DEF Written, TypeOK
    <3> QED
      BY <1>c, <1>s, <2>1, <2>4, <3>1 DEF CallInv
  <2>5. CASE kind[a] = "completion"
    <3>1. pc'[a] = "verify" /\ kind'[a] = "completion"
      BY <1>t, <2>1, <2>5 DEF Written, TypeOK
    <3> QED
      BY <1>c, <1>s, <2>1, <2>5, <3>1 DEF CallInv
  <2> QED
    BY <1>k, <2>3, <2>4, <2>5
<1>12. CASE WritingFails(a)
  <2>1. /\ pc[a] \in Writing /\ pc'[a] = Failing(a)
        /\ UNCHANGED <<evaluations, run, eval, kind, opened>>
    BY <1>t, <1>12 DEF WritingFails, TypeOK
  <2> QED
    BY <1>c, <1>k, <1>s, <2>1 DEF Failing, CallInv
<1>13. CASE RenameEvaluation(a)
  <2>1. /\ pc[a] = "rename" /\ pc'[a] = "sync_root"
        /\ UNCHANGED <<files, run, eval, kind, opened>>
    BY <1>t, <1>13 DEF RenameEvaluation, TypeOK
  <2>2. evaluations'[eval[a]] = [by |-> a, manifest |-> "present", entry |-> FALSE]
    BY <1>t, <1>c, <1>13 DEF RenameEvaluation, TypeOK, CallInv
  <2>3. evaluations'[eval[a]] \in Directory /\ evaluations'[eval[a]].by = a
    BY <2>2 DEF Directory
  <2>4. evaluations'[eval[a]] # None
    BY <2>3, NoneIsNothing
  <2> QED
    BY <1>c, <1>s, <2>1, <2>3, <2>4 DEF CallInv
<1>14. CASE SyncRoot(a)
  <2>1. /\ pc[a] = "sync_root" /\ pc'[a] = "create" /\ kind'[a] = "completion"
        /\ UNCHANGED <<files, run, eval, opened>>
    BY <1>t, <1>14 DEF SyncRoot, TypeOK
  <2>2. evaluations[eval[a]] \in Directory /\ evaluations[eval[a]].by = a
    BY <1>t, <1>c, <2>1 DEF CallInv, TypeOK
  <2>3. evaluations'[eval[a]] = [evaluations[eval[a]] EXCEPT !.entry = TRUE]
    BY <1>t, <1>c, <2>1, <1>14 DEF SyncRoot, CallInv, TypeOK
  <2>4. evaluations'[eval[a]] \in Directory /\ evaluations'[eval[a]].by = a
    BY <2>2, <2>3 DEF Directory
  <2> QED
    BY <1>c, <1>s, <2>1, <2>4, NoneIsNothing DEF CallInv
<1>15. CASE UnlinkManifest(a)
  <2>1. /\ pc[a] = "unlink" /\ pc'[a] = "sync_unlink"
        /\ UNCHANGED <<files, run, eval, kind, opened>>
    BY <1>t, <1>15 DEF UnlinkManifest, TypeOK
  <2>2. evaluations[eval[a]] \in Directory /\ evaluations[eval[a]].by = a
    BY <1>t, <1>c, <2>1 DEF CallInv, TypeOK
  <2>3. evaluations'[eval[a]] = [evaluations[eval[a]] EXCEPT !.manifest = "unlinked"]
    BY <1>t, <1>c, <2>1, <1>15 DEF UnlinkManifest, CallInv, TypeOK
  <2>4. evaluations'[eval[a]] \in Directory /\ evaluations'[eval[a]].by = a
    BY <2>2, <2>3 DEF Directory
  <2> QED
    BY <1>c, <1>s, <2>1, <2>4, NoneIsNothing DEF CallInv
<1>16. CASE SyncUnlink(a)
  BY <1>t, <1>c, <1>k, <1>s, <1>16 DEF SyncUnlink, TypeOK, CallInv
<1> QED
  BY <1>1, <1>2, <1>3, <1>4, <1>5, <1>6, <1>7, <1>8, <1>9, <1>10, <1>11, <1>12, <1>13, <1>14, <1>15, <1>16 DEF Step

\* And the invariant of its evaluation.
LEMMA OwnEvaluation ==
    ASSUME IInv, NEW a \in Attempts, Step(a), NEW e \in Evaluations,
           evaluations'[e] # None, evaluations'[e].by = a
    PROVE  EvaluationInv(e)'
<1>t. TypeOK
  BY DEF IInv
<1>c. CallInv(a)
  BY DEF IInv
<1>k. kind[a] \in {"marker", "claim", "completion"}
  BY <1>t DEF TypeOK
<1>e. EvaluationInv(e)
  BY DEF IInv
<1> USE DEF Goto, Writing, Published, request
<1>1. ASSUME NEW r \in Runs, NEW d \in Evaluations, Preflight(a, r, d) PROVE EvaluationInv(e)'
  BY <1>t, <1>c, <1>e, <1>1 DEF Preflight, TypeOK, CallInv, EvaluationInv
<1>2. CASE InspectClaim(a)
  BY <1>t, <1>c, <1>e, <1>2 DEF InspectClaim, TypeOK, CallInv, EvaluationInv
<1>3. CASE FileExists(a)
  <2>1. /\ pc[a] = "create" /\ pc'[a] = Failing(a)
        /\ UNCHANGED <<evaluations, eval, kind, opened>>
    BY <1>t, <1>3 DEF FileExists, TypeOK
  <2> QED
    BY <1>c, <1>k, <1>e, <2>1 DEF Failing, CallInv, EvaluationInv
<1>4. CASE OpenHoldout(a)
  BY <1>t, <1>c, <1>e, <1>4 DEF OpenHoldout, TypeOK, CallInv, EvaluationInv
<1>5. CASE PublishFails(a)
  BY <1>t, <1>c, <1>e, <1>5 DEF PublishFails, TypeOK, CallInv, EvaluationInv
<1>6. CASE VerifyCompleted(a)
  BY <1>t, <1>c, <1>e, <1>6 DEF VerifyCompleted, TypeOK, CallInv, EvaluationInv
<1>7. CASE Die(a)
  BY <1>t, <1>c, <1>e, <1>7 DEF Die, TypeOK, CallInv, EvaluationInv
<1>8. CASE CreateFile(a)
  BY <1>t, <1>c, <1>e, <1>8 DEF CreateFile, TypeOK, CallInv, EvaluationInv
<1>9. CASE WriteFile(a)
  BY <1>t, <1>c, <1>e, <1>9 DEF WriteFile, TypeOK, CallInv, EvaluationInv
<1>10. CASE SyncFile(a)
  BY <1>t, <1>c, <1>e, <1>10 DEF SyncFile, TypeOK, CallInv, EvaluationInv
<1>11. CASE SyncDirectory(a)
  <2>1. /\ pc[a] = "sync_directory" /\ Written(a)
        /\ UNCHANGED <<evaluations, eval, opened>>
    BY <1>11 DEF SyncDirectory
  <2>2. kind[a] = "completion" /\ evaluations[e].by = a
    BY <1>e, <2>1 DEF EvaluationInv
  <2>3. pc'[a] = "verify" /\ kind'[a] = "completion"
    BY <1>t, <2>1, <2>2 DEF Written, TypeOK
  <2> QED
    BY <1>e, <2>1, <2>2, <2>3 DEF EvaluationInv
<1>12. CASE WritingFails(a)
  <2>1. /\ pc[a] \in Writing /\ pc'[a] = Failing(a)
        /\ UNCHANGED <<evaluations, eval, kind, opened>>
    BY <1>t, <1>12 DEF WritingFails, TypeOK
  <2>2. kind[a] = "completion" /\ evaluations[e].by = a
    BY <1>e, <2>1 DEF EvaluationInv
  <2> QED
    BY <1>e, <2>1, <2>2 DEF Failing, EvaluationInv
<1>13. CASE RenameEvaluation(a)
  BY <1>t, <1>c, <1>e, <1>13 DEF RenameEvaluation, TypeOK, CallInv, EvaluationInv
<1>14. CASE SyncRoot(a)
  BY <1>t, <1>c, <1>e, <1>14 DEF SyncRoot, TypeOK, CallInv, EvaluationInv
<1>15. CASE UnlinkManifest(a)
  BY <1>t, <1>c, <1>e, <1>15 DEF UnlinkManifest, TypeOK, CallInv, EvaluationInv
<1>16. CASE SyncUnlink(a)
  BY <1>t, <1>c, <1>e, <1>16 DEF SyncUnlink, TypeOK, CallInv, EvaluationInv
<1> QED
  BY <1>1, <1>2, <1>3, <1>4, <1>5, <1>6, <1>7, <1>8, <1>9, <1>10, <1>11, <1>12, <1>13, <1>14, <1>15, <1>16 DEF Step

\* Copying a run keeps the invariant: no call works in the copy, and the marker
\* is not copied.
LEMMA CopyInv ==
    ASSUME IInv, NEW r \in Runs, NEW s \in Runs, CopyRun(r, s)
    PROVE  /\ \A a \in Attempts : CallInv(a)'
           /\ \A e \in Evaluations : EvaluationInv(e)'
<1>t. TypeOK
  BY DEF IInv
<1>1. /\ UNCHANGED <<evaluations, pc, run, eval, kind, opened>>
      /\ \A a \in Attempts : run[a] # s
      /\ \A p \in Places : p[1] # s => files'[p] = files[p]
  BY DEF CopyRun, request
<1>2. ASSUME NEW a \in Attempts PROVE CallInv(a)'
  <2>1. CallInv(a) /\ kind[a] \in {"marker", "claim", "completion"}
    BY <1>t DEF IInv, TypeOK
  <2>2. Place(a)' = Place(a) /\ Place(a)[1] # s
    BY <1>1, GenerationAssumption DEF Place
  <2>3. pc[a] # "new" => files'[Place(a)] = files[Place(a)]
    BY <1>1, <2>1, <2>2, PlaceOfCall DEF CallInv
  <2>4. files'[<<Registry, "marker">>] = files[<<Registry, "marker">>]
    BY <1>1, MarkerPlace, GenerationAssumption
  <2>5. pc[a] # "new" /\ Mine(a) => Mine(a)' /\ files'[Place(a)'].bytes = files[Place(a)].bytes
    BY <1>1, <2>2, <2>3 DEF Mine
  <2>6. Consumed(a) => Consumed(a)'
    BY <1>1, <2>4 DEF Consumed
  <2> QED
    BY <1>1, <2>1, <2>5, <2>6 DEF CallInv
<1>3. ASSUME NEW e \in Evaluations PROVE EvaluationInv(e)'
  BY <1>1, <1>3 DEF IInv, EvaluationInv
<1> QED
  BY <1>2, <1>3

\* So does a crash: what a durable marker says stays, and an invalidation that
\* was finished is not undone.
LEMMA CrashInv ==
    ASSUME IInv, HostCrash
    PROVE  /\ \A a \in Attempts : CallInv(a)'
           /\ \A e \in Evaluations : EvaluationInv(e)'
<1>t. TypeOK
  BY DEF IInv
<1>1. /\ UNCHANGED <<run, eval, kind, opened>>
      /\ \A a \in Attempts : pc'[a] = IF pc[a] \in Over \cup {"new"} THEN pc[a] ELSE "dead"
  BY <1>t DEF HostCrash, request, TypeOK
<1>2. ASSUME NEW a \in Attempts PROVE CallInv(a)'
  <2>1. CallInv(a)
    BY DEF IInv
  <2>2. Consumed(a) => Consumed(a)'
    BY <1>t, <1>1, CrashedFiles, MarkerPlace DEF Consumed
  <2>3. pc'[a] \in Over \cup {"new"} /\ (pc'[a] = "new" => pc[a] = "new")
    BY <1>1 DEF Over
  <2> QED
    BY <1>1, <2>1, <2>2, <2>3 DEF CallInv, Over, Writing, Published
<1>3. ASSUME NEW e \in Evaluations PROVE EvaluationInv(e)'
  <2>1. EvaluationInv(e)
    BY DEF IInv
  <2>2. CASE evaluations'[e] = None
    BY <2>2 DEF EvaluationInv
  <2>3. CASE evaluations'[e] # None
    <3>1. /\ evaluations[e] # None
          /\ evaluations'[e].by = evaluations[e].by
          /\ evaluations[e].manifest = "removed" => evaluations'[e].manifest = "removed"
      BY <1>t, <2>3, CrashedEvaluations
    <3>2. evaluations[e].by \in Attempts
      BY <1>t, <3>1 DEF TypeOK, Directory
    <3> QED
      BY <1>1, <2>1, <3>1, <3>2 DEF EvaluationInv, Over
  <2> QED
    BY <2>2, <2>3
<1> QED
  BY <1>2, <1>3

\* The invariant is inductive.
LEMMA InvStep == IInv /\ [Next]_vars => IInv'
<1> SUFFICES ASSUME IInv, [Next]_vars PROVE IInv'
  OBVIOUS
<1>1. TypeOK'
  BY TypeStep
<1>2. ASSUME NEW a \in Attempts, Step(a)
      PROVE  /\ \A b \in Attempts : CallInv(b)'
             /\ \A e \in Evaluations : EvaluationInv(e)'
  <2>1. Apart(a)
    BY <1>2, StepApart
  <2>2. ASSUME NEW b \in Attempts PROVE CallInv(b)'
    BY <1>2, <2>1, OwnCall, OtherCalls
  <2>3. ASSUME NEW e \in Evaluations PROVE EvaluationInv(e)'
    <3>1. CASE evaluations'[e] = None
      BY <3>1 DEF EvaluationInv
    <3>2. CASE evaluations'[e] # None
      <4>1. evaluations'[e].by \in Attempts
        BY <1>1, <3>2 DEF TypeOK, Directory
      <4> QED
        BY <1>2, <2>1, <3>2, <4>1, OwnEvaluation, OtherEvaluations
    <3> QED
      BY <3>1, <3>2
  <2> QED
    BY <2>2, <2>3
<1>3. CASE UNCHANGED vars
  BY <1>1, <1>3 DEF vars, request, IInv, CallInv, Mine, Place, Consumed, EvaluationInv
<1> QED
  BY <1>1, <1>2, <1>3, CopyInv, CrashInv DEF Next, IInv

\* The invariant holds in every reachable state, for any calls, runs and ids.
THEOREM GenerationInvariant == Spec => []IInv
  BY InitInv, InvStep, PTL DEF Spec

\* The holdout of a generation is opened once, over every copy of its run and
\* every crash: all who opened it are the one its durable marker names.
THEOREM HoldoutOpenedOnce == Spec => []OpenedOnce
<1>1. IInv => OpenedOnce
  <2> SUFFICES ASSUME IInv, NEW a \in opened, NEW b \in opened PROVE a = b
    BY DEF OpenedOnce
  <2>1. a \in Attempts /\ b \in Attempts
    BY DEF IInv, TypeOK
  <2>2. Consumed(a) /\ Consumed(b)
    BY <2>1 DEF IInv, CallInv
  <2> QED
    BY <2>2 DEF Consumed
<1> QED
  BY <1>1, GenerationInvariant, PTL

\* What readers accept is the evaluation of the call that opened the holdout,
\* in the directory it was given; never that of a call that raised.
THEOREM OriginalOnly == Spec => []AcceptedIsOriginal
<1>1. IInv => AcceptedIsOriginal
  <2> SUFFICES ASSUME IInv, NEW e \in Evaluations, NEW r \in Runs, Accepts(e, r)
               PROVE  LET a == evaluations[e].by
                      IN  a \in opened /\ run[a] = r /\ eval[a] = e /\ pc[a] # "raised"
    BY DEF AcceptedIsOriginal
  <2> DEFINE a == evaluations[e].by
  <2>1. /\ evaluations[e] # None
        /\ evaluations[e].manifest = "present"
        /\ files[<<Registry, "marker">>].run = r
    BY DEF Accepts
  <2>2. EvaluationInv(e)
    BY DEF IInv
  <2>3. a \in opened /\ eval[a] = e /\ pc[a] # "raised"
    BY <2>1, <2>2 DEF EvaluationInv
  <2>4. a \in Attempts
    BY <2>3 DEF IInv, TypeOK
  <2>5. Consumed(a)
    BY <2>3, <2>4 DEF IInv, CallInv
  <2> QED
    BY <2>1, <2>3, <2>5 DEF Consumed
<1> QED
  BY <1>1, GenerationInvariant, PTL
-----------------------------------------------------------------------------
(* The promise of EvaluationSource. *)

\* A file and an evaluation that no crash takes from a call.
Kept(f, a) == f # None /\ f.by = a /\ f.bytes = "synced" /\ f.entry
Shown(d, a) == d # None /\ d.by = a /\ d.manifest = "present" /\ d.entry

\* What a call has on disk once it opened the holdout, phase by phase: its claim
\* for good, its evaluation until it is invalidated, and from the verification
\* on the completion record, so that what it returns is what the disk keeps.
AnswerInv(a) ==
    /\ a \in opened \/ pc[a] = "open" => Kept(files[<<run[a], "claim">>], a)
    /\ a \in opened /\ pc[a] \in Writing => kind[a] = "completion"
    /\ pc[a] = "returned" => kind[a] = "completion"
    /\ pc[a] \in {"verify", "returned"} => Kept(files[<<run[a], "completion">>], a)
    /\ pc[a] \in {"verify", "returned"} \/ (kind[a] = "completion" /\ pc[a] \in Writing) =>
          Shown(evaluations[eval[a]], a)
    /\ pc[a] = "sync_root" => evaluations[eval[a]].manifest = "present"
    /\ pc[a] = "sync_unlink" => evaluations[eval[a]].manifest = "unlinked"

AnswersInv == \A a \in Attempts : AnswerInv(a)

LEMMA InitAnswers == Init => AnswersInv
  BY DEF Init, AnswersInv, AnswerInv, Writing

\* The places of a call's run.
LEMMA RunPlaces ==
    ASSUME NEW r \in Runs
    PROVE  <<r, "claim">> \in Places /\ <<r, "completion">> \in Places
  BY DEF Places

\* Another call's step takes nothing of it.
LEMMA OtherAnswers ==
    ASSUME IInv, NEW a \in Attempts, Apart(a), NEW b \in Attempts, b # a, AnswerInv(b)
    PROVE  AnswerInv(b)'
<1>1. CallInv(b)
  BY DEF IInv
<1>2. /\ pc'[b] = pc[b] /\ kind'[b] = kind[b] /\ run'[b] = run[b] /\ eval'[b] = eval[b]
      /\ b \in opened' <=> b \in opened
  BY DEF Apart
<1>3. ASSUME NEW p \in Places, Kept(files[p], b) PROVE Kept(files'[p], b)
  BY <1>3 DEF Kept, Apart
<1>4. ASSUME pc[b] # "new"
      PROVE  /\ Kept(files[<<run[b], "claim">>], b) => Kept(files'[<<run[b], "claim">>], b)
             /\ Kept(files[<<run[b], "completion">>], b) =>
                   Kept(files'[<<run[b], "completion">>], b)
  BY <1>1, <1>3, <1>4, RunPlaces DEF CallInv
<1>5. ASSUME NEW e \in Evaluations, evaluations[e] # None, evaluations[e].by = b
      PROVE  /\ evaluations'[e] # None /\ evaluations'[e].by = b
             /\ evaluations'[e].manifest = evaluations[e].manifest
             /\ evaluations[e].entry => evaluations'[e].entry
  BY <1>5 DEF Apart
<1>6. pc[b] # "new" /\ Shown(evaluations[eval[b]], b) => Shown(evaluations'[eval[b]], b)
  BY <1>1, <1>5 DEF CallInv, Shown
<1>7. pc[b] \in {"sync_root", "sync_unlink"} =>
        evaluations'[eval[b]].manifest = evaluations[eval[b]].manifest
  BY <1>1, <1>5 DEF CallInv, Published
<1>8. b \in opened => pc[b] # "new"
  BY <1>1 DEF CallInv
<1>9. \A k \in {"verify", "returned", "open"} \cup Writing : k # "new"
  BY DEF Writing
<1> QED
  BY <1>2, <1>4, <1>6, <1>7, <1>8, <1>9 DEF AnswerInv

\* A call's own step keeps the files it is not writing.
LEMMA KeptStays ==
    ASSUME IInv, NEW a \in Attempts, Step(a), NEW p \in Places, Kept(files[p], a),
           pc[a] \in {"write", "sync"} => Place(a) # p
    PROVE  Kept(files'[p], a)
<1>t. TypeOK
  BY DEF IInv
<1>1. CASE UNCHANGED files
  BY <1>1
<1>2. CASE CreateFile(a) \/ WriteFile(a) \/ SyncFile(a)
  <2>1. files'[p] = files[p]
    BY <1>t, <1>2 DEF CreateFile, WriteFile, SyncFile, TypeOK, Kept
  <2> QED
    BY <2>1
<1>3. CASE SyncDirectory(a) \/ WritingFails(a)
  <2>1. files' = files \/ files' = Synced(Place(a)[1])
    BY <1>3 DEF SyncDirectory, WritingFails
  <2> QED
    BY <1>t, <2>1, SyncedFiles DEF Kept, TypeOK
<1> QED
  BY <1>1, <1>2, <1>3
     DEF Step, Preflight, InspectClaim, FileExists, OpenHoldout, RenameEvaluation, SyncRoot,
         PublishFails, VerifyCompleted, UnlinkManifest, SyncUnlink, Die

\* So it keeps its claim, once that is durable.
LEMMA ClaimStays ==
    ASSUME IInv, NEW a \in Attempts, Step(a), AnswerInv(a), a \in opened \/ pc[a] = "open"
    PROVE  Kept(files'[<<run'[a], "claim">>], a) /\ run'[a] = run[a] /\ eval'[a] = eval[a]
<1>1. CallInv(a)
  BY DEF IInv
<1>2. kind[a] # "marker" /\ pc[a] # "new" /\ run[a] \in Runs
  BY <1>1 DEF CallInv
<1>3. run'[a] = run[a] /\ eval'[a] = eval[a]
  BY <1>2, ConsumedStays
<1>4. pc[a] \in {"write", "sync"} => Place(a) # <<run[a], "claim">>
  BY DEF AnswerInv, Writing, Place
<1> QED
  BY <1>2, <1>3, <1>4, KeptStays, RunPlaces DEF AnswerInv

\* And what it answers with.
LEMMA OwnAnswer ==
    ASSUME IInv, NEW a \in Attempts, Step(a), AnswerInv(a)
    PROVE  AnswerInv(a)'
<1>t. TypeOK
  BY DEF IInv
<1>c. CallInv(a)
  BY DEF IInv
<1>k. kind[a] \in {"marker", "claim", "completion"}
  BY <1>t DEF TypeOK
<1>p. pc[a] # "new" => Place(a) \in Places
  BY <1>c, <1>k, PlaceOfCall DEF CallInv
<1>o. a \in opened \/ pc[a] = "open" =>
        Kept(files'[<<run'[a], "claim">>], a) /\ run'[a] = run[a] /\ eval'[a] = eval[a]
  BY ClaimStays
<1> USE DEF Goto, Writing, request
<1>1. ASSUME NEW r \in Runs, NEW e \in Evaluations, Preflight(a, r, e) PROVE AnswerInv(a)'
  <2>1. pc'[a] = "inspect" /\ a \notin opened'
    BY <1>t, <1>c, <1>1 DEF Preflight, TypeOK, CallInv
  <2> QED
    BY <2>1 DEF AnswerInv
<1>2. CASE InspectClaim(a)
  <2>1. pc'[a] \in {"create", "raised"} /\ a \notin opened' /\ kind'[a] = "marker"
    BY <1>t, <1>c, <1>2 DEF InspectClaim, TypeOK, CallInv
  <2> QED
    BY <2>1 DEF AnswerInv
<1>3. CASE FileExists(a)
  <2>1. /\ pc[a] = "create" /\ pc'[a] \in {"unlink", "raised"}
        /\ UNCHANGED <<run, eval, kind, opened>>
    BY <1>t, <1>3 DEF FileExists, Failing, TypeOK
  <2> QED
    BY <1>o, <2>1 DEF AnswerInv
<1>4. CASE OpenHoldout(a)
  <2>1. pc[a] = "open" /\ pc'[a] = "rename" /\ UNCHANGED <<run, eval, kind>>
    BY <1>t, <1>4 DEF OpenHoldout, TypeOK
  <2> QED
    BY <1>o, <2>1 DEF AnswerInv
<1>5. CASE PublishFails(a)
  <2>1. pc'[a] \in {"unlink", "raised"} /\ UNCHANGED <<run, eval, kind, opened>>
    BY <1>t, <1>5 DEF PublishFails, TypeOK
  <2> QED
    BY <1>o, <2>1 DEF AnswerInv
<1>6. CASE VerifyCompleted(a)
  <2>1. /\ pc[a] = "verify" /\ pc'[a] \in {"unlink", "returned"}
        /\ UNCHANGED <<files, evaluations, run, eval, kind, opened>>
    BY <1>t, <1>6 DEF VerifyCompleted, TypeOK
  <2> QED
    BY <1>c, <1>o, <2>1 DEF AnswerInv, CallInv
<1>7. CASE Die(a)
  <2>1. pc'[a] = "dead" /\ UNCHANGED <<run, eval, kind, opened>>
    BY <1>t, <1>7 DEF Die, TypeOK
  <2> QED
    BY <1>o, <2>1 DEF AnswerInv
<1>8. CASE CreateFile(a) \/ WriteFile(a) \/ SyncFile(a)
  <2>1. /\ pc[a] \in Writing /\ pc'[a] \in {"write", "sync", "sync_directory"}
        /\ UNCHANGED <<evaluations, run, eval, kind, opened>>
    BY <1>t, <1>8 DEF CreateFile, WriteFile, SyncFile, TypeOK
  <2> QED
    BY <1>o, <2>1 DEF AnswerInv
<1>9. CASE SyncDirectory(a)
  <2>1. /\ pc[a] = "sync_directory" /\ files' = Synced(Place(a)[1]) /\ Written(a)
        /\ UNCHANGED <<evaluations, run, eval, opened>>
    BY <1>9 DEF SyncDirectory
  <2>2. /\ Mine(a) /\ files[Place(a)].bytes = "synced"
        /\ kind[a] = "marker" => a \notin opened
    BY <1>c, <2>1 DEF CallInv, Published
  <2>3. Kept(files'[Place(a)], a)
    BY <1>t, <1>p, <2>1, <2>2, SyncedFiles DEF Mine, Kept, TypeOK
  <2>4. CASE kind[a] = "marker"
    <3>1. pc'[a] = "create" /\ kind'[a] = "claim"
      BY <1>t, <2>1, <2>4 DEF Written, TypeOK
    <3> QED
      BY <2>1, <2>2, <2>4, <3>1 DEF AnswerInv
  <2>5. CASE kind[a] = "claim"
    <3>1. pc'[a] = "open" /\ kind'[a] = "claim" /\ Place(a) = <<run'[a], "claim">>
      BY <1>t, <2>1, <2>5 DEF Written, TypeOK, Place
    <3> QED
      BY <2>3, <3>1 DEF AnswerInv
  <2>6. CASE kind[a] = "completion"
    <3>1. /\ pc'[a] = "verify" /\ kind'[a] = "completion"
          /\ Place(a) = <<run'[a], "completion">>
      BY <1>t, <2>1, <2>6 DEF Written, TypeOK, Place
    <3>2. Shown(evaluations'[eval'[a]], a)
      BY <2>1, <2>6 DEF AnswerInv
    <3> QED
      BY <1>o, <2>1, <2>3, <3>1, <3>2 DEF AnswerInv
  <2> QED
    BY <1>k, <2>4, <2>5, <2>6
<1>10. CASE WritingFails(a)
  <2>1. pc'[a] \in {"unlink", "raised"} /\ UNCHANGED <<run, eval, kind, opened>>
    BY <1>t, <1>10 DEF WritingFails, Failing, TypeOK
  <2> QED
    BY <1>o, <2>1 DEF AnswerInv
<1>11. CASE RenameEvaluation(a)
  <2>1. /\ pc[a] = "rename" /\ pc'[a] = "sync_root" /\ kind[a] = "claim"
        /\ UNCHANGED <<run, eval, kind, opened>>
    BY <1>t, <1>c, <1>11 DEF RenameEvaluation, TypeOK, CallInv
  <2>2. evaluations'[eval[a]].manifest = "present"
    BY <1>t, <1>c, <2>1, <1>11 DEF RenameEvaluation, TypeOK, CallInv
  <2> QED
    BY <1>o, <2>1, <2>2 DEF AnswerInv
<1>12. CASE SyncRoot(a)
  <2>1. /\ pc[a] = "sync_root" /\ pc'[a] = "create" /\ kind'[a] = "completion"
        /\ UNCHANGED <<files, run, eval, opened>>
    BY <1>t, <1>12 DEF SyncRoot, TypeOK
  <2>2. /\ evaluations[eval[a]] \in Directory /\ evaluations[eval[a]].by = a
        /\ evaluations[eval[a]].manifest = "present"
    BY <1>t, <1>c, <2>1 DEF CallInv, TypeOK, Published, AnswerInv
  <2>3. evaluations'[eval[a]] = [evaluations[eval[a]] EXCEPT !.entry = TRUE]
    BY <1>t, <1>c, <2>1, <1>12 DEF SyncRoot, CallInv, TypeOK, Published
  <2>4. evaluations'[eval[a]] \in Directory /\ evaluations'[eval[a]].by = a
    BY <2>2, <2>3 DEF Directory
  <2>5. evaluations'[eval[a]].manifest = "present" /\ evaluations'[eval[a]].entry
    BY <2>2, <2>3 DEF Directory
  <2>6. Shown(evaluations'[eval'[a]], a)
    BY <2>1, <2>4, <2>5, NoneIsNothing DEF Shown
  <2> QED
    BY <1>o, <2>1, <2>6 DEF AnswerInv
<1>13. CASE UnlinkManifest(a)
  <2>1. /\ pc[a] = "unlink" /\ pc'[a] = "sync_unlink"
        /\ UNCHANGED <<files, run, eval, kind, opened>>
    BY <1>t, <1>13 DEF UnlinkManifest, TypeOK
  <2>2. evaluations[eval[a]] \in Directory
    BY <1>t, <1>c, <2>1 DEF CallInv, TypeOK, Published
  <2>3. evaluations'[eval[a]] = [evaluations[eval[a]] EXCEPT !.manifest = "unlinked"]
    BY <1>t, <1>c, <2>1, <1>13 DEF UnlinkManifest, CallInv, TypeOK, Published
  <2>4. evaluations'[eval[a]].manifest = "unlinked"
    BY <2>2, <2>3 DEF Directory
  <2> QED
    BY <1>o, <2>1, <2>4 DEF AnswerInv
<1>14. CASE SyncUnlink(a)
  <2>1. pc'[a] = "raised" /\ UNCHANGED <<run, eval, kind, opened>>
    BY <1>t, <1>14 DEF SyncUnlink, TypeOK
  <2> QED
    BY <1>o, <2>1 DEF AnswerInv
<1> QED
  BY <1>1, <1>2, <1>3, <1>4, <1>5, <1>6, <1>7, <1>8, <1>9, <1>10, <1>11, <1>12, <1>13, <1>14 DEF Step

\* Copies and crashes take nothing durable.
LEMMA CopyAnswers ==
    ASSUME IInv, NEW r \in Runs, NEW s \in Runs, CopyRun(r, s), NEW a \in Attempts, AnswerInv(a)
    PROVE  AnswerInv(a)'
<1>1. /\ UNCHANGED <<evaluations, pc, run, eval, kind, opened>>
      /\ run[a] # s
      /\ \A p \in Places : p[1] # s => files'[p] = files[p]
  BY DEF CopyRun, request
<1>2. CallInv(a)
  BY DEF IInv
<1>3. pc[a] # "new" =>
        /\ files'[<<run[a], "claim">>] = files[<<run[a], "claim">>]
        /\ files'[<<run[a], "completion">>] = files[<<run[a], "completion">>]
  BY <1>1, <1>2, RunPlaces DEF CallInv
<1>4. a \in opened => pc[a] # "new"
  BY <1>2 DEF CallInv
<1> QED
  BY <1>1, <1>3, <1>4 DEF AnswerInv

LEMMA CrashAnswers ==
    ASSUME IInv, HostCrash, NEW a \in Attempts, AnswerInv(a)
    PROVE  AnswerInv(a)'
<1>t. TypeOK
  BY DEF IInv
<1>1. /\ UNCHANGED <<run, eval, kind, opened>>
      /\ pc'[a] = IF pc[a] \in Over \cup {"new"} THEN pc[a] ELSE "dead"
  BY <1>t DEF HostCrash, request, TypeOK
<1>2. CallInv(a)
  BY DEF IInv
<1>3. pc'[a] \in Over \cup {"new"} /\ (pc'[a] = "returned" => pc[a] = "returned")
  BY <1>1 DEF Over
<1>4. ASSUME NEW p \in Places, Kept(files[p], a) PROVE Kept(files'[p], a)
  BY <1>t, <1>4, CrashedFiles DEF Kept
<1>5. ASSUME a \in opened \/ pc[a] = "returned"
      PROVE  /\ Kept(files[<<run[a], "claim">>], a) => Kept(files'[<<run[a], "claim">>], a)
             /\ Kept(files[<<run[a], "completion">>], a) =>
                   Kept(files'[<<run[a], "completion">>], a)
  BY <1>2, <1>4, <1>5, RunPlaces DEF CallInv
<1>6. pc[a] = "returned" /\ Shown(evaluations[eval[a]], a) => Shown(evaluations'[eval[a]], a)
  BY <1>t, <1>2, CrashedEvaluations DEF CallInv, Shown
<1> QED
  BY <1>1, <1>3, <1>5, <1>6 DEF AnswerInv, Over, Writing

LEMMA AnswersStep == IInv /\ AnswersInv /\ [Next]_vars => AnswersInv'
<1> SUFFICES ASSUME IInv, AnswersInv, [Next]_vars, NEW a \in Attempts PROVE AnswerInv(a)'
  BY DEF AnswersInv
<1>0. AnswerInv(a)
  BY DEF AnswersInv
<1>1. ASSUME NEW b \in Attempts, Step(b) PROVE AnswerInv(a)'
  BY <1>0, <1>1, StepApart, OwnAnswer, OtherAnswers
<1>2. CASE UNCHANGED vars
  BY <1>0, <1>2 DEF vars, request, AnswerInv
<1> QED
  BY <1>0, <1>1, <1>2, CopyAnswers, CrashAnswers DEF Next
-----------------------------------------------------------------------------
\* What the promise calls visible, of one evaluation and run.
Readable == \E e \in Evaluations, r \in Runs : Accepts(e, r)

\* All that the promise needs of a state.
SourceInv ==
    /\ IInv /\ AnswersInv
    /\ OpenedOnce /\ AcceptedIsOriginal
    /\ \A a \in opened : pc[a] = "returned" => Accepts(eval[a], run[a])

LEMMA ReturnedAccepted ==
    ASSUME IInv, AnswersInv, NEW a \in opened, pc[a] = "returned"
    PROVE  Accepts(eval[a], run[a])
<1>1. a \in Attempts
  BY DEF IInv, TypeOK
<1>2. CallInv(a) /\ AnswerInv(a)
  BY <1>1 DEF IInv, AnswersInv
<1>3. /\ Kept(files[<<run[a], "claim">>], a) /\ Kept(files[<<run[a], "completion">>], a)
      /\ Shown(evaluations[eval[a]], a) /\ Consumed(a)
  BY <1>2 DEF CallInv, AnswerInv
<1> QED
  BY <1>3 DEF Accepts, Whole, Kept, Shown, Consumed

LEMMA SourceInvariant == Spec => []SourceInv
<1>1. Init => AnswersInv
  BY InitAnswers
<1>2. IInv /\ AnswersInv => \A a \in opened : pc[a] = "returned" => Accepts(eval[a], run[a])
  BY ReturnedAccepted
<1> QED
  BY <1>1, <1>2, AnswersStep, GenerationInvariant, HoldoutOpenedOnce, OriginalOnly, PTL
     DEF Spec, SourceInv

\* Nothing is read before the holdout is opened, nor of a call that raised.
LEMMA NothingRead ==
    ASSUME SourceInv, opened = {} \/ \E a \in opened : pc[a] = "raised"
    PROVE  ~Readable
<1> SUFFICES ASSUME NEW e \in Evaluations, NEW r \in Runs, Accepts(e, r) PROVE FALSE
  BY DEF Readable
<1>1. evaluations[e].by \in opened /\ pc[evaluations[e].by] # "raised"
  BY DEF SourceInv, AcceptedIsOriginal
<1> QED
  BY <1>1 DEF SourceInv, OpenedOnce

\* A call that opened the holdout keeps its request and its verdict; what readers
\* find agrees with the verdict, before and after the step that gives it.
LEMMA VerdictStep ==
    ASSUME SourceInv, SourceInv', [Next]_vars, NEW a \in opened
    PROVE  /\ a \in opened' /\ eval'[a] = eval[a]
           /\ pc[a] \in {"returned", "raised"} => pc'[a] = pc[a]
           /\ pc'[a] = "returned" => Readable /\ Readable'
           /\ pc'[a] = "raised" => ~Readable /\ ~Readable'
<1>t. IInv /\ TypeOK
  BY DEF SourceInv, IInv
<1>a. a \in Attempts
  BY <1>t DEF TypeOK
<1>c. CallInv(a) /\ AnswerInv(a)
  BY <1>a DEF SourceInv, IInv, AnswersInv
<1>k. kind[a] # "marker" /\ pc[a] \notin {"new", "inspect"} /\ run[a] \in Runs /\ eval[a] \in Evaluations
  BY <1>c DEF CallInv
<1>r. a \in opened' /\ pc'[a] = "raised" => ~Readable'
  <2> SUFFICES ASSUME a \in opened', pc'[a] = "raised",
                      NEW e \in Evaluations, NEW r \in Runs, Accepts(e, r)'
               PROVE  FALSE
    BY DEF Readable
  <2>1. evaluations'[e].by \in opened' /\ pc'[evaluations'[e].by] # "raised"
    BY DEF SourceInv, AcceptedIsOriginal
  <2> QED
    BY <2>1 DEF SourceInv, OpenedOnce
<1>f. /\ pc[a] = "returned" => Readable
      /\ pc[a] = "raised" => ~Readable
  BY <1>k, NothingRead DEF SourceInv, Readable
<1>g. a \in opened' /\ pc'[a] = "returned" => Readable'
  BY <1>a DEF SourceInv, IInv, CallInv, Readable
<1>1. ASSUME NEW b \in Attempts, Step(b), b # a
      PROVE  a \in opened' /\ eval'[a] = eval[a] /\ pc'[a] = pc[a]
  <2>1. Apart(b)
    BY <1>t, <1>1, StepApart
  <2> QED
    BY <1>1, <1>a, <2>1 DEF Apart
<1>2. CASE Step(a)
  <2>0. eval'[a] = eval[a] /\ a \in opened'
    <3>1. eval'[a] = eval[a]
      BY <1>t, <1>a, <1>2, <1>k, ConsumedStays
    <3>2. opened \subseteq opened'
      BY <1>2 DEF Step, Preflight, InspectClaim, CreateFile, FileExists, WriteFile, SyncFile,
         SyncDirectory, WritingFails, OpenHoldout, RenameEvaluation, SyncRoot, PublishFails,
         VerifyCompleted, UnlinkManifest, SyncUnlink, Die
    <3> QED
      BY <3>1, <3>2
  <2>1. pc[a] \notin Over
    BY <1>2 DEF Step, Preflight, InspectClaim, CreateFile, FileExists, WriteFile, SyncFile,
       SyncDirectory, WritingFails, OpenHoldout, RenameEvaluation, SyncRoot, PublishFails,
       VerifyCompleted, UnlinkManifest, SyncUnlink, Die, Over, Writing
  <2>2. CASE VerifyCompleted(a)
    <3>1. UNCHANGED <<files, evaluations>> /\ pc'[a] \in {"returned", "unlink"}
      BY <1>t, <1>a, <2>2 DEF VerifyCompleted, Goto, TypeOK
    <3>2. pc'[a] = "returned" => Accepts(eval[a], run[a])
      BY <1>t, <1>a, <2>2 DEF VerifyCompleted, Goto, TypeOK
    <3>3. pc'[a] = "returned" => Readable /\ Readable'
      BY <1>k, <3>1, <3>2 DEF Readable, Accepts
    <3> QED
      BY <2>0, <2>1, <3>1, <3>3 DEF Over
  <2>3. CASE PublishFails(a)
    <3>1. UNCHANGED <<files, evaluations>> /\ pc'[a] \in {"raised", "unlink"}
      BY <1>t, <1>a, <2>3 DEF PublishFails, Goto, TypeOK
    <3>2. Readable' <=> Readable
      BY <3>1 DEF Readable, Accepts
    <3> QED
      BY <1>r, <2>0, <2>1, <3>1, <3>2 DEF Over
  <2>4. CASE SyncUnlink(a)
    <3>1. pc[a] = "sync_unlink" /\ pc'[a] = "raised"
      BY <1>t, <1>a, <2>4 DEF SyncUnlink, Goto, TypeOK
    <3>2. ~Readable
      <4> SUFFICES ASSUME NEW e \in Evaluations, NEW r \in Runs, Accepts(e, r) PROVE FALSE
        BY DEF Readable
      <4>1. evaluations[e].by = a /\ eval[a] = e
        BY DEF SourceInv, AcceptedIsOriginal, OpenedOnce
      <4> QED
        BY <1>c, <3>1, <4>1 DEF AnswerInv, Accepts
    <3> QED
      BY <1>r, <2>0, <2>1, <3>1, <3>2 DEF Over
  <2>5. CASE FileExists(a) \/ WritingFails(a)
    <3>1. pc'[a] = "unlink"
      BY <1>t, <1>a, <1>c, <2>5 DEF FileExists, WritingFails, Failing, Goto, TypeOK, AnswerInv, Writing
    <3> QED
      BY <2>0, <2>1, <3>1 DEF Over
  <2>6. CASE ~(VerifyCompleted(a) \/ PublishFails(a) \/ SyncUnlink(a) \/ FileExists(a) \/ WritingFails(a))
    <3>1. pc'[a] \notin {"returned", "raised"}
      BY <1>t, <1>a, <1>2, <1>k, <2>6 DEF Step, Preflight, InspectClaim, CreateFile, WriteFile,
         SyncFile, SyncDirectory, Written, OpenHoldout, RenameEvaluation, SyncRoot,
         UnlinkManifest, Die, Goto, TypeOK
    <3> QED
      BY <2>0, <2>1, <3>1 DEF Over
  <2> QED
    BY <2>2, <2>3, <2>4, <2>5, <2>6
<1>3. ASSUME NEW r \in Runs, NEW s \in Runs, CopyRun(r, s)
      PROVE  a \in opened' /\ eval'[a] = eval[a] /\ pc'[a] = pc[a]
  BY <1>3 DEF CopyRun, request
<1>4. CASE HostCrash
  <2>1. /\ a \in opened' /\ eval'[a] = eval[a]
        /\ pc'[a] = IF pc[a] \in Over \cup {"new"} THEN pc[a] ELSE "dead"
    BY <1>a, <1>4 DEF HostCrash, request
  <2> QED
    BY <1>r, <1>f, <1>g, <1>k, <2>1 DEF Over
<1>5. CASE UNCHANGED vars
  <2>1. a \in opened' /\ eval'[a] = eval[a] /\ pc'[a] = pc[a]
    BY <1>5 DEF vars, request
  <2> QED
    BY <1>r, <1>f, <1>g, <2>1
<1> QED
  BY <1>r, <1>f, <1>g, <1>1, <1>2, <1>3, <1>4, <1>5 DEF Next

\* Before the holdout is opened a step leaves the promise alone or opens it.
LEMMA OpeningStep ==
    ASSUME SourceInv, SourceInv', [Next]_vars, opened = {}
    PROVE  \/ opened' = {}
           \/ \E a \in Attempts : /\ opened' = {a} /\ eval'[a] \in Evaluations
                                  /\ pc'[a] = "rename" /\ ~Readable'
<1>t. IInv /\ TypeOK
  BY DEF SourceInv, IInv
<1>1. ASSUME NEW a \in Attempts, OpenHoldout(a)
      PROVE  opened' = {a} /\ eval'[a] \in Evaluations /\ pc'[a] = "rename" /\ ~Readable'
  <2>1. /\ opened' = {a} /\ pc'[a] = "rename" /\ pc[a] = "open"
        /\ UNCHANGED <<files, evaluations, run, eval>>
    BY <1>t, <1>1 DEF OpenHoldout, Goto, request, TypeOK
  <2>2. eval[a] \in Evaluations
    BY <1>t, <2>1 DEF IInv, CallInv
  <2>3. ~Readable
    BY NothingRead
  <2>4. ~Readable'
    BY <2>1, <2>3 DEF Readable, Accepts
  <2> QED
    BY <2>1, <2>2, <2>4
<1>2. ASSUME NEW a \in Attempts, Step(a), ~OpenHoldout(a) PROVE opened' = {}
  BY <1>2 DEF Step, Preflight, InspectClaim, CreateFile, FileExists, WriteFile, SyncFile,
     SyncDirectory, WritingFails, RenameEvaluation, SyncRoot, PublishFails,
     VerifyCompleted, UnlinkManifest, SyncUnlink, Die
<1>3. (\E r, s \in Runs : r # s /\ CopyRun(r, s)) \/ HostCrash \/ UNCHANGED vars => opened' = {}
  BY DEF CopyRun, HostCrash, vars
<1> QED
  BY <1>1, <1>2, <1>3 DEF Next

\* What the promise sees: nothing yet, or the one call that opened the holdout.
Answer(phase) ==
    IF phase = "returned" THEN "returned" ELSE IF phase = "raised" THEN "raised" ELSE "open"

\* So every step is one of the promise, or changes nothing in it.
LEMMA SourceStep ==
    ASSUME SourceInv, SourceInv', [Next]_vars
    PROVE  [Promise!SourceNext]_(Promise!source)
<1>1. opened = {} => Promise!source = <<None, FALSE, "open">>
  BY NothingRead DEF Promise!source, Readable
<1>2. opened' = {} => (Promise!source)' = <<None, FALSE, "open">>
  <2> SUFFICES ASSUME opened' = {} PROVE (Promise!source)' = <<None, FALSE, "open">>
    OBVIOUS
  <2>1. ~Readable'
    BY DEF SourceInv, AcceptedIsOriginal, Readable
  <2> QED
    BY <2>1 DEF Promise!source, Readable
<1>3. ASSUME NEW a, opened = {a}
      PROVE  Promise!source = <<eval[a], Readable, Answer(pc[a])>>
  BY <1>3 DEF Promise!source, Readable, Answer
<1>4. ASSUME NEW a, opened' = {a}
      PROVE  (Promise!source)' = <<eval'[a], Readable', Answer(pc'[a])>>
  BY <1>4 DEF Promise!source, Readable, Answer
<1>5. CASE opened = {}
  <2>1. CASE opened' = {}
    BY <1>1, <1>2, <1>5, <2>1
  <2>2. ASSUME NEW a \in Attempts, opened' = {a}, eval'[a] \in Evaluations,
               pc'[a] = "rename", ~Readable'
        PROVE  Promise!OpenFor(eval'[a])
    <3>0. Readable' = FALSE
      BY <2>2 DEF Readable
    <3>1. (Promise!source)' = <<eval'[a], FALSE, "open">>
      BY <1>4, <2>2, <3>0 DEF Answer
    <3> QED
      BY <1>1, <1>5, <3>1 DEF Promise!source, Promise!OpenFor
  <2> QED
    BY <1>5, <2>1, <2>2, OpeningStep DEF Promise!SourceNext
<1>6. ASSUME NEW a \in opened PROVE [Promise!SourceNext]_(Promise!source)
  <2>1. opened = {a}
    BY <1>6 DEF SourceInv, OpenedOnce
  <2>2. /\ a \in opened' /\ eval'[a] = eval[a]
        /\ pc[a] \in {"returned", "raised"} => pc'[a] = pc[a]
        /\ pc'[a] = "returned" => Readable /\ Readable'
        /\ pc'[a] = "raised" => ~Readable /\ ~Readable'
    BY <1>6, VerdictStep
  <2>3. opened' = {a}
    BY <2>2 DEF SourceInv, OpenedOnce
  <2>4. /\ Promise!source = <<eval[a], Readable, Answer(pc[a])>>
        /\ (Promise!source)' = <<eval[a], Readable', Answer(pc'[a])>>
    BY <1>3, <1>4, <2>1, <2>2, <2>3
  <2>5. eval[a] # None
    <3>1. a \in Attempts /\ CallInv(a)
      BY <1>6 DEF SourceInv, IInv, TypeOK
    <3> QED
      BY <3>1, <1>6, GenerationAssumption DEF CallInv
  <2>6. CASE pc[a] = "returned"
    <3>1. (Readable' <=> Readable) /\ pc'[a] = pc[a]
      BY <2>2, <2>6
    <3> QED
      BY <2>4, <3>1
  <2>7. CASE pc[a] = "raised"
    <3>1. (Readable' <=> Readable) /\ pc'[a] = pc[a]
      BY <2>2, <2>7
    <3> QED
      BY <2>4, <3>1
  <2>8. CASE pc[a] \notin {"returned", "raised"}
    <3>1. CASE pc'[a] = "returned"
      <4>1. Promise!Stand
        BY <2>2, <2>4, <2>8, <3>1 DEF Answer, Promise!source, Promise!Stand
      <4> QED
        BY <4>1 DEF Promise!SourceNext
    <3>2. CASE pc'[a] = "raised"
      <4>1. Promise!Withdraw
        BY <2>2, <2>4, <2>5, <2>8, <3>2 DEF Answer, Promise!source, Promise!Withdraw
      <4> QED
        BY <4>1 DEF Promise!SourceNext
    <3>3. CASE pc'[a] \notin {"returned", "raised"}
      <4>1. CASE Readable' <=> Readable
        BY <2>4, <2>8, <3>3, <4>1 DEF Answer
      <4>2. CASE ~(Readable' <=> Readable)
        <5>1. Promise!Turn
          BY <2>4, <2>5, <2>8, <3>3, <4>2 DEF Answer, Promise!source, Promise!Turn
        <5> QED
          BY <5>1 DEF Promise!SourceNext
      <4> QED
        BY <4>1, <4>2
    <3> QED
      BY <3>1, <3>2, <3>3
  <2> QED
    BY <2>6, <2>7, <2>8
<1> QED
  BY <1>5, <1>6

\* The evaluation keeps its promise (EvaluationSource): the holdout is opened for
\* one evaluation, what evaluate returned is found through every later crash, and
\* what it raised for is never found again.
THEOREM EvaluationRefines == Spec => ImplementsSource
<1>1. Init => Promise!SourceInit
  BY DEF Init, Promise!SourceInit, Accepts
<1>2. SourceInv /\ SourceInv' /\ [Next]_vars => [Promise!SourceNext]_(Promise!source)
  BY SourceStep
<1> QED
  BY <1>1, <1>2, SourceInvariant, PTL DEF Spec, ImplementsSource, Promise!SourceSpec
=============================================================================
