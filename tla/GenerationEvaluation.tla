------------------------- MODULE GenerationEvaluation -----------------------
(***************************************************************************)
(* One research generation of Phase 2, evaluated by the evaluate calls of  *)
(* phase2/evaluation.py over copies of its development run.  A call        *)
(* consumes the generation in a registry outside the runs, then the run's  *)
(* claim, opens the holdout, publishes the evaluation under its run id and *)
(* binds it with a completion record beside the claim; if what follows the *)
(* publication fails it invalidates the evaluation before it raises.       *)
(* Files are created exclusively and fsynced step by step; a call may die  *)
(* between any two of them, and the host with all of them.                 *)
(***************************************************************************)
CONSTANTS
    Attempts,       \* evaluate calls, each made once
    Runs,           \* directories that hold the development run or a copy
    Evaluations,    \* evaluation run ids
    Registry,       \* the directory of the generation markers
    None

ASSUME GenerationAssumption ==
    /\ Registry \notin Runs
    /\ None \notin Attempts \cup Runs \cup Evaluations

VARIABLES
    files,          \* the marker, the claims and the completion records
    evaluations,    \* the directories of the evaluation root, by run id
    pc,
    run, eval,      \* the request: its development run, its evaluation run id
    kind,           \* the file the call is creating
    opened          \* history: the calls that read the holdout's market bytes

request == <<run, eval>>
vars == <<files, evaluations, pc, request, kind, opened>>

Places == {<<Registry, "marker">>} \cup (Runs \X {"claim", "completion"})

\* A file written by one call, for one run.  Its bytes are torn until they are
\* written, and its directory entry is safe once the directory is fsynced.
File == [by: Attempts, run: Runs, bytes: {"torn", "buffered", "synced"}, entry: BOOLEAN]

\* An evaluation directory; its manifest is what makes it one.
Directory == [by: Attempts, manifest: {"present", "unlinked", "removed"}, entry: BOOLEAN]

ASSUME NoneIsNothing == None \notin File \cup Directory

\* A call is over when it returned, raised after its cleanup, or died.
Over    == {"returned", "raised", "dead"}
Writing == {"create", "write", "sync", "sync_directory"}
Phases  == {"new", "inspect", "open", "rename", "sync_root", "verify",
            "unlink", "sync_unlink"} \cup Writing \cup Over

\* Files, directories and calls are typed.
TypeOK ==
    /\ files \in [Places -> File \cup {None}]
    /\ evaluations \in [Evaluations -> Directory \cup {None}]
    /\ pc \in [Attempts -> Phases]
    /\ run \in [Attempts -> Runs \cup {None}]
    /\ eval \in [Attempts -> Evaluations \cup {None}]
    /\ kind \in [Attempts -> {"marker", "claim", "completion"}]
    /\ opened \subseteq Attempts

Init ==
    /\ files = [p \in Places |-> None]
    /\ evaluations = [e \in Evaluations |-> None]
    /\ pc = [a \in Attempts |-> "new"]
    /\ run = [a \in Attempts |-> None]
    /\ eval = [a \in Attempts |-> None]
    /\ kind = [a \in Attempts |-> "marker"]
    /\ opened = {}

Goto(a, phase) == pc' = [pc EXCEPT ![a] = phase]

-----------------------------------------------------------------------------
\* What a reader of an evaluation checks (EvaluationStore.get).

Whole(f) == f # None /\ f.bytes # "torn"

\* Mutant of Accepts: the marker is not compared with the run's inode.
Accepts_anyCopy(e, r) ==
    LET marker == files[<<Registry, "marker">>]
        claim == files[<<r, "claim">>]
        completion == files[<<r, "completion">>]
    IN  /\ evaluations[e] # None
        /\ evaluations[e].manifest = "present"
        /\ Whole(claim) /\ Whole(marker) /\ Whole(completion)
        /\ {claim.by, marker.by, completion.by} = {evaluations[e].by}

\* A complete evaluation, and beside it the run's claim, the marker that names
\* this claim and this very directory, and the completion that names this
\* manifest.
Accepts(e, r) ==
    LET marker == files[<<Registry, "marker">>]
        claim == files[<<r, "claim">>]
        completion == files[<<r, "completion">>]
    IN  /\ evaluations[e] # None
        /\ evaluations[e].manifest = "present"
        /\ Whole(claim) /\ Whole(marker) /\ Whole(completion)
        /\ {claim.by, marker.by, completion.by} = {evaluations[e].by}
        /\ marker.run = r

-----------------------------------------------------------------------------
\* The call validates its request and pins its run and snapshots; the evaluation
\* run id must be free.
Preflight(a, r, e) ==
    /\ pc[a] = "new"
    /\ evaluations[e] = None
    /\ run' = [run EXCEPT ![a] = r]
    /\ eval' = [eval EXCEPT ![a] = e]
    /\ Goto(a, "inspect")
    /\ UNCHANGED <<files, evaluations, kind, opened>>

\* HoldoutClaimManager.acquire refuses a run that has a claim.
InspectClaim(a) ==
    /\ pc[a] = "inspect"
    /\ Goto(a, IF files[<<run[a], "claim">>] = None THEN "create" ELSE "raised")
    /\ UNCHANGED <<files, evaluations, request, kind, opened>>

-----------------------------------------------------------------------------
\* The marker, the claim and the completion record are written the same way.

Place(a) == <<IF kind[a] = "marker" THEN Registry ELSE run[a], kind[a]>>

\* Where a failure leads: what was published must be invalidated first.
Failing(a) == IF kind[a] = "completion" THEN "unlink" ELSE "raised"

\* Mutant of CreateFile: without O_EXCL.
CreateFile_shared(a) ==
    /\ pc[a] = "create"
    /\ files' = [files EXCEPT ![Place(a)] =
           [by |-> a, run |-> run[a], bytes |-> "torn", entry |-> FALSE]]
    /\ Goto(a, "write")
    /\ UNCHANGED <<evaluations, request, kind, opened>>

CreateFile(a) ==
    /\ pc[a] = "create"
    /\ files[Place(a)] = None
    /\ files' = [files EXCEPT ![Place(a)] =
           [by |-> a, run |-> run[a], bytes |-> "torn", entry |-> FALSE]]
    /\ Goto(a, "write")
    /\ UNCHANGED <<evaluations, request, kind, opened>>

FileExists(a) ==
    /\ pc[a] = "create"
    /\ files[Place(a)] # None
    /\ Goto(a, Failing(a))
    /\ UNCHANGED <<files, evaluations, request, kind, opened>>

WriteFile(a) ==
    /\ pc[a] = "write"
    /\ files' = [files EXCEPT ![Place(a)].bytes = "buffered"]
    /\ Goto(a, "sync")
    /\ UNCHANGED <<evaluations, request, kind, opened>>

SyncFile(a) ==
    /\ pc[a] = "sync"
    /\ files' = [files EXCEPT ![Place(a)].bytes = "synced"]
    /\ Goto(a, "sync_directory")
    /\ UNCHANGED <<evaluations, request, kind, opened>>

\* The files once a directory is fsynced.
Synced(directory) ==
    [p \in Places |-> IF p[1] = directory /\ files[p] # None
                      THEN [files[p] EXCEPT !.entry = TRUE] ELSE files[p]]

Written(a) ==
    \/ kind[a] = "marker" /\ kind' = [kind EXCEPT ![a] = "claim"] /\ Goto(a, "create")
    \/ kind[a] = "claim" /\ UNCHANGED kind /\ Goto(a, "open")
    \/ kind[a] = "completion" /\ UNCHANGED kind /\ Goto(a, "verify")

\* Mutant of SyncDirectory: the registry is not fsynced.
SyncDirectory_runOnly(a) ==
    /\ pc[a] = "sync_directory"
    /\ files' = IF kind[a] = "marker" THEN files ELSE Synced(Place(a)[1])
    /\ Written(a)
    /\ UNCHANGED <<evaluations, request, opened>>

\* The directory is fsynced and the file read back.
SyncDirectory(a) ==
    /\ pc[a] = "sync_directory"
    /\ files' = Synced(Place(a)[1])
    /\ Written(a)
    /\ UNCHANGED <<evaluations, request, opened>>

\* A system call fails.  What was created stays; its directory may be fsynced,
\* by the step that fails or by the finally clauses of marker and claim.
WritingFails(a) ==
    /\ pc[a] \in Writing
    /\ \/ UNCHANGED files
       \/ pc[a] # "create" /\ files' = Synced(Place(a)[1])
    /\ Goto(a, Failing(a))
    /\ UNCHANGED <<evaluations, request, kind, opened>>

-----------------------------------------------------------------------------
\* Only after the claim is durable are the captured market bytes read.
OpenHoldout(a) ==
    /\ pc[a] = "open"
    /\ opened' = opened \cup {a}
    /\ Goto(a, "rename")
    /\ UNCHANGED <<files, evaluations, request, kind>>

\* EvaluationStore.publish: a staged, verified and fsynced directory is renamed
\* to the run id, which must be free.
RenameEvaluation(a) ==
    /\ pc[a] = "rename"
    /\ evaluations[eval[a]] = None
    /\ evaluations' = [evaluations EXCEPT ![eval[a]] =
           [by |-> a, manifest |-> "present", entry |-> FALSE]]
    /\ Goto(a, "sync_root")
    /\ UNCHANGED <<files, request, kind, opened>>

SyncRoot(a) ==
    /\ pc[a] = "sync_root"
    /\ evaluations' = [e \in Evaluations |->
           IF evaluations[e] = None THEN None ELSE [evaluations[e] EXCEPT !.entry = TRUE]]
    /\ kind' = [kind EXCEPT ![a] = "completion"]
    /\ Goto(a, "create")
    /\ UNCHANGED <<files, request, opened>>

\* The evaluation fails, its staging or its rename: nothing is visible.  After
\* the rename publish invalidates its own directory.
PublishFails(a) ==
    /\ \/ pc[a] \in {"open", "rename"} /\ Goto(a, "raised")
       \/ pc[a] = "sync_root" /\ Goto(a, "unlink")
    /\ UNCHANGED <<files, evaluations, request, kind, opened>>

\* The call reads its evaluation as any reader would; the read may fail for
\* reasons of its own.
VerifyCompleted(a) ==
    /\ pc[a] = "verify"
    /\ \/ Accepts(eval[a], run[a]) /\ Goto(a, "returned")
       \/ Goto(a, "unlink")
    /\ UNCHANGED <<files, evaluations, request, kind, opened>>

\* _rollback_owned_directory: the manifest first, then the payloads.
UnlinkManifest(a) ==
    /\ pc[a] = "unlink"
    /\ evaluations' = [evaluations EXCEPT ![eval[a]].manifest = "unlinked"]
    /\ Goto(a, "sync_unlink")
    /\ UNCHANGED <<files, request, kind, opened>>

\* Mutant of SyncUnlink: the directory is not fsynced.
SyncUnlink_skipped(a) ==
    /\ pc[a] = "sync_unlink"
    /\ Goto(a, "raised")
    /\ UNCHANGED <<files, evaluations, request, kind, opened>>

SyncUnlink(a) ==
    /\ pc[a] = "sync_unlink"
    /\ evaluations' = [evaluations EXCEPT ![eval[a]].manifest = "removed"]
    /\ Goto(a, "raised")
    /\ UNCHANGED <<files, request, kind, opened>>

\* A failed rollback raises with the manifest as it is, and a killed call leaves
\* everything as it is.
Die(a) ==
    /\ pc[a] \notin Over \cup {"new"}
    /\ Goto(a, "dead")
    /\ UNCHANGED <<files, evaluations, request, kind, opened>>

-----------------------------------------------------------------------------
\* Somebody copies a run with its claim and its completion to another directory
\* no call has used; marker and evaluation stay where they are.
CopyRun(r, s) ==
    /\ \A a \in Attempts : run[a] # s
    /\ files' = [p \in Places |->
           IF p[1] # s THEN files[p]
           ELSE LET f == files[<<r, p[2]>>]
                IN  IF f = None THEN None
                    ELSE [f EXCEPT !.bytes = IF @ = "torn" THEN @ ELSE "buffered",
                                   !.entry = FALSE]]
    /\ UNCHANGED <<evaluations, pc, request, kind, opened>>

\* The host dies, and every call with it.  An entry that was not fsynced may be
\* lost, bytes that were not may be torn, an unlink that was not may be undone.
HostCrash ==
    /\ \E lost \in SUBSET {p \in Places : files[p] # None /\ ~files[p].entry},
          torn \in SUBSET {p \in Places : files[p] # None /\ files[p].bytes = "buffered"} :
          files' = [p \in Places |->
              IF files[p] = None \/ p \in lost THEN None
              ELSE [by |-> files[p].by, run |-> files[p].run, entry |-> TRUE,
                    bytes |-> IF p \in torn \/ files[p].bytes = "torn"
                              THEN "torn" ELSE "synced"]]
    /\ \E lost \in SUBSET {e \in Evaluations : evaluations[e] # None /\ ~evaluations[e].entry},
          back \in SUBSET {e \in Evaluations : evaluations[e] # None
                                                /\ evaluations[e].manifest = "unlinked"} :
          evaluations' = [e \in Evaluations |->
              IF evaluations[e] = None \/ e \in lost THEN None
              ELSE [by |-> evaluations[e].by, entry |-> TRUE,
                    manifest |-> IF e \in back THEN "present"
                                 ELSE IF evaluations[e].manifest = "unlinked" THEN "removed"
                                 ELSE evaluations[e].manifest]]
    /\ pc' = [a \in Attempts |-> IF pc[a] \in Over \cup {"new"} THEN pc[a] ELSE "dead"]
    /\ UNCHANGED <<request, kind, opened>>

Step(a) ==
    \/ \E r \in Runs, e \in Evaluations : Preflight(a, r, e)
    \/ InspectClaim(a)
    \/ CreateFile(a) \/ FileExists(a) \/ WriteFile(a) \/ SyncFile(a) \/ SyncDirectory(a)
    \/ WritingFails(a)
    \/ OpenHoldout(a) \/ RenameEvaluation(a) \/ SyncRoot(a) \/ PublishFails(a)
    \/ VerifyCompleted(a) \/ UnlinkManifest(a) \/ SyncUnlink(a) \/ Die(a)

Next ==
    \/ \E a \in Attempts : Step(a)
    \/ \E r, s \in Runs : r # s /\ CopyRun(r, s)
    \/ HostCrash

Spec == Init /\ [][Next]_vars

-----------------------------------------------------------------------------
\* Over every copy of the development run, every call and every crash, the
\* holdout of the generation is opened once at most.
OpenedOnce == \A a, b \in opened : a = b

\* What a reader accepts is the evaluation of the call that opened the holdout,
\* under the directory that call was given: a copy of the run, with its claim
\* and its completion, vouches for nothing, and so does a call that raised.
AcceptedIsOriginal ==
    \A e \in Evaluations, r \in Runs : Accepts(e, r) =>
        LET a == evaluations[e].by
        IN  a \in opened /\ run[a] = r /\ eval[a] = e /\ pc[a] # "raised"

-----------------------------------------------------------------------------
\* The file a writing call created is there and its own.
Mine(a) ==
    /\ files[Place(a)] # None
    /\ files[Place(a)].by = a
    /\ files[Place(a)].run = run[a]

\* The generation is consumed by this call, and no crash undoes it.
Consumed(a) ==
    LET marker == files[<<Registry, "marker">>]
    IN  /\ marker # None
        /\ marker.by = a
        /\ marker.run = run[a]
        /\ marker.bytes = "synced"
        /\ marker.entry

Published == {"sync_root", "verify", "unlink", "sync_unlink"}

CallInv(a) ==
    /\ pc[a] # "new" => run[a] \in Runs /\ eval[a] \in Evaluations
    /\ pc[a] \in {"write", "sync", "sync_directory"} => Mine(a)
    /\ pc[a] = "sync_directory" => files[Place(a)].bytes = "synced"
    /\ pc[a] \in Published \/ a \in opened => kind[a] # "marker"
    /\ kind[a] # "marker" => Consumed(a)
    /\ pc[a] = "rename" \/ pc[a] \in Published \/ kind[a] = "completion" => a \in opened
    /\ pc[a] \in {"new", "inspect"} => kind[a] = "marker"
    /\ pc[a] \in {"open", "rename"} => kind[a] = "claim"
    /\ pc[a] = "verify" => kind[a] = "completion"
    /\ pc[a] \in Published \/ (kind[a] = "completion" /\ pc[a] \in Writing) =>
          evaluations[eval[a]] # None /\ evaluations[eval[a]].by = a

EvaluationInv(e) ==
    evaluations[e] # None =>
        LET a == evaluations[e].by
        IN  /\ eval[a] = e
            /\ a \in opened
            /\ pc[a] \in {"sync_root", "unlink", "sync_unlink", "raised", "dead"}
                  \/ kind[a] = "completion"
            /\ pc[a] = "raised" => evaluations[e].manifest = "removed"

\* The inductive invariant behind OpenedOnce and AcceptedIsOriginal: whoever is
\* past the marker is named by a durable marker, so there is one such call, and
\* an evaluation belongs to a call that opened the holdout and still answers
\* for it.
IInv ==
    /\ TypeOK
    /\ \A a \in Attempts : CallInv(a)
    /\ \A e \in Evaluations : EvaluationInv(e)

\* The evaluation readers may find is the opened one; returned, it is found
\* through every later crash; raised, it is never found again.
Promise == INSTANCE EvaluationSource WITH
    subject <- IF opened = {} THEN None ELSE eval[CHOOSE a \in opened : TRUE],
    visible <- \E e \in Evaluations, r \in Runs : Accepts(e, r),
    verdict <- IF \E a \in opened : pc[a] = "returned" THEN "returned"
               ELSE IF \E a \in opened : pc[a] = "raised" THEN "raised" ELSE "open"

ImplementsSource == Promise!SourceSpec
=============================================================================
