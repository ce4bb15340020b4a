----------------------------- MODULE HoldoutRun -----------------------------
(***************************************************************************)
(* One Phase 1 research run (workflow.py, artifacts/registry.py): a        *)
(* development run freezes its artifacts, processes compete to evaluate    *)
(* its untouched holdout under a one-shot claim, a person may invalidate   *)
(* the claim, and a production model is promoted on the evidence of a      *)
(* completed evaluation.                                                   *)
(*                                                                         *)
(* JSON files created exclusively are written in place, so a process that  *)
(* dies or fails in the middle leaves them torn; tables are linked whole.  *)
(* The status of the claim is read, checked and replaced without a lock.   *)
(***************************************************************************)
EXTENDS Integers, FiniteSets

CONSTANTS
    Procs,
    None,
    Frozen,         \* how many artifacts a development run freezes
    Tables,         \* evaluation outputs that are linked whole (3 CSV files)
    Reports         \* evaluation outputs that are JSON files (3)

ASSUME RunAssumption ==
    /\ None \notin Procs
    /\ Frozen \in Nat
    /\ Tables \in Nat
    /\ Reports \in Nat
    /\ Tables + Reports > 0

VARIABLES
    run,            \* the run's directories exist
    frozen,         \* artifacts frozen so far
    manifest,       \* manifest.json of the run exists
    claim,          \* holdout_evaluation_claim.json
    output,         \* the evaluation outputs
    evaluation,     \* evaluation_manifest.json, or None
    pc,
    step,           \* the output an evaluator is at
    seen,           \* the status an update has read
    \* History, read by the properties only.
    claimant,       \* the process whose claim was created, or None
    opened,         \* how often holdout values were read
    promoted        \* a production version was published on this run

files   == <<run, frozen, manifest, claim, output, evaluation>>
history == <<claimant, opened, promoted>>
vars    == <<files, pc, step, seen, history>>

Outputs == 1..(Tables + Reports)
Status  == {"claimed", "completed", "failed", "invalidated"}
File    == [author: Procs, whole: BOOLEAN]
Manifest == [author: Procs, whole: BOOLEAN, hashes: [Outputs -> File \cup {None}]]

ASSUME NoneAssumption == None \notin File /\ None \notin Manifest

Developing == {"freeze"}
Evaluating == {"open", "output", "write", "manifest", "write_manifest"}
Updating   == {"completed", "failed", "invalidated"}
Promoting  == {"verify", "train"}

\* The files of the run, its processes and what is known of them are typed.
TypeOK ==
    /\ run \in BOOLEAN
    /\ frozen \in 0..Frozen
    /\ manifest \in BOOLEAN
    /\ claim \in {"absent", "torn"} \cup Status
    /\ output \in [Outputs -> File \cup {None}]
    /\ evaluation \in Manifest \cup {None}
    /\ pc \in [Procs -> {"idle", "preflight", "claim"} \cup Developing \cup Evaluating
                        \cup Updating \cup Promoting]
    /\ step \in [Procs -> Outputs]
    /\ seen \in [Procs -> Status \cup {None}]
    /\ claimant \in Procs \cup {None}
    /\ opened \in Nat
    /\ promoted \in BOOLEAN

Init ==
    /\ run = FALSE
    /\ frozen = 0
    /\ manifest = FALSE
    /\ claim = "absent"
    /\ output = [k \in Outputs |-> None]
    /\ evaluation = None
    /\ pc = [p \in Procs |-> "idle"]
    /\ step = [p \in Procs |-> 1]
    /\ seen = [p \in Procs |-> None]
    /\ claimant = None
    /\ opened = 0
    /\ promoted = FALSE

Goto(p, phase) == pc' = [pc EXCEPT ![p] = phase]

Leave(p) ==
    /\ Goto(p, "idle")
    /\ step' = [step EXCEPT ![p] = 1]
    /\ seen' = [seen EXCEPT ![p] = None]

-----------------------------------------------------------------------------
\* run_development_validation: a fresh run id, the frozen artifacts, and the
\* manifest with their hashes last.
Develop(p) ==
    /\ pc[p] = "idle"
    /\ ~run
    /\ run' = TRUE
    /\ Goto(p, "freeze")
    /\ UNCHANGED <<frozen, manifest, claim, output, evaluation, step, seen, history>>

Freeze(p) ==
    /\ pc[p] = "freeze"
    /\ frozen < Frozen
    /\ frozen' = frozen + 1
    /\ UNCHANGED <<run, manifest, claim, output, evaluation, pc, step, seen, history>>

WriteRunManifest(p) ==
    /\ pc[p] = "freeze"
    /\ frozen = Frozen
    /\ manifest' = TRUE
    /\ Leave(p)
    /\ UNCHANGED <<run, frozen, claim, output, evaluation, history>>

-----------------------------------------------------------------------------
\* evaluate_final_holdout.  The preflight wants every frozen artifact with the
\* manifest's hash, and not one output.
Preflight(p) ==
    /\ pc[p] = "idle"
    /\ manifest
    /\ frozen = Frozen
    /\ \A k \in Outputs : output[k] = None
    /\ evaluation = None
    /\ Goto(p, "preflight")
    /\ UNCHANGED <<files, step, seen, history>>

\* Mutant of CreateClaim: an existing claim is replaced.
CreateClaim_replaces(p) ==
    /\ pc[p] = "preflight"
    /\ claim' = "torn"
    /\ claimant' = p
    /\ Goto(p, "claim")
    /\ UNCHANGED <<run, frozen, manifest, output, evaluation, step, seen, opened, promoted>>

\* The claim file is opened with "x": it exists before it has its content.
CreateClaim(p) ==
    /\ pc[p] = "preflight"
    /\ claim = "absent"
    /\ claim' = "torn"
    /\ claimant' = p
    /\ Goto(p, "claim")
    /\ UNCHANGED <<run, frozen, manifest, output, evaluation, step, seen, opened, promoted>>

ClaimExists(p) ==
    /\ pc[p] = "preflight"
    /\ claim # "absent"
    /\ Leave(p)
    /\ UNCHANGED <<files, history>>

WriteClaim(p) ==
    /\ pc[p] = "claim"
    /\ claim' = "claimed"
    /\ Goto(p, "open")
    /\ UNCHANGED <<run, frozen, manifest, output, evaluation, step, seen, history>>

\* The holdout values are read and the model's results computed.
OpenHoldout(p) ==
    /\ pc[p] = "open"
    /\ opened' = opened + 1
    /\ Goto(p, "output")
    /\ UNCHANGED <<files, step, seen, claimant, promoted>>

\* The next output: a table appears whole, a JSON report is created first.
CreateOutput(p) ==
    /\ pc[p] = "output"
    /\ output[step[p]] = None
    /\ output' = [output EXCEPT ![step[p]] = [author |-> p, whole |-> step[p] <= Tables]]
    /\ Goto(p, "write")
    /\ UNCHANGED <<run, frozen, manifest, claim, evaluation, step, seen, history>>

WriteOutput(p) ==
    /\ pc[p] = "write"
    /\ output' = [output EXCEPT ![step[p]].whole = TRUE]
    /\ IF step[p] + 1 \in Outputs
       THEN step' = [step EXCEPT ![p] = @ + 1] /\ Goto(p, "output")
       ELSE Goto(p, "manifest") /\ UNCHANGED step
    /\ UNCHANGED <<run, frozen, manifest, claim, evaluation, seen, history>>

\* The manifest has the hash of every output.
CreateManifest(p) ==
    /\ pc[p] = "manifest"
    /\ evaluation = None
    /\ evaluation' = [author |-> p, whole |-> FALSE, hashes |-> output]
    /\ Goto(p, "write_manifest")
    /\ UNCHANGED <<run, frozen, manifest, claim, output, step, seen, history>>

WriteManifest(p) ==
    /\ pc[p] = "write_manifest"
    /\ evaluation' = [evaluation EXCEPT !.whole = TRUE]
    /\ Goto(p, "completed")
    /\ UNCHANGED <<run, frozen, manifest, claim, output, step, seen, history>>

-----------------------------------------------------------------------------
\* update_holdout_claim, first part: the status is read and checked.
Allowed(from, to) ==
    \/ from = "claimed"
    \/ from \in {"completed", "failed"} /\ to = "invalidated"

ReadStatus(p) ==
    /\ pc[p] \in Updating
    /\ seen[p] = None
    /\ claim \in Status
    /\ Allowed(claim, pc[p])
    /\ seen' = [seen EXCEPT ![p] = claim]
    /\ UNCHANGED <<files, pc, step, history>>

\* Second part: the file is replaced, whatever it says by now.
ReplaceStatus(p) ==
    /\ pc[p] \in Updating
    /\ seen[p] # None
    /\ claim' = pc[p]
    /\ Leave(p)
    /\ UNCHANGED <<run, frozen, manifest, output, evaluation, history>>

\* A person invalidates an evaluation that was claimed.
Invalidate(p) ==
    /\ pc[p] = "idle"
    /\ claim # "absent"
    /\ Goto(p, "invalidated")
    /\ UNCHANGED <<files, step, seen, history>>

\* Any exception after the claim, refused updates included, is recorded as a
\* failure of the claim; a failure before it, of that record or of another
\* command just ends the call.
Fail(p) ==
    /\ \/ /\ pc[p] \in Evaluating \cup {"completed"}
          /\ Goto(p, "failed")
          /\ seen' = [seen EXCEPT ![p] = None]
          /\ UNCHANGED step
       \/ /\ pc[p] \notin Evaluating \cup {"completed", "idle"}
          /\ Leave(p)
    /\ UNCHANGED <<files, history>>

-----------------------------------------------------------------------------
\* Mutant of AuthorizeProduction: any claim will do.
AuthorizeProduction_early(p) ==
    /\ pc[p] = "idle"
    /\ claim \in Status
    /\ evaluation # None
    /\ \A k \in Outputs : output[k] # None
    /\ Goto(p, "verify")
    /\ UNCHANGED <<files, step, seen, history>>

\* train_versioned_production_model: the claim must read completed ...
AuthorizeProduction(p) ==
    /\ pc[p] = "idle"
    /\ claim = "completed"
    /\ evaluation # None
    /\ \A k \in Outputs : output[k] # None
    /\ Goto(p, "verify")
    /\ UNCHANGED <<files, step, seen, history>>

\* ... the evaluation manifest and the reports must parse, every file must have
\* its hash ...
VerifyEvaluation(p) ==
    /\ pc[p] = "verify"
    /\ evaluation.whole
    /\ \A k \in Outputs : output[k].whole
    /\ output = evaluation.hashes
    /\ Goto(p, "train")
    /\ UNCHANGED <<files, step, seen, history>>

\* ... and then the model is trained and published.
Promote(p) ==
    /\ pc[p] = "train"
    /\ promoted' = TRUE
    /\ Leave(p)
    /\ UNCHANGED <<files, claimant, opened>>

\* The process dies, or is interrupted.
Kill(p) ==
    /\ pc[p] # "idle"
    /\ Leave(p)
    /\ UNCHANGED <<files, history>>

Step(p) ==
    \/ Develop(p) \/ Freeze(p) \/ WriteRunManifest(p)
    \/ Preflight(p) \/ CreateClaim(p) \/ ClaimExists(p) \/ WriteClaim(p) \/ OpenHoldout(p)
    \/ CreateOutput(p) \/ WriteOutput(p) \/ CreateManifest(p) \/ WriteManifest(p)
    \/ ReadStatus(p) \/ ReplaceStatus(p) \/ Invalidate(p) \/ Fail(p)
    \/ AuthorizeProduction(p) \/ VerifyEvaluation(p) \/ Promote(p) \/ Kill(p)

Next == \E p \in Procs : Step(p)

Spec == Init /\ [][Next]_vars

-----------------------------------------------------------------------------
\* The holdout of a run is read once at most: whoever races, fails or dies, a
\* claim that exists in any form, torn included, is the last one.
HoldoutOpenedOnce == opened <= 1

\* All results are the claimant's: no process that lost the claim writes one.
ResultsAreTheClaimants ==
    /\ \A k \in Outputs : output[k] # None => output[k].author = claimant
    /\ evaluation # None => evaluation.author = claimant

\* A claim that reads completed has its whole evaluation, with the manifest's
\* hashes, from one look at the holdout.
Evidenced ==
    /\ opened = 1
    /\ evaluation # None
    /\ evaluation.whole
    /\ output = evaluation.hashes
    /\ \A k \in Outputs : output[k] # None /\ output[k].whole

CompletedIsWhole == claim = "completed" => Evidenced

\* A production version rests on such an evaluation, and on a claim that nobody
\* recorded as failed, before or after.
PromotedOnEvidence == promoted => Evidenced /\ claim \in {"completed", "invalidated"}

\* The evidence of an evaluation is kept: its claim never goes away, and what
\* failed or completed can only become invalidated.
EvidenceKept ==
    [][/\ claim # "absent" => claim' # "absent"
       /\ claim \in {"completed", "failed"} => claim' \in {claim, "invalidated"}]_vars

\* An invalidated evaluation stays invalidated (the transition table gives that
\* status no successor, and recovery "must be recorded as an invalidated
\* evaluation", IMPLEMENTATION_PLAN.md:2737-2739).
InvalidationIsFinal == [][claim = "invalidated" => claim' = claim]_vars

\* The inductive invariant behind these: the phases between the creation of the
\* claim and its last status belong to the claimant, what is on disk in each of
\* them is known, and once the claim completed nobody is in one.
Owning == {"claim", "completed", "failed"} \cup Evaluating

NoOutput  == \A k \in Outputs : output[k] = None
Finished  == \A p \in Procs : pc[p] \notin Owning
Written(k) == output[k] # None /\ output[k].whole

ProcessInv(p) ==
    /\ pc[p] \in Owning => p = claimant /\ claim \notin {"completed", "failed"}
    /\ pc[p] = "invalidated" => claim # "absent"
    /\ pc[p] \in {"idle", "preflight", "claim", "open"} => step[p] = 1
    /\ pc[p] \in {"claim", "open"} => opened = 0 /\ NoOutput /\ evaluation = None
    /\ pc[p] \in {"output", "write"} =>
          /\ opened = 1
          /\ evaluation = None
          /\ \A k \in 1..(step[p] - 1) : Written(k)
          /\ pc[p] = "write" => output[step[p]] # None
    /\ pc[p] \in {"manifest", "write_manifest"} =>
          opened = 1 /\ \A k \in Outputs : Written(k)
    /\ pc[p] = "manifest" => evaluation = None
    /\ pc[p] = "write_manifest" => evaluation # None /\ evaluation.hashes = output
    /\ pc[p] = "completed" => Evidenced

\* It holds with the types and what a completed claim and a promotion rest on.
IInv ==
    /\ TypeOK
    /\ claim = "absent" <=> claimant = None
    /\ claimant = None => opened = 0
    /\ HoldoutOpenedOnce
    /\ ResultsAreTheClaimants
    /\ \A p \in Procs : ProcessInv(p)
    /\ claim = "completed" => Evidenced /\ Finished
    /\ promoted \/ (\E p \in Procs : pc[p] \in Promoting) =>
          Evidenced /\ Finished /\ claim \in {"completed", "invalidated"}
=============================================================================
