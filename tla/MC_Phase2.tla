----------------------------- MODULE MC_Phase2 ------------------------------
(***************************************************************************)
(* The runs of Phase 2 in one run: experiments and their reports, and the  *)
(* evaluation of a development run.  An evaluation takes finished runs, so *)
(* a behaviour exercises one side, named by `part`, and the other stays as *)
(* it began.                                                               *)
(***************************************************************************)
EXTENDS GenerationEvaluation, TLC

CONSTANTS
    Dataset,
    MaxCrashes

VARIABLES
    part,
    call, runner, dir, dirKept, entry, entryKept, outcome, crashes

researchVars == <<call, runner, dir, dirKept, entry, entryKept, outcome, crashes>>

-----------------------------------------------------------------------------
\* Three calls: a dataset, an experiment and a report of it, or three runs that
\* race for two names.
Research == INSTANCE ResearchRuns WITH
    Procs <- Attempts, pc <- runner

ASSUME Phase2Assumption == Research!RunsAssumption

-----------------------------------------------------------------------------
\* Every call was made and is over, and the host crashes no more.
AllDone ==
    /\ crashes = MaxCrashes /\ \A a \in Attempts : runner[a] = "done"
    /\ UNCHANGED researchVars

InitPart ==
    /\ part \in {"evaluation", "research"}
    /\ Init /\ Research!Init

NextPart ==
    \/ part = "evaluation" /\ Next /\ UNCHANGED <<part, researchVars>>
    \/ part = "research" /\ (Research!Next \/ AllDone) /\ UNCHANGED <<part, vars>>

SpecPart == InitPart /\ [][NextPart]_<<part, vars, researchVars>>

Symmetry == Permutations(Attempts) \cup Permutations(Runs) \cup Permutations(Evaluations)

-----------------------------------------------------------------------------
\* ResearchRuns: a run that was published is shown whole for good.
PublishedRunStays == Research!PublishedRunStays

\* ResearchRuns: no part of a publication passes for one, nor a failed one.
FailedIsUnreadable == Research!FailedIsUnreadable
=============================================================================
