--------------------------- MODULE EvaluationSource -------------------------
(***************************************************************************)
(* What Phase 2 promises of the one evaluation of a research generation:   *)
(* the holdout is opened for one evaluation, for good; a reader may find   *)
(* it while its evaluate call runs, or after that call died; once the call *)
(* returned it is found for ever, once the call raised it is never found   *)
(* again.  GenerationEvaluation implements it and ProductionVersions reads *)
(* from it.                                                                *)
(***************************************************************************)
CONSTANTS Evaluations, None

ASSUME NoneIsNoEvaluation == None \notin Evaluations

VARIABLES
    subject,    \* the evaluation the holdout was opened for, or None
    visible,    \* a reader accepts it
    verdict     \* what became of the evaluate call

source == <<subject, visible, verdict>>

\* The promise is a name, a flag and a verdict.
SourceTypeOK ==
    /\ subject \in Evaluations \cup {None}
    /\ visible \in BOOLEAN
    /\ verdict \in {"open", "returned", "raised"}

SourceInit ==
    /\ subject = None
    /\ visible = FALSE
    /\ verdict = "open"

OpenFor(e) ==
    /\ subject = None
    /\ subject' = e
    /\ UNCHANGED <<visible, verdict>>

\* It is completed, invalidated, or a crash decides between the two.
Turn ==
    /\ subject # None
    /\ verdict = "open"
    /\ visible' = ~visible
    /\ UNCHANGED <<subject, verdict>>

Stand ==
    /\ visible
    /\ verdict = "open"
    /\ verdict' = "returned"
    /\ UNCHANGED <<subject, visible>>

Withdraw ==
    /\ subject # None
    /\ ~visible
    /\ verdict = "open"
    /\ verdict' = "raised"
    /\ UNCHANGED <<subject, visible>>

SourceNext == (\E e \in Evaluations : OpenFor(e)) \/ Turn \/ Stand \/ Withdraw

SourceSpec == SourceInit /\ [][SourceNext]_source
=============================================================================
