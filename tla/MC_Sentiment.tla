---------------------------- MODULE MC_Sentiment ----------------------------
(***************************************************************************)
(* The instance of Sentiment for TLC: two writers, one digest, two names,  *)
(* two payload files; three minutes of one second in plans of one or two,  *)
(* two clock units in a second, and two snapshots.                         *)
(***************************************************************************)
EXTENDS Sentiment, TLC

Endpoint(a, t, f) == [article |-> a, title |-> t, fault |-> f]

\* Two articles, two titles: one title twice, a revision, and a conflict beside
\* a restricted article.
Answers ==
    {<<Endpoint(1, "x", "none")>>,
     <<Endpoint(2, "x", "none")>>,
     <<Endpoint(1, "y", "none"), Endpoint(2, "x", "none")>>,
     <<Endpoint(2, "y", "late"), Endpoint(1, "x", "none"), Endpoint(1, "y", "none")>>}

\* One title has a score, the engine failed on the other.
Engine == [t \in {"x", "y"} |-> IF t = "x" THEN "1" ELSE "failed"]

Symmetry == Permutations(Writers)
=============================================================================
