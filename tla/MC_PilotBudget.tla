--------------------------- MODULE MC_PilotBudget ---------------------------
(***************************************************************************)
(* Small instances of PilotBudget.                                         *)
(***************************************************************************)
EXTENDS PilotBudget, TLC

Symmetry == Permutations(Procs) \cup Permutations(Minutes)
=============================================================================
