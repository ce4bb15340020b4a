-------------------------- MODULE MC_BudgetLedger ---------------------------
(***************************************************************************)
(* Small instances of BudgetLedger.                                        *)
(***************************************************************************)
EXTENDS BudgetLedger, TLC

Symmetry == Permutations(Procs) \cup Permutations(Minutes)
=============================================================================
