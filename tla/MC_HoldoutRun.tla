--------------------------- MODULE MC_HoldoutRun ----------------------------
(***************************************************************************)
(* Small instances of HoldoutRun.                                          *)
(***************************************************************************)
EXTENDS HoldoutRun, TLC

Symmetry == Permutations(Procs)
=============================================================================
