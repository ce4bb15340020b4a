----------------------- MODULE MC_ProductionVersions ------------------------
(***************************************************************************)
(* A small instance of ProductionVersions.                                 *)
(***************************************************************************)
EXTENDS ProductionVersions, TLC

Symmetry == Permutations(Trainers) \cup Permutations(Versions)
=============================================================================
