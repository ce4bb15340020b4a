-------------------------- MODULE MC_ContentStore ---------------------------
(***************************************************************************)
(* Small instances of ContentStore.                                        *)
(***************************************************************************)
EXTENDS ContentStore, TLC

Symmetry == Permutations(Writers)
=============================================================================
