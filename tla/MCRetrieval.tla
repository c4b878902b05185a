---------------------------- MODULE MCRetrieval -----------------------------
(***************************************************************************)
(* Values for the constants of Retrieval, for model checking.              *)
(***************************************************************************)
EXTENDS Retrieval, TLC

Symmetry == Permutations(Chunks) \cup Permutations(Roles)

=============================================================================
