---------------------------- MODULE MCRepository ----------------------------
(***************************************************************************)
(* Instances of Repository for TLC.                                        *)
(***************************************************************************)
EXTENDS Repository, TLC

Symmetry == Permutations(Aggregates) \cup Permutations(Workers)
=============================================================================
