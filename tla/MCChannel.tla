----------------------------- MODULE MCChannel -----------------------------
(* Instances of Channel for TLC.                                           *)
EXTENDS Channel, TLC

Symmetry == Permutations(Writers) \cup Permutations(Readers)
=============================================================================
