------------------------------ MODULE MCShimLink ------------------------------
(* Instances of ShimLink for TLC.                                           *)
EXTENDS ShimLink, TLC

Symmetry == Permutations(Conn) \cup Permutations(Call)
=============================================================================
