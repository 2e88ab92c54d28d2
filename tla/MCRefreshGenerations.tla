------------------------ MODULE MCRefreshGenerations ------------------------
(***************************************************************************)
(* RefreshGenerations for TLC.  The competitions are interchangeable: no   *)
(* definition names one or compares two, so the safety runs take them up   *)
(* to permutation.                                                         *)
(***************************************************************************)
EXTENDS RefreshGenerations, TLC

CompSymmetry == Permutations(Comp)
=============================================================================
