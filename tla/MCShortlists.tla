---------------------------- MODULE MCShortlists ----------------------------
(***************************************************************************)
(* Shortlists for TLC.                                                     *)
(***************************************************************************)
EXTENDS Shortlists, TLC

CONSTANTS u1, u2, w1, w2, p1, p2, p3, n1, n2, n3

Interchangeable ==
    UNION {Permutations(S) : S \in {User, Worker, Name, Player}}
=============================================================================
