------------------------------ MODULE MCServing ------------------------------
(***************************************************************************)
(* Instances of Serving for TLC: two threads, so that a build that began   *)
(* before a reload can end after it.  There is no symmetry, as liveness is *)
(* checked too.                                                            *)
(***************************************************************************)
EXTENDS Serving

CONSTANTS t1, t2
=============================================================================
