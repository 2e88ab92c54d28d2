---------------------------- MODULE MCAccounts ----------------------------
(***************************************************************************)
(* Accounts for TLC.                                                       *)
(***************************************************************************)
EXTENDS Accounts, TLC

CONSTANTS b1, b2, w1, w2

Interchangeable == Permutations(Browser) \cup Permutations(Worker)
=============================================================================
