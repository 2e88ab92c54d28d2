---------------------------- MODULE MCIdentities ----------------------------
(***************************************************************************)
(* Instances of Identities for TLC: two players of the performance         *)
(* provider, two of the identity provider and two seasons, so that two     *)
(* players may be taken for one person, share its row, and collide or not. *)
(* Nothing distinguishes two players of one provider, or two seasons.      *)
(***************************************************************************)
EXTENDS Identities, TLC

CONSTANTS f1, f2, p1, p2, s1, s2

\* The same name and day of birth, in clubs the providers name differently.
MCLikeness ==
    {[ name |-> 100, contained |-> FALSE, surname |-> TRUE, born |-> "exact",
       club |-> FALSE, nationality |-> TRUE ]}

Interchangeable ==
    Permutations({f1, f2}) \cup Permutations({p1, p2}) \cup Permutations({s1, s2})
=============================================================================
