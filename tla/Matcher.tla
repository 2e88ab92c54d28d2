------------------------------- MODULE Matcher -------------------------------
(***************************************************************************)
(* Whether a player of one provider is taken for a player of another       *)
(* (matcher.py).  What two descriptions have in common is a record:        *)
(*   name        how alike the names are, in hundredths (name_similarity)  *)
(*   contained   one name is the other without its last words              *)
(*   surname     the last words of the names are the same                  *)
(*   born        "exact", "year" the same year only, "other" year,         *)
(*               "untold" for the target, "unknown" for the source         *)
(*   club, nationality   both are stated and agree                         *)
(* A confidence is in hundredths.                                          *)
(***************************************************************************)
EXTENDS Integers, FiniteSets, FiniteSetsExt

CONSTANT MaxSurnameBlock   \* more of one surname are not looked at

Threshold == 90    \* DEFAULT_THRESHOLD
Margin == 5        \* DEFAULT_MARGIN
VeryStrongName == 92
StrongName == 85

Shared ==
    [ name : 0 .. 100, contained : BOOLEAN, surname : BOOLEAN,
      born : {"exact", "year", "other", "untold", "unknown"},
      club : BOOLEAN, nationality : BOOLEAN ]

\* Two descriptions that have nothing in common.
Unrelated == [ name |-> 0, contained |-> FALSE, surname |-> FALSE, born |-> "other",
               club |-> FALSE, nationality |-> FALSE ]

Supported(e) == e.club \/ e.nationality
TwiceSupported(e) == e.club /\ e.nationality

-----------------------------------------------------------------------------
(* score_pair *)

\* Born on one day: a name that is one of the other's is enough with support.
OfOneBirthday(e) ==
    LET weak == e.name < StrongName
        told == e.contained /\ Supported(e)
    IN CASE e.name = 100 /\ e.club                     -> 100
         [] e.name = 100 /\ ~e.club                    -> 95
         [] e.name \in VeryStrongName .. 99            -> 98
         [] e.name \in StrongName .. VeryStrongName - 1 ->
               IF TwiceSupported(e) THEN 92 ELSE IF Supported(e) THEN 90 ELSE 86
         [] weak /\ told                               -> IF TwiceSupported(e) THEN 92 ELSE 90
         [] weak /\ ~told                              -> Min({70, 45 + (3 * e.name) \div 10})

\* Without the day of birth nothing reaches the threshold.
OfOneBirthYear(e) ==
    IF e.name >= VeryStrongName /\ Supported(e) THEN 88 ELSE Min({75, (75 * e.name) \div 100})

OfUnknownBirth(e) ==
    IF e.name = 100 /\ TwiceSupported(e) THEN 85
    ELSE IF e.name >= VeryStrongName /\ Supported(e) THEN 72
    ELSE Min({65, (65 * e.name) \div 100})

Confidence(e) ==
    CASE e.born = "exact" -> OfOneBirthday(e)
      [] e.born = "year"  -> OfOneBirthYear(e)
      [] e.born = "other" -> Min({30, (30 * e.name) \div 100})
      [] e.born \in {"untold", "unknown"} -> OfUnknownBirth(e)

-----------------------------------------------------------------------------
(* IdentityResolver.  shared maps a target to what it has in common with the  *)
(* player that is being resolved.                                             *)

\* _candidates: by day of birth, by surname and year, or, of a player with no
\* date of birth, by a surname that is not too common.
Candidates(shared) ==
    LET block == {t \in DOMAIN shared : shared[t].born = "unknown" /\ shared[t].surname}
    IN {t \in DOMAIN shared :
           \/ shared[t].born = "exact"
           \/ shared[t].born = "year" /\ shared[t].surname
           \/ t \in block /\ Cardinality(block) <= MaxSurnameBlock}

\* The best beats the next by the margin.  They are floating-point numbers, and
\* 0.95 less 0.90 falls short of 0.05.
Clear(best, next) == best - next >= Margin /\ ~(best = 95 /\ next = 90)

\* resolve, where nobody has confirmed a pair: the targets that are MATCHED, one
\* or none.
Matched(shared) ==
    LET candidates == Candidates(shared)
        confidence(t) == Confidence(shared[t])
        next(t) == Max({0} \cup {confidence(u) : u \in candidates \ {t}})
    IN {t \in candidates : confidence(t) >= Threshold /\ Clear(confidence(t), next(t))}
=============================================================================
