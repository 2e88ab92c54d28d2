------------------------------ MODULE Evidence ------------------------------
(***************************************************************************)
(* How much a discovery ranking trusts a number (reliability.py): a value  *)
(* resting on little football is read closer to the average of those it is *)
(* ranked among.  The value itself is left alone; only the order changes.  *)
(*                                                                         *)
(* A mean is a fraction, a pair <<numerator, denominator>>, and so is the  *)
(* value a candidate is ordered by, which keeps the arithmetic exact.      *)
(***************************************************************************)
EXTENDS Integers, FiniteSets, FiniteSetsExt, Functions

CONSTANTS
    None,            \* absent: not supplied, not computable, not stated
    Established      \* minutes that count as a season's worth of evidence

ASSUME EvidenceAssumption ==
    Established \in Nat \ {0} /\ None \notin Int /\ None \notin Int \X Int

\* The order of fractions.
Less(v, w) == v[1] * w[2] < w[1] * v[2]

\* evidence_weight, in parts of Established.  Unknown minutes weigh nothing.
EvidenceWeight(minutes) ==
    IF minutes = None THEN 0
    ELSE IF minutes <= 0 THEN 0
    ELSE IF minutes < Established THEN minutes ELSE Established

\* population_mean: a candidate is left out of its own mean, unless it is alone.
PopulationMean(list, c) ==
    LET others == IF Cardinality(DOMAIN list) > 1 THEN DOMAIN list \ {c} ELSE DOMAIN list
    IN <<SumFunction([d \in others |-> list[d].value]), Cardinality(others)>>

\* shrink: mean + weight * (value - mean).
Shrunk(value, mean, weight) ==
    <<mean[1] * (Established - weight) + mean[2] * weight * value, mean[2] * Established>>

\* Mutant of RankByEvidence: the centre is the average of those on the list,
\* also where the caller states another.
RankAmongThemselves(list, mean) ==
    [c \in DOMAIN list |->
        Shrunk(list[c].value, PopulationMean(list, c), EvidenceWeight(list[c].minutes))]

\* rank_by_evidence.  list maps a candidate to [value, minutes]; mean is the
\* centre the caller states, or None.
RankByEvidence(list, mean) ==
    [c \in DOMAIN list |->
        Shrunk(list[c].value,
               IF mean = None THEN PopulationMean(list, c) ELSE mean,
               EvidenceWeight(list[c].minutes))]

=============================================================================
