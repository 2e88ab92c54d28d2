----------------------------- MODULE Similarity -----------------------------
(***************************************************************************)
(* Who resembles whom (similarity.py), and the constraints a search puts   *)
(* on who may be returned (similarity.py, recruitment.py, contracts.py).   *)
(*                                                                         *)
(* A profile is the vector of a player's percentiles about their middle,   *)
(* kept in twenty-fourths of the scale.  The index is the cosine of two    *)
(* profiles in whole percent, found without a square root.                 *)
(***************************************************************************)
EXTENDS Scoring

CONSTANTS
    Features,            \* [Group -> SUBSET Metric], the intended vector
    MinFeatures,         \* fewer features than this compare nobody
    MinFeatureCoverage,  \* percent of the intended vector a pair has to share
    MinimumSimilarity,   \* percent below which players are not called similar
    ComparableStrength   \* percent below which two profiles differ in level

\* load_feature_sets: every group has a vector of known metrics, and none is
\* too short.
ValidFeatures(features) ==
    /\ features \in [Group -> SUBSET Metric]
    /\ \A g \in Group : Cardinality(features[g]) >= MinFeatures

ASSUME FeaturesAssumption == ValidFeatures(Features)

-----------------------------------------------------------------------------
(* Constraints.  A bound or a set that is None asks nothing.                 *)

\* expires_within: neither a contract that has lapsed nor one that is not
\* recorded is about to expire.  A contract is its months left, -1 once lapsed.
ExpiresWithin(contract, months) ==
    /\ contract # None
    /\ contract >= 0 /\ contract <= months

OrUnknown(x, test) == x = None \/ test

\* SimilarityFilters.allows: a constraint is skipped for a candidate that does
\* not carry what it tests, except the competition and the contract.
Allows(f, candidate, target) ==
    /\ f.minAge # None => OrUnknown(candidate.age, candidate.age >= f.minAge)
    /\ f.maxAge # None => OrUnknown(candidate.age, candidate.age <= f.maxAge)
    /\ f.maxValue # None => OrUnknown(candidate.value, candidate.value <= f.maxValue)
    /\ f.comps # None => candidate.comp \in f.comps
    /\ f.nations # None => OrUnknown(candidate.nation, candidate.nation \in f.nations)
    /\ f.otherComp => candidate.comp # target.comp
    /\ f.otherClub => OrUnknown(candidate.club, candidate.club # target.club)
    /\ f.younger => \/ candidate.age = None \/ target.age = None
                    \/ candidate.age < target.age
    /\ f.within # None => ExpiresWithin(candidate.contract, f.within)

\* _passes_filters: what is not known fails a bound on age, a minimum of
\* minutes or height, and every choice from a set.
PassesFilters(s, f) ==
    /\ f.groups # None => s.group \in f.groups
    /\ f.minAge # None => s.age # None /\ s.age >= f.minAge
    /\ f.maxAge # None => s.age # None /\ s.age <= f.maxAge
    /\ f.maxValue # None => OrUnknown(s.value, s.value <= f.maxValue)
    /\ f.minValue # None => OrUnknown(s.value, s.value >= f.minValue)
    /\ f.comps # None => s.comp \in f.comps
    /\ f.nations # None => s.nation \in f.nations
    /\ f.foot # None => s.foot = f.foot
    /\ f.minHeight # None => Known(s.height) >= f.minHeight
    /\ f.minMinutes # None => Known(s.minutes) >= f.minMinutes
    /\ f.within # None => ExpiresWithin(s.contract, f.within)

-----------------------------------------------------------------------------
(* Profiles *)

Centred(ranked) ==
    [m \in {n \in DOMAIN ranked : ranked[n].percentile # None} |->
        (24 * ranked[m].percentile) \div Hundred - 12]

\* _vector: the raw percentiles, so that two careless players are alike.
Vector(engine, s) == Centred(RankAll(engine, s, Features[s.group], "global", {}))

Dot(v, w, shared) == SumFunction([m \in shared |-> v[m] * w[m]])

\* to_similarity_index(cosine_similarity): opposites and players without a
\* direction are not similar at all.
Index(v, w, shared) ==
    LET dot == Dot(v, w, shared)
        norms == Dot(v, v, shared) * Dot(w, w, shared)
    IN IF dot <= 0 THEN 0
       ELSE Max({k \in 0 .. 100 : k * k * norms <= 10000 * dot * dot})

\* comparable_strength: the shorter profile is near enough the longer one.
Comparable(v, w, shared) ==
    LET lengths == {Dot(v, v, shared), Dot(w, w, shared)}
    IN Max(lengths) > 0 =>
        10000 * Min(lengths) >= ComparableStrength * ComparableStrength * Max(lengths)

\* How much of the intended vector two players have to share.
Required(group) ==
    Max({MinFeatures, (Cardinality(Features[group]) * MinFeatureCoverage + 99) \div 100})

Shared(v, w) == DOMAIN v \cap DOMAIN w

\* Whom the target is compared with: others of the position, with the football
\* asked for, let through by the constraints, sharing enough of a profile.
ComparedWith(shown, vectors, target, f, minMinutes) ==
    {p \in DOMAIN shown \ {target.player} :
        /\ shown[p].group = target.group
        /\ minMinutes # None => Known(RecordedMinutes(shown[p])) >= minMinutes
        /\ Allows(f, shown[p], target)
        /\ Cardinality(Shared(vectors[target.player], vectors[p])) >= Required(target.group)}

\* _compare
Indices(v, vectors, found) == [p \in found |-> Index(v, vectors[p], Shared(v, vectors[p]))]

\* The average is over everybody compared; only then are the unlike left out.
SimilarOnes(v, vectors, index, ranked) ==
    {[ player |-> p, similarity |-> index[p], ranked |-> ranked[p],
       comparable |-> Comparable(v, vectors[p], Shared(v, vectors[p])) ] :
        p \in {q \in DOMAIN index : index[q] >= MinimumSimilarity}}

SimilarByEvidence(shown, v, vectors, index) ==
    SimilarOnes(v, vectors, index,
          RankByEvidence([p \in DOMAIN index |->
              [value |-> index[p], minutes |-> RecordedMinutes(shown[p])]], None))

SimilarAmong(shown, vectors, target, f, minMinutes) ==
    IF Cardinality(DOMAIN vectors[target.player]) < MinFeatures THEN {}
    ELSE SimilarByEvidence(shown, vectors[target.player], vectors,
            Indices(vectors[target.player], vectors,
                    ComparedWith(shown, vectors, target, f, minMinutes)))

\* similar_to: the index each keeps, and what the list is ordered by.
SimilarTo(engine, shown, target, f, minMinutes) ==
    SimilarAmong(shown, [p \in DOMAIN shown |-> Vector(engine, shown[p])],
                 target, f, minMinutes)

\* The list in its order; equals keep an order of their own.
InOrder(items) ==
    CHOOSE list \in SetToSeqs(items) :
        \A i, j \in DOMAIN list : i < j => ~Less(list[i].ranked, list[j].ranked)
Page(list, offset, limit) ==
    SubSeq(list, offset + 1, Min({offset + limit, Len(list)}))
=============================================================================
