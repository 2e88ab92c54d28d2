------------------------------- MODULE Scoring -------------------------------
(***************************************************************************)
(* Composites of percentiles: the weighted score (scoring.py), the         *)
(* intelligence scores (intelligence.py), the roles (roles.py) and the     *)
(* recruitment presets made from them (presets.py).                        *)
(*                                                                         *)
(* A composite is a function from the names of its components to           *)
(* [weight, value]; coverage is the weight that has a value.  The          *)
(* configuration files are constants, assumed to be ones the loaders       *)
(* accept.                                                                 *)
(***************************************************************************)
EXTENDS Comparison

CONSTANTS
    Group,              \* position groups
    Score,              \* intelligence scores
    Definition,         \* [Score -> [weights, floor]], floor in percent
    Role,
    Configured,         \* [Role -> [groups, metrics, scores, core]]
    SecondaryFloor,     \* percent of a role's weight that has to be measured
    MinRolePopulation   \* fewer full scores than this place nobody

\* load_definitions: known metrics, positive weights, a floor in (0, 1].
ValidDefinition(d) ==
    /\ DOMAIN d.weights # {} /\ DOMAIN d.weights \subseteq Metric
    /\ \A m \in DOMAIN d.weights : d.weights[m] \in Nat \ {0}
    /\ d.floor \in 1 .. 100

\* _parse_core_dimensions: a concept lists known metrics, at least one.
ValidCore(core) == \A c \in DOMAIN core : core[c] # {} /\ core[c] \subseteq Metric

\* load_roles: known groups, metrics and scores, positive weights, one at least.
ValidRole(r) ==
    /\ r.groups # {} /\ r.groups \subseteq Group
    /\ DOMAIN r.metrics \subseteq Metric /\ DOMAIN r.scores \subseteq Score
    /\ DOMAIN r.metrics \cup DOMAIN r.scores # {}
    /\ \A m \in DOMAIN r.metrics : r.metrics[m] \in Nat \ {0}
    /\ \A k \in DOMAIN r.scores : r.scores[k] \in Nat \ {0}
    /\ ValidCore(r.core)

ASSUME ConfigurationAssumption ==
    /\ IsFiniteSet(Score) /\ IsFiniteSet(Role)
    /\ \A k \in Score : ValidDefinition(Definition[k])
    /\ \A r \in Role : ValidRole(Configured[r])
    /\ Metric \cap Score = {}
    /\ SecondaryFloor \in 0 .. 100 /\ MinRolePopulation \in Nat \ {0}

-----------------------------------------------------------------------------
(* weighted_score *)

Given(components) == {c \in DOMAIN components : components[c].value # None}
WeightOf(components, names) == MapThenSumSet(LAMBDA c : components[c].weight, names)

Clamped(v) == Max({0, Min({Hundred, v})})

\* coverage < floor, as a share of the configured weight.
CoverageBelow(components, floor) ==
    100 * WeightOf(components, Given(components))
        < floor * WeightOf(components, DOMAIN components)

\* The weights are spread again over what is there; below the floor, nothing.
Weighted(components, floor) ==
    [ score |-> IF Given(components) = {} \/ CoverageBelow(components, floor) THEN None
                ELSE Clamped(MapThenSumSet(
                            LAMBDA c : components[c].weight * Clamped(components[c].value),
                            Given(components))
                        \div WeightOf(components, Given(components))),
      missing |-> DOMAIN components \ Given(components) ]

-----------------------------------------------------------------------------
(* Intelligence scores *)

\* The wider of two contexts: more competitions, then more players.
Wider(a, b) ==
    LET x == Cardinality(a.competitions)
        y == Cardinality(b.competitions)
    IN x > y \/ (x = y /\ a.size >= b.size)

\* Mutant of Widest: the context that is named is the narrowest.
Narrowest(contexts) == CHOOSE c \in contexts : \A d \in contexts : Wider(d, c)

\* widest_context: a composite answers for the widest comparison it rests on.
Widest(contexts) == CHOOSE c \in contexts : \A d \in contexts : Wider(c, d)

\* The contexts that count are those behind a percentile, if there are any.
Contexts(ranked) ==
    LET placed == {m \in DOMAIN ranked : ranked[m].percentile # None}
    IN IF placed # {} THEN {ranked[m].context : m \in placed}
       ELSE {ranked[CHOOSE m \in DOMAIN ranked : TRUE].context}

ScoreResult(components, result, context) ==
    [ score |-> result.score, missing |-> result.missing, components |-> components,
      context |-> context ]

Composite(components, floor, context) ==
    ScoreResult(components, Weighted(components, floor), context)

ScoreOf(d, ranked) ==
    Composite([m \in DOMAIN d.weights |->
                    [weight |-> d.weights[m], value |-> ranked[m].oriented]],
              d.floor, Widest(Contexts(ranked)))

\* IntelligenceScoreEngine.score
Intelligence(engine, s, key, scope, comps) ==
    ScoreOf(Definition[key],
            RankAll(engine, s, DOMAIN Definition[key].weights, scope, comps))

ScoreAll(engine, s, keys, scope, comps) ==
    [k \in keys |-> Intelligence(engine, s, k, scope, comps)]

\* Mutant of Unproducible: a score is lost with any of its metrics.
LostWithAny(present) == {k \in Score : ~(DOMAIN Definition[k].weights \subseteq present)}

\* unproducible: the scores that a load with these metrics gives to nobody.
Unproducible(present) ==
    {k \in Score :
        Weighted([m \in DOMAIN Definition[k].weights |->
                    [weight |-> Definition[k].weights[m],
                     value |-> IF m \in present THEN Hundred \div 2 ELSE None]],
                 Definition[k].floor).score = None}

-----------------------------------------------------------------------------
(* Roles *)

Compatible(group) == {r \in Role : group \in Configured[r].groups}

\* _validity: too little measured, a defining concept unmeasured, or neither.
Validity(score, components, core) ==
    LET given == Given(components) IN
    IF score = None \/ CoverageBelow(components, SecondaryFloor) THEN "unavailable"
    ELSE IF \E c \in DOMAIN core : core[c] \cap given = {} THEN "partial"
    ELSE "full"

\* An inner score stands beside the metrics as one component.
RoleComponents(r, ranked, inner) ==
    [c \in DOMAIN r.metrics \cup DOMAIN r.scores |->
        IF c \in DOMAIN r.metrics
        THEN [weight |-> r.metrics[c], value |-> ranked[c].oriented]
        ELSE [weight |-> r.scores[c], value |-> inner[c].score]]

RoleContext(r, ranked, inner) ==
    Widest((IF DOMAIN r.metrics = {} THEN {} ELSE {Widest(Contexts(ranked))})
           \cup {inner[k].context : k \in DOMAIN r.scores})

RoleResult(role, components, score, context) ==
    [ role |-> role, score |-> score, components |-> components, context |-> context,
      validity |-> Validity(score, components, Configured[role].core) ]

RoleOf(role, components, context) ==
    RoleResult(role, components, Weighted(components, SecondaryFloor).score, context)

RoleFrom(role, r, ranked, inner) ==
    RoleOf(role, RoleComponents(r, ranked, inner), RoleContext(r, ranked, inner))

\* RoleEngine.score
RoleScore(engine, s, role, scope, comps) ==
    RoleFrom(role, Configured[role],
             RankAll(engine, s, DOMAIN Configured[role].metrics, scope, comps),
             ScoreAll(engine, s, DOMAIN Configured[role].scores, scope, comps))

\* RoleEngine.fit: every role of the position that could be computed.
RawFit(engine, s, scope, comps) ==
    {f \in {RoleScore(engine, s, r, scope, comps) : r \in Compatible(s.group)} :
        f.score # None}

\* normalise_fits: the full scores of one role, of all players.
Distribution(raw, role) ==
    {x \in UNION {{p} \X raw[p] : p \in DOMAIN raw} :
        x[2].role = role /\ x[2].validity = "full"}

Placed(raw, f) ==
    LET among == Distribution(raw, f.role)
        n == Cardinality(among)
        below == Cardinality({x \in among : x[2].score < f.score})
        level == Cardinality({x \in among : x[2].score = f.score})
    IN IF f.validity # "full" \/ n < MinRolePopulation THEN None
       ELSE (Hundred * (2 * below + level)) \div (2 * n)

\* RoleScore.standing: the place where there is one, else the raw score.
Standing(placed, f) == IF placed # None THEN placed ELSE f.score

\* A player's best role is a full one, with none that stands higher; equals
\* are kept in the order of the raw scores.
BestOf(raw, p) ==
    LET full == {f \in raw[p] : f.validity = "full"}
        standing(f) == Standing(Placed(raw, f), f)
        highest == {f \in full : \A g \in full : standing(f) >= standing(g)}
    IN IF full = {} THEN None
       ELSE CHOOSE f \in highest : \A g \in highest : f.score >= g.score

Partial(raw, p) == {f \in raw[p] : f.validity = "partial"}

Fitted(raw, p, best) ==
    [ best |-> best, roles |-> raw[p],
      percentile |-> IF best = None THEN None ELSE Placed(raw, best) ]

NormaliseFits(raw) == [p \in DOMAIN raw |-> Fitted(raw, p, BestOf(raw, p))]

-----------------------------------------------------------------------------
(* Recruitment presets: a role in the builder's vocabulary, weights of the   *)
(* scores in steps that sum to a hundred.                                    *)

PresetStep == 5
MinimumExpressible == 50   \* percent of the role's own weight

Owners(m) == {k \in Score : m \in DOMAIN Definition[k].weights}

\* x / d to the nearest whole number, halves to the even one.
Nearest(x, d) ==
    LET whole == x \div d
        rest == 2 * (x % d)
    IN IF rest > d \/ (rest = d /\ whole % 2 = 1) THEN whole + 1 ELSE whole

\* Rounded each on its own; what is over or missing goes to the largest.
RoundToStep(weights) ==
    LET all == SumFunction(weights)
        rounded == [k \in DOMAIN weights |->
            PresetStep * Nearest(100 * weights[k], PresetStep * all)]
        residue == 100 - SumFunction(rounded)
        largest == CHOOSE k \in DOMAIN rounded : \A j \in DOMAIN rounded : rounded[k] >= rounded[j]
    IN [rounded EXCEPT ![largest] = Max({PresetStep, @ + residue})]

\* A metric's weight is shared by the scores that carry it, a score's is its
\* own; None when too little of the role is carried.  In Parts of a weight.
Derive(role) ==
    LET r == Configured[role]
        Parts == FoldFunction(LAMBDA a, b : a * b, 1, [i \in 1 .. Cardinality(Score) |-> i])
        carried == [k \in Score |->
            SumFunction([m \in {n \in DOMAIN r.metrics : k \in Owners(n)} |->
                            (Parts * r.metrics[m]) \div Cardinality(Owners(m))])
            + IF k \in DOMAIN r.scores THEN Parts * r.scores[k] ELSE 0]
        total == SumFunction(r.metrics) + SumFunction(r.scores)
        all == SumFunction(carried)
    IN IF all = 0 \/ 100 * all < MinimumExpressible * Parts * total THEN None
       ELSE RoundToStep(carried)

Presets == {Derive(r) : r \in Role} \ {None}

=============================================================================
