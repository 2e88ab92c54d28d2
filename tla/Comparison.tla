----------------------------- MODULE Comparison -----------------------------
(***************************************************************************)
(* What one player-season is worth beside others: the rates derived from   *)
(* it (metrics.py, denominators.py), who may be compared with whom, and    *)
(* the mid-rank percentile (percentiles.py).                               *)
(*                                                                         *)
(* A season is a record of the columns the analysis reads.  A rate is a    *)
(* fraction, a pair <<numerator, denominator>>, compared by cross          *)
(* multiplication; percentiles and scores are whole numbers out of         *)
(* Hundred, chosen so that the divisions that occur are exact.  A metric   *)
(* is described by the totals it is made of.                               *)
(***************************************************************************)
EXTENDS Evidence, Sequences, SequencesExt

CONSTANTS
    Metric,
    Formula,         \* [Metric -> [kind, part, whole]], the totals a metric divides
    LowerIsBetter,   \* metrics whose percentile is turned round
    Hundred,         \* the top of the scale of percentiles and scores
    MinPopulation    \* fewer than this are not ranked

Kinds == {"playing", "recorded", "ratio"}

ASSUME MetricAssumption ==
    /\ IsFiniteSet(Metric) /\ LowerIsBetter \subseteq Metric
    /\ \A m \in Metric : Formula[m].kind \in Kinds
ASSUME ScaleAssumption ==
    Hundred \in Nat \ {0} /\ MinPopulation \in Nat \ {0}

-----------------------------------------------------------------------------
(* Rates *)

\* One supplied figure stands for the other where only one is there.
RecordedMinutes(s) == IF s.recorded # None THEN s.recorded ELSE s.minutes
PlayingMinutes(s) == IF s.minutes # None THEN s.minutes ELSE s.recorded

\* per90 and ratio: nothing to divide, or to divide by, gives nothing.
Fraction(part, whole) ==
    IF part = None \/ whole = None THEN None
    ELSE IF whole <= 0 THEN None
    ELSE <<part, whole>>

PerNinety(total, minutes) == Fraction(IF total = None THEN None ELSE 90 * total, minutes)

\* The minutes a rate divides by: time on the pitch for the metrics that are
\* routed to it, what the detailed feed describes for all others.
MinutesFor(s, m) ==
    IF Formula[m].kind = "playing" THEN PlayingMinutes(s) ELSE RecordedMinutes(s)

Value(s, m) ==
    LET f == Formula[m] IN
    IF f.kind = "ratio" THEN Fraction(s.totals[f.part], s.totals[f.whole])
    ELSE PerNinety(s.totals[f.part], MinutesFor(s, m))

Available(s) == {m \in Metric : Value(s, m) # None}

Equal(v, w) == v[1] * w[2] = w[1] * v[2]

Known(minutes) == IF minutes = None THEN 0 ELSE minutes

\* rateable_minutes: the larger denominator the season has any rate under.
Rateable(s) == Max({Known(RecordedMinutes(s)), Known(PlayingMinutes(s))})

\* detailed_coverage_pct, out of Hundred; it may exceed it.
DetailedCoverage(s) ==
    IF s.recorded = None \/ s.minutes = None THEN None
    ELSE IF s.minutes <= 0 THEN None
    ELSE (Hundred * s.recorded) \div s.minutes

-----------------------------------------------------------------------------
(* Populations.  An engine is a set of records [season, primary].            *)

\* PercentileEngine: everybody who has a rate is compared; there is no floor
\* of minutes.
Engine(population) == {r \in population : Rateable(r.season) > 0}

Everywhere == None   \* competition_ids None: the global scope

Peers(engine, s) == {r \in engine : r.season.group = s.group /\ r.season.year = s.year}

\* One row per player across competitions, every row within one.
Population(engine, s, comps) ==
    IF comps = Everywhere THEN {r \in Peers(engine, s) : r.primary}
    ELSE IF Cardinality(comps) = 1
    THEN {r \in Peers(engine, s) : r.season.comp \in comps}
    ELSE {r \in Peers(engine, s) : r.primary /\ r.season.comp \in comps}

Measured(records, m) == {r \in records : Value(r.season, m) # None}

\* Mid-rank of a value among the records that have one.
Percentile(v, records, m) ==
    LET n == Cardinality(records)
        below == Cardinality({r \in records : Less(Value(r.season, m), v)})
        level == Cardinality({r \in records : Equal(Value(r.season, m), v)})
    IN (Hundred * (2 * below + level)) \div (2 * n)

\* Most of a population of several competitions has not played much yet.
EarlySeason(records) ==
    LET competitions == {r.season.comp : r \in records}
        established ==
            {c \in competitions :
                \E r \in records : r.season.comp = c /\ Rateable(r.season) >= Established}
        from == {r \in records : r.season.comp \in established}
    IN Cardinality(competitions) > 1 /\ 2 * Cardinality(from) < Cardinality(records)

\* ComparisonContext: the competitions it names, its size, what has to be said.
Context(engine, s, scope, comps, size) ==
    [ scope |-> scope,
      competitions |-> IF comps = Everywhere
                       THEN {r.season.comp : r \in Peers(engine, s)} ELSE comps,
      size |-> size,
      early |-> EarlySeason(Population(engine, s, comps)) ]

\* CROSS_LEAGUE_CAVEAT goes with a comparison across competitions.
Caveat(context) == Cardinality(context.competitions) > 1

-----------------------------------------------------------------------------
(* PercentileEngine.rank *)

Selected(s, scope, comps) ==
    CASE scope = "competition"  -> {s.comp}
      [] scope = "global"       -> Everywhere
      [] scope = "league_group" -> comps

\* Too few peers, or no value of one's own, gives no percentile.
Place(v, among, m) ==
    IF v = None \/ Cardinality(among) < MinPopulation THEN None ELSE Percentile(v, among, m)

\* MetricRank: the percentile, and the same turned so that higher is better.
MetricRank(v, raw, m, context) ==
    [ value |-> v, percentile |-> raw, context |-> context,
      oriented |-> IF raw # None /\ m \in LowerIsBetter THEN Hundred - raw ELSE raw ]

\* Too few peers in the competitions asked for widens the comparison to all of
\* them, and says so.
RankAmong(engine, s, m, v, scope, selected, asked, wider) ==
    IF /\ v # None /\ selected # Everywhere
       /\ Cardinality(asked) < MinPopulation /\ Cardinality(wider) >= MinPopulation
    THEN MetricRank(v, Place(v, wider, m), m,
                    Context(engine, s, "global", Everywhere, Cardinality(wider)))
    ELSE MetricRank(v, Place(v, asked, m), m,
                    Context(engine, s, scope, selected, Cardinality(asked)))

RankWithin(engine, s, m, scope, selected) ==
    RankAmong(engine, s, m, Value(s, m), scope, selected,
              Measured(Population(engine, s, selected), m),
              Measured(Population(engine, s, Everywhere), m))

Rank(engine, s, m, scope, comps) ==
    RankWithin(engine, s, m, scope, Selected(s, scope, comps))

RankAll(engine, s, metrics, scope, comps) ==
    [m \in metrics |-> Rank(engine, s, m, scope, comps)]
=============================================================================
