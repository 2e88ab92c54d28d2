------------------------------- MODULE Players -------------------------------
(***************************************************************************)
(* What the pages about players show: the view the readers are given       *)
(* (analytics_service.py), the list, the profile and its parts             *)
(* (players.py), and the searches made from them (recruitment.py).         *)
(*                                                                         *)
(* A view is a record: shown maps a player to the season that stands for   *)
(* it, engine is the population percentiles are taken from, fits the best  *)
(* roles.  Every answer is computed from one view.                         *)
(***************************************************************************)
EXTENDS Similarity, Interpretation

CONSTANTS
    LowSample, DevelopingSample,
    Counted              \* [Score -> [total, threshold]], threshold None: not counted

\* _parse_evidence: a threshold that is asked for is positive.
ValidEvidence(e) == e.threshold # None => e.threshold > 0

ASSUME CountedAssumption == \A k \in Score : ValidEvidence(Counted[k])

-----------------------------------------------------------------------------
(* The view *)

\* build_view, from the population on: the engines, then every fit in its own
\* competition, then their places among all players.
View(population, shown) ==
    LET engine == Engine(population)
        raw == [p \in DOMAIN shown |-> RawFit(engine, shown[p], "competition", {})]
    IN [ shown |-> shown, engine |-> engine, fits |-> NormaliseFits(raw) ]

\* unproducible_scores: judged by the seasons that are shown.
Blocked(view) ==
    IF DOMAIN view.shown = {} THEN {}
    ELSE Unproducible(UNION {Available(view.shown[p]) : p \in DOMAIN view.shown})

\* applicable_metrics: what a player of this position is seen to carry.
Applicable(view, group) ==
    UNION {Available(view.shown[p]) : p \in {q \in DOMAIN view.shown : view.shown[q].group = group}}

Best(view, p) == view.fits[p].best

\* AnalyticsView.rank and .scores.
RankIn(view, p, metrics, scope) == RankAll(view.engine, view.shown[p], metrics, scope, {})
ScoresIn(view, p, keys, scope) == ScoreAll(view.engine, view.shown[p], keys, scope, {})

\* AnalyticsView.similar: those who resemble a player, the most alike first.
SimilarIn(view, p, f, limit, minMinutes) ==
    Page(InOrder(SimilarTo(view.engine, view.shown, view.shown[p], f, minMinutes)), 0, limit)

BestScore(view, p) == IF Best(view, p) = None THEN 0 ELSE Best(view, p).score

-----------------------------------------------------------------------------
(* The evidence behind a season *)

SampleBand(minutes) ==
    CASE Known(minutes) < LowSample        -> "very low"
      [] Known(minutes) \in LowSample .. DevelopingSample - 1 -> "low"
      [] Known(minutes) \in DevelopingSample .. Established - 1 -> "developing"
      [] Known(minutes) >= Established     -> "established"

\* coverage_display_pct: more detail than play is shown as all of it.
CoverageShown(s) ==
    IF DetailedCoverage(s) = None THEN None ELSE Min({DetailedCoverage(s), Hundred})

CoverageBand(share) ==
    CASE share = None               -> None
      [] 100 * share >= 90 * Hundred -> "excellent"
      [] 100 * share \in 75 * Hundred .. 90 * Hundred - 1 -> "good"
      [] 100 * share \in 50 * Hundred .. 75 * Hundred - 1 -> "partial"
      [] 100 * share < 50 * Hundred  -> "limited"

\* to_sample
Sample(view, s) ==
    LET expected == ToSet(ProfileMetrics) \cap Applicable(view, s.group)
    IN [ band |-> SampleBand(s.minutes),
         coverage |-> CoverageShown(s),
         coverageBand |-> CoverageBand(CoverageShown(s)),
         inconsistent |-> s.recorded # None /\ s.minutes # None /\ s.recorded > s.minutes,
         carried |-> expected \cap Available(s),
         expected |-> expected ]

\* _score_evidence: how many events a rate-built score rests on, and whether
\* they are few.  A count that was not supplied is absent, not zero.
ScoreEvidence(key, s) ==
    IF Counted[key].threshold = None THEN None
    ELSE IF s.totals[Counted[key].total] = None THEN None
    ELSE [ events |-> s.totals[Counted[key].total],
           low |-> s.totals[Counted[key].total] < Counted[key].threshold ]

\* _dominant: the component that makes at least two fifths of what a score
\* came out as.
Dominant(components) ==
    LET given == Given(components)
        part(c) == components[c].weight * components[c].value
        total == MapThenSumSet(part, given)
        largest == {c \in given : \A d \in given : part(c) >= part(d)}
        top == CHOOSE c \in largest : TRUE
    IN IF given = {} \/ total <= 0 THEN None
       ELSE IF 100 * part(top) < 40 * total THEN None ELSE top

-----------------------------------------------------------------------------
(* The pages *)

\* Where on the page the metrics stand that were placed.
PlacedOnPage(ranked) ==
    {i \in DOMAIN ProfileMetrics : ranked[ProfileMetrics[i]].percentile # None}

\* The comparison a page names: that of the first metric that was placed.
FirstContext(ranked) ==
    LET placed == PlacedOnPage(ranked)
    IN ranked[ProfileMetrics[IF placed # {} THEN Min(placed) ELSE 1]].context

\* to_metric: the place here, and beside it the place everywhere.
ToMetric(here, wide, scope) ==
    [ here |-> here.oriented,
      everywhere |-> IF scope = "competition" THEN wide.oriented ELSE None ]

\* to_score: a score with what made it and what it rests on.
ToScore(score, key, s) ==
    [ score |-> score.score, context |-> score.context,
      dominant |-> Dominant(score.components), evidence |-> ScoreEvidence(key, s) ]

StatsShown(sample, s, scope, here, wide, scores) ==
    [ sample |-> sample,
      metrics |-> [m \in {n \in DOMAIN here : here[n].value # None} |->
                      ToMetric(here[m], wide[m], scope)],
      context |-> FirstContext(here),
      wideContext |-> IF scope # "competition" \/ PlacedOnPage(wide) = {} THEN None
                      ELSE FirstContext(wide),
      scores |-> [k \in Score |-> ToScore(scores[k], k, s)] ]

\* get_player_stats
StatsPage(view, p, scope) ==
    StatsShown(Sample(view, view.shown[p]), view.shown[p], scope,
               RankIn(view, p, ToSet(ProfileMetrics), scope),
               RankIn(view, p, ToSet(ProfileMetrics), "global"),
               ScoresIn(view, p, Score, scope))

\* _unscored_roles: what the position could have been measured for.
UnscoredRoles(view, p) ==
    LET s == view.shown[p]
    IN {r \in Compatible(s.group) : RoleScore(view.engine, s, r, "competition", {}).score = None}

\* _why_no_role, said where there is no best role.
WhyNoRole(unscored) ==
    IF unscored = {} THEN "no role defined" ELSE "no role reached coverage"

RolesShown(fits, unscored) ==
    [ best |-> fits.best,
      percentile |-> fits.percentile,
      alternatives |-> {f \in fits.roles : f.validity = "full"} \ {fits.best},
      partial |-> {f \in fits.roles : f.validity = "partial"},
      unscored |-> unscored,
      reason |-> IF fits.best # None THEN None ELSE WhyNoRole(unscored) ]

\* get_player_roles
RolesPage(view, p) ==
    RolesShown(view.fits[p], IF Best(view, p) # None THEN {} ELSE UnscoredRoles(view, p))

\* get_similar_players
SimilarPage(view, p, f, limit) ==
    SimilarIn(view, p, f, limit, IF f.minMinutes = None THEN 0 ELSE f.minMinutes)

\* The constraints a profile puts on who resembles its player: none.
Unconstrained ==
    [ minAge |-> None, maxAge |-> None, minValue |-> None, maxValue |-> None,
      groups |-> None, comps |-> None, nations |-> None, foot |-> None,
      minHeight |-> None, minMinutes |-> None, within |-> None,
      otherComp |-> FALSE, otherClub |-> FALSE, younger |-> FALSE,
      role |-> None, band |-> None ]

\* The other full roles that are said: the three that stand highest.
Alternatives(view, full) ==
    LET raw == [q \in DOMAIN view.fits |-> view.fits[q].roles]
    IN {f.role : f \in Foremost([g \in full |-> Standing(Placed(raw, g), g)], SetToSeq(full), 3)}

\* _interpret, read_profile: read from the pieces of the page, so that nothing
\* withheld there can be said here.
ReadProfile(view, p, roles, stats) ==
    Interpret(roles.best, roles.percentile, Alternatives(view, roles.alternatives), stats.scores,
              [m \in DOMAIN stats.metrics |-> stats.metrics[m].here],
              stats.sample.coverage, view.shown[p].group)

Assembled(view, p, roles, stats, similar) ==
    [ player |-> p, roles |-> roles, stats |-> stats, similar |-> similar,
      reading |-> ReadProfile(view, p, roles, stats) ]

\* get_player_profile
ProfilePage(view, p, similarLimit) ==
    Assembled(view, p, RolesPage(view, p), StatsPage(view, p, "competition"),
              SimilarPage(view, p, Unconstrained, similarLimit))

-----------------------------------------------------------------------------
(* list_players *)

\* What the list takes: as a search does, but a value that is not known fails a
\* minimum, and a role is the best one.
Listed(view, p, f) ==
    LET s == view.shown[p] IN
    /\ PassesFilters(s, [f EXCEPT !.minValue = None])
    /\ f.minValue # None => Known(s.value) >= f.minValue
    /\ f.band # None => SampleBand(s.minutes) = f.band
    /\ f.role # None => Best(view, p) # None /\ Best(view, p).role = f.role

\* What the list is ordered by, highest first, as a fraction.
SortValue(view, p, sort, adjusted) ==
    CASE sort = "role_score_ranked" -> adjusted[p]
      [] sort = "role_score"        -> <<BestScore(view, p), 1>>
      [] sort = "market_value"      -> <<Known(view.shown[p].value), 1>>
      [] sort = "age"               -> << -(IF Known(view.shown[p].age) = 0 THEN 999
                                           ELSE view.shown[p].age), 1>>
      [] sort = "minutes"           -> <<Known(view.shown[p].minutes), 1>>

ListPlayers(view, f, sort) ==
    LET found == {p \in DOMAIN view.shown : Listed(view, p, f)}
        list == [p \in found |->
            [value |-> BestScore(view, p), minutes |-> view.shown[p].minutes]]
        adjusted == RankByEvidence(list, None)
    IN {[ player |-> p, raw |-> BestScore(view, p), minutes |-> view.shown[p].minutes,
          ranked |-> SortValue(view, p, sort, adjusted) ] : p \in found}
=============================================================================
