----------------------------- MODULE Recruitment -----------------------------
(***************************************************************************)
(* The analytical view is assembled from the loaded seasons, read one by   *)
(* one in whatever order the database returns them (analytics_service.py), *)
(* and then answers the searches: recruitment, replacement, opportunities  *)
(* (recruitment.py), the player list and the profile (players.py), and the *)
(* comparison of players saved on a shortlist (shortlists.py).             *)
(***************************************************************************)
EXTENDS Players

CONSTANTS
    Player,
    Universes,       \* sets of season rows the database may hold
    Weighting,       \* weights a recruiter gives the scores, [Score -> Nat]
    Filter,          \* constraints of a search
    Screen,          \* [maxAge, minScore, minMinutes, maxValue, within]
    Limit,           \* the length of a list of replacements
    MaxCompare       \* MAX_COMPARE

\* dim_competition's ids, and minutes and values where they are supplied, are
\* whole numbers; None is not a set of competitions.
ASSUME UniverseAssumption ==
    /\ IsFiniteSet(Player) /\ None \notin Player
    /\ \A rows \in Universes : None \notin rows /\ \A row \in rows :
          /\ row.player \in Player \cup {None} /\ row.group \in Group \cup {None}
          /\ row.comp \in Nat /\ {row.comp} # None /\ row.minutes \in Nat \cup {None}
          /\ row.recorded \in Nat \cup {None} /\ row.value \in Nat \cup {None}
ASSUME RequestAssumption ==
    /\ Weighting \subseteq [Score -> Nat] /\ Limit \in Nat /\ MaxCompare \in Nat
    /\ \A f \in Filter : f.maxValue \in Nat \cup {None}

VARIABLES
    unread,          \* rows still to be read
    shown,           \* [Player -> row or None], view.players
    population,      \* records [season, primary]
    skipped,         \* rows left out because they have no position
    view,            \* the view once built, else None
    answer           \* the last answer, or None

vars == <<unread, shown, population, skipped, view, answer>>

Init ==
    /\ unread \in Universes
    /\ shown = [p \in Player |-> None]
    /\ population = {} /\ skipped = 0
    /\ view = None /\ answer = None

-----------------------------------------------------------------------------
(* build_view: the rows *)

\* load_universe drops a row that no player, or no mapping, stands behind.
SkipUnknown(row) ==
    /\ row \in unread /\ row.player = None
    /\ unread' = unread \ {row}
    /\ UNCHANGED <<shown, population, skipped, view, answer>>

\* A row without a position is ranked against nobody and left out.
SkipWithoutPosition(row) ==
    /\ row \in unread /\ row.player # None /\ row.group = None
    /\ unread' = unread \ {row}
    /\ skipped' = skipped + 1
    /\ UNCHANGED <<shown, population, view, answer>>

\* challenger <= incumbent: by minutes, then by the competition's id.
NoBetter(row, incumbent) ==
    \/ Known(row.minutes) < Known(incumbent.minutes)
    \/ Known(row.minutes) = Known(incumbent.minutes) /\ row.comp <= incumbent.comp

\* Mutant of Demoted: the row that lost keeps standing for its player.
StillPrimary(records, incumbent) == records

\* The row that stood for the player until now no longer does.
Demoted(records, incumbent) ==
    (records \ {[season |-> incumbent, primary |-> TRUE]})
        \cup {[season |-> incumbent, primary |-> FALSE]}

\* A player's first row, or one with more football in it, is shown.
ReadShown(row) ==
    /\ row \in unread /\ row.player # None /\ row.group # None
    /\ shown[row.player] # None => ~NoBetter(row, shown[row.player])
    /\ unread' = unread \ {row}
    /\ shown' = [shown EXCEPT ![row.player] = row]
    /\ population' =
        (IF shown[row.player] = None THEN population
         ELSE Demoted(population, shown[row.player]))
            \cup {[season |-> row, primary |-> TRUE]}
    /\ UNCHANGED <<skipped, view, answer>>

\* Any other row only takes part in its own competition's comparisons.
ReadSuperseded(row) ==
    /\ row \in unread /\ row.player # None /\ row.group # None
    /\ shown[row.player] # None /\ NoBetter(row, shown[row.player])
    /\ unread' = unread \ {row}
    /\ population' = population \cup {[season |-> row, primary |-> FALSE]}
    /\ UNCHANGED <<shown, skipped, view, answer>>

Build ==
    /\ unread = {} /\ view = None
    /\ view' = View(population,
                    [p \in {q \in Player : shown[q] # None} |-> shown[p]])
    /\ UNCHANGED <<unread, shown, population, skipped, answer>>

\* Answers change nothing and depend on the view alone: one request is enough.
Asked == view # None /\ answer = None

-----------------------------------------------------------------------------
(* recruitment_search *)

\* Which scores nobody who was considered was given, and what each of those
\* players was missing for it.
Ungiven(scores, used) ==
    IF DOMAIN scores = {} THEN {}
    ELSE {k \in used : \A p \in DOMAIN scores : scores[p][k].score = None}
Shortfall(scores, k) ==
    {m \in Metric : \A p \in DOMAIN scores : m \in scores[p][k].missing}

\* _explain, by what was found.
SearchExplanation(considered, items, ungiven) ==
    CASE items # {} /\ ungiven = {} -> None
      [] items # {} /\ ungiven # {} -> "partial ranking"
      [] items = {} /\ considered = {} -> "no filter match"
      [] items = {} /\ considered # {} /\ ungiven # {} -> "blocked scores"
      [] items = {} /\ considered # {} /\ ungiven = {} -> "none scored"

SearchResults(used, scores, items, ungiven) ==
    [ kind |-> "search", used |-> used, items |-> items,
      caveat |-> \E x \in items : Caveat(scores[x.player][CHOOSE k \in used : TRUE].context),
      ungiven |-> [k \in ungiven |-> Shortfall(scores, k)],
      explanation |-> SearchExplanation(DOMAIN scores, items, ungiven) ]

\* list maps a candidate that was scored to [value, minutes].
SearchRanked(used, scores, list, adjusted) ==
    SearchResults(used, scores,
        {[ player |-> p, raw |-> list[p].value, minutes |-> list[p].minutes,
           ranked |-> adjusted[p] ] : p \in DOMAIN list},
        Ungiven(scores, used))

SearchListed(used, scores, list) ==
    SearchRanked(used, scores, list, RankByEvidence(list, None))

SearchScored(v, weights, used, scores) ==
    LET result(p) == Weighted([k \in used |->
            [weight |-> weights[k], value |-> scores[p][k].score]], 100)
    IN SearchListed(used, scores,
            [p \in {q \in DOMAIN scores : result(q).score # None} |->
                [value |-> result(p).score, minutes |-> v.shown[p].minutes]])

\* Every requested score has to be there.  Comparisons are across competitions
\* and the answer carries what the first of them says of that.
SearchAnswer(v, weights, f) ==
    SearchScored(v, weights, {k \in Score : weights[k] > 0},
        [p \in {q \in DOMAIN v.shown : PassesFilters(v.shown[q], f)} |->
            ScoresIn(v, p, {k \in Score : weights[k] > 0}, "global")])

\* A profile with no positive weight is refused.
RecruitmentSearch(weights, f) ==
    /\ Asked /\ DOMAIN view.shown # {}
    /\ \E k \in Score : weights[k] > 0
    /\ answer' = SearchAnswer(view, weights, f)
    /\ UNCHANGED <<unread, shown, population, skipped, view>>

-----------------------------------------------------------------------------
(* replacement_search *)

SimilarityWeight == 55
RoleWeight == 30
MarketWeight == 15

\* Mutant of RequiredComponents: a score never has to be complete.
NothingRequired(role, budget) == {}

\* _required_components
RequiredComponents(role, budget) ==
    (IF role # None THEN {"role fit"} ELSE {})
        \cup (IF Known(budget) # 0 THEN {"affordability"} ELSE {})

\* Affordability against a budget, where there is one and a value is known.
MarketFit(s, budget) ==
    IF Known(budget) = 0 \/ s.value = None THEN None
    ELSE Max({0, Hundred - (Hundred * s.value) \div budget})

\* The target's role, for a candidate whose position it belongs to.
FitFor(v, s, role) ==
    IF role = None THEN None
    ELSE IF s.group \notin Configured[role].groups THEN None
    ELSE RoleScore(v.engine, s, role, "competition", {}).score

\* The parts of a replacement's score.
ReplacementParts(similarity, roleFit, marketFit) ==
    [c \in {"similarity", "role fit", "affordability"} |->
        CASE c = "similarity" -> [weight |-> SimilarityWeight,
                                  value |-> (Hundred * similarity) \div 100]
          [] c = "role fit" -> [weight |-> RoleWeight, value |-> roleFit]
          [] c = "affordability" -> [weight |-> MarketWeight, value |-> marketFit]]

\* A candidate's score is withheld when a part that is required is missing;
\* without it, the parts that are there would score higher than all of them.
ReplacementFrom(similar, minutes, parts, required) ==
    [ player |-> similar.player, similarity |-> similar.similarity,
      given |-> Given(parts) \ {"similarity"}, minutes |-> minutes,
      overall |-> IF required \subseteq Given(parts)
                  THEN Weighted(parts, SimilarityWeight).score ELSE None ]

Replacement(v, similar, role, budget) ==
    LET s == v.shown[similar.player]
    IN ReplacementFrom(similar, s.minutes,
           ReplacementParts(similar.similarity, FitFor(v, s, role), MarketFit(s, budget)),
           RequiredComponents(role, budget))

\* _order_by_evidence: one group, with what it is ordered by.
OrderedByEvidence(value) ==
    InOrder(LET adjusted == RankByEvidence(
                [c \in DOMAIN value |-> [value |-> value[c], minutes |-> c.minutes]], None)
            IN {[ player |-> c.player, raw |-> value[c], minutes |-> c.minutes,
                  overall |-> c.overall, given |-> c.given, ranked |-> adjusted[c] ] : c \in DOMAIN value})

\* Complete scores come first.
ReplacementsOrdered(p, complete, incomplete) ==
    [ kind |-> "replacement", target |-> p, complete |-> Cardinality(complete),
      items |-> Page(OrderedByEvidence([c \in complete |-> c.overall])
                     \o OrderedByEvidence([c \in incomplete |-> c.similarity]), 0, Limit) ]

Replacements(p, candidates) ==
    ReplacementsOrdered(p, {c \in candidates : c.overall # None},
                        {c \in candidates : c.overall = None})

\* Four times the list is taken from those who resemble the target before the
\* constraints of the search are applied.
ReplacementAnswer(v, p, f) ==
    LET role == IF Best(v, p) = None THEN None ELSE Best(v, p).role
        similar == SimilarPage(v, p,
            [Unconstrained EXCEPT !.minAge = f.minAge, !.maxAge = f.maxAge,
                !.maxValue = f.maxValue, !.comps = f.comps, !.nations = f.nations,
                !.within = f.within, !.minMinutes = f.minMinutes], 4 * Limit)
    IN Replacements(p, {Replacement(v, x, role, f.maxValue) :
                          x \in {y \in ToSet(similar) : PassesFilters(v.shown[y.player], f)}})

ReplacementSearch(p, f) ==
    /\ Asked /\ p \in DOMAIN view.shown
    /\ answer' = ReplacementAnswer(view, p, f)
    /\ UNCHANGED <<unread, shown, population, skipped, view>>

-----------------------------------------------------------------------------
(* market_opportunities *)

\* _best_role_score: below any threshold where there is none.
BestRoleScore(v, p) == IF Best(v, p) = None THEN -1 ELSE Best(v, p).score

\* _ordinary_role_fit: the average of everybody who has a role, as a fraction.
OrdinaryRoleFit(v) ==
    LET fitted == {p \in DOMAIN v.shown : Best(v, p) # None}
    IN IF fitted = {} THEN <<0, 1>>
       ELSE <<SumFunction([p \in fitted |-> Best(v, p).score]), Cardinality(fitted)>>

\* The steps of the screen, in order.
Steps(v, c) ==
    << {p \in DOMAIN v.shown : v.shown[p].age # None /\ v.shown[p].age <= c.maxAge},
       {p \in DOMAIN v.shown : BestRoleScore(v, p) >= c.minScore},
       {p \in DOMAIN v.shown : Known(v.shown[p].minutes) >= c.minMinutes},
       {p \in DOMAIN v.shown : v.shown[p].value # None /\ v.shown[p].value <= c.maxValue},
       IF c.within = None THEN DOMAIN v.shown
       ELSE {p \in DOMAIN v.shown : ExpiresWithin(v.shown[p].contract, c.within)} >>

\* Who is left after each step, from the start.
Surviving(v, c) ==
    [i \in 0 .. Len(Steps(v, c)) |->
        {p \in DOMAIN v.shown : \A j \in 1 .. i : p \in Steps(v, c)[j]}]

\* _explain_screen: the first step that removed most, when few are left.
Strictest(surviving) ==
    LET removed(i) == Cardinality(surviving[i - 1]) - Cardinality(surviving[i])
        steps == DOMAIN surviving \ {0}
        most == {i \in steps : \A j \in steps : removed(i) >= removed(j)}
    IN IF removed(Min(most)) = 0 THEN None ELSE Min(most)

OpportunitiesAnswer(v, c) ==
    LET surviving == Surviving(v, c)
        found == surviving[Len(Steps(v, c))]
        priced == {p \in found : Best(v, p) # None /\ v.shown[p].value # None}
        adjusted == RankByEvidence(
            [p \in priced |-> [value |-> Best(v, p).score, minutes |-> v.shown[p].minutes]],
            OrdinaryRoleFit(v))
    IN [ kind |-> "opportunities",
         items |-> {[ player |-> p, raw |-> Best(v, p).score, minutes |-> v.shown[p].minutes,
                      ranked |-> adjusted[p] ] : p \in priced},
         funnel |-> [i \in DOMAIN surviving |-> Cardinality(surviving[i])],
         mean |-> OrdinaryRoleFit(v),
         strictest |-> Strictest(surviving) ]

\* The sentence written for a candidate formats its minutes: with none known
\* the request fails and there is no answer.
Opportunities(c) ==
    /\ Asked
    /\ LET a == OpportunitiesAnswer(view, c) IN
        answer' = IF \E x \in a.items : x.minutes = None THEN [kind |-> "error"] ELSE a
    /\ UNCHANGED <<unread, shown, population, skipped, view>>

-----------------------------------------------------------------------------
(* The list and the profile *)

List(f, sort) ==
    /\ Asked
    /\ answer' = [kind |-> "list", items |-> ListPlayers(view, f, sort)]
    /\ UNCHANGED <<unread, shown, population, skipped, view>>

Profile(p) ==
    /\ Asked /\ p \in DOMAIN view.shown
    /\ answer' = [kind |-> "profile", page |-> ProfilePage(view, p, Limit)]
    /\ UNCHANGED <<unread, shown, population, skipped, view>>

\* list_recruitment_scores
Scores ==
    /\ Asked /\ DOMAIN view.shown # {}
    /\ answer' = [kind |-> "scores", blocked |-> Blocked(view)]
    /\ UNCHANGED <<unread, shown, population, skipped, view>>

-----------------------------------------------------------------------------
(* compare *)

\* Mutant of ComparisonCaveats: the competitions of every scope but this one.
CaveatsSwapped(seasons, scope) ==
    (IF Cardinality({s.group : s \in seasons}) > 1 THEN {"positions"} ELSE {})
    \cup (IF Cardinality({s.comp : s \in seasons}) > 1 /\ scope # "competition"
          THEN {"competitions"} ELSE {})

\* _comparison_caveat, from the seasons in the columns.
ComparisonCaveats(seasons, scope) ==
    (IF Cardinality({s.group : s \in seasons}) > 1 THEN {"positions"} ELSE {})
    \cup (IF Cardinality({s.comp : s \in seasons}) > 1 /\ scope = "competition"
          THEN {"competitions"} ELSE {})

\* A column holds the metrics the player has, each with what it was ranked
\* among; its scores, role and prose are those of the profile.
ComparisonColumn(ranked) ==
    [m \in {n \in DOMAIN ranked : ranked[n].value # None} |-> ranked[m]]

ComparisonPage(v, chosen, scope) ==
    [ kind |-> "comparison", scope |-> scope,
      columns |-> [p \in chosen |->
                    ComparisonColumn(RankIn(v, p, ToSet(ProfileMetrics), scope))],
      caveats |-> ComparisonCaveats({v.shown[p] : p \in chosen}, scope) ]

\* Players saved on a list, whom the view may no longer know: those are passed
\* over, and with nobody left the request is refused.  A league group is a
\* scope the route accepts and gives the engine no competitions for: it fails.
Compare(selected, scope) ==
    /\ Asked /\ Cardinality(selected) <= MaxCompare
    /\ selected \cap DOMAIN view.shown # {}
    /\ answer' = IF scope = "league_group" THEN [kind |-> "error"]
                 ELSE ComparisonPage(view, selected \cap DOMAIN view.shown, scope)
    /\ UNCHANGED <<unread, shown, population, skipped, view>>

Scopes == {"competition", "league_group", "global"}

Sorts == {"minutes", "role_score", "role_score_ranked", "market_value", "age"}

Next ==
    \/ \E row \in unread :
        \/ SkipUnknown(row) \/ SkipWithoutPosition(row)
        \/ ReadShown(row) \/ ReadSuperseded(row)
    \/ Build
    \/ \E f \in Filter :
        \/ \E weights \in Weighting \cup Presets : RecruitmentSearch(weights, f)
        \/ \E p \in Player : ReplacementSearch(p, f)
        \/ \E sort \in Sorts : List(f, sort)
    \/ \E c \in Screen : Opportunities(c)
    \/ \E p \in Player : Profile(p)
    \/ Scores
    \/ \E selected \in SUBSET Player, scope \in Scopes : Compare(selected, scope)

Spec == Init /\ [][Next]_vars

-----------------------------------------------------------------------------
(* Properties *)

\* In whatever order the rows are read, a player is represented by the row with
\* the most minutes, that row alone stands for it wherever competitions are
\* compared with each other, and once all rows are read a player is in such a
\* comparison no more than once (PlayerMetrics.is_primary, build_view).
RankedOnce ==
    /\ \A p \in Player :
        LET mine == {r \in population : r.season.player = p} IN
        /\ {r \in mine : r.primary} = IF shown[p] = None THEN {}
                                      ELSE {[season |-> shown[p], primary |-> TRUE]}
        /\ \A r \in mine : r.season = shown[p] \/ NoBetter(r.season, shown[p])
    /\ view # None =>
        \A p, q \in DOMAIN view.shown :
            Cardinality({r \in Population(view.engine, view.shown[p], Everywhere) :
                            r.season.player = q}) <= 1

\* Whether a placed percentile among these was taken across competitions.
Spreads(s, metrics, scope) ==
    \E m \in metrics :
        LET r == Rank(view.engine, s, m, scope, {})
        IN r.percentile # None /\ Caveat(r.context)

RoleMetrics(r) ==
    DOMAIN Configured[r].metrics
        \cup UNION {DOMAIN Definition[k].weights : k \in DOMAIN Configured[r].scores}

\* A score, a role or a search that rests on a comparison across competitions
\* says so, however deep in it the comparison is and whether it was asked for
\* or came of too few peers; and a profile that shows a percentile names a
\* comparison that could be made (widest_context, PercentileEngine.rank,
\* recruitment_search, get_player_stats).
CaveatTravels ==
    /\ answer # None /\ answer.kind = "search" =>
        ((\E x \in answer.items, k \in answer.used :
            Spreads(view.shown[x.player], DOMAIN Definition[k].weights, "global"))
         => answer.caveat)
    /\ answer # None /\ answer.kind = "profile" =>
        LET page == answer.page
            s == view.shown[page.player]
        IN /\ \A k \in Score :
                Spreads(s, DOMAIN Definition[k].weights, "competition")
                    => Caveat(page.stats.scores[k].context)
           /\ page.roles.best # None =>
                (Spreads(s, RoleMetrics(page.roles.best.role), "competition")
                    => Caveat(page.roles.best.context))
           /\ (\E m \in DOMAIN page.stats.metrics : page.stats.metrics[m].here # None)
                => page.stats.context.size >= MinPopulation

\* The metrics a column is ranked on, the population each rank was taken from,
\* and the ranks that were asked for in the competition and had too few there.
RankedOn(p) == {m \in DOMAIN answer.columns[p] : answer.columns[p][m].percentile # None}
RankedAgainst(p, m) ==
    LET s == view.shown[p]
        c == answer.columns[p][m].context
    IN <<s.group, s.year, IF c.scope = "global" THEN Everywhere ELSE c.competitions>>
Widened(p, m) == answer.scope # "global" /\ answer.columns[p][m].context.scope = "global"

\* Two columns of one season that are ranked on some metric against different
\* populations come with a caveat that says in what they differ; and a caveat
\* is there only for two columns that differ in it and share no metric ranked
\* against one population, but for those whose comparison was widened to one
\* (_comparison_caveat, PercentileEngine.rank).
ComparisonQualified ==
    answer # None /\ answer.kind = "comparison" =>
        LET differ(kind, p, q) ==
                IF kind = "positions" THEN view.shown[p].group # view.shown[q].group
                ELSE view.shown[p].comp # view.shown[q].comp
            both(p, q) == RankedOn(p) \cap RankedOn(q)
        IN /\ \A p, q \in DOMAIN answer.columns :
                /\ view.shown[p].year = view.shown[q].year
                /\ \E m \in both(p, q) : RankedAgainst(p, m) # RankedAgainst(q, m)
                => \E kind \in answer.caveats : differ(kind, p, q)
           /\ \A kind \in answer.caveats :
                \E p, q \in DOMAIN answer.columns :
                    /\ differ(kind, p, q)
                    /\ \A m \in both(p, q) :
                          \/ RankedAgainst(p, m) # RankedAgainst(q, m)
                          \/ Widened(p, m) /\ Widened(q, m)

\* All replacements with a score were scored from the same parts, and they come
\* before those whose score was withheld (replacement_search).
ReplacementComparable ==
    answer # None /\ answer.kind = "replacement" =>
        \A i, j \in DOMAIN answer.items :
            LET x == answer.items[i]
                y == answer.items[j]
            IN /\ x.overall # None /\ y.overall # None => x.given = y.given
               /\ i < j /\ x.overall = None => y.overall = None

Fuller(x, y) == EvidenceWeight(x.minutes) >= EvidenceWeight(y.minutes)
AboveMean(x, mean) == ~Less(<<x.raw, 1>>, mean)

\* Where candidates were screened first, having played less is never a reason
\* to come first: of two at or above the ordinary, the one that is no worse and
\* has played no less is not behind.  In every list, those with a full season
\* keep the order of their raw values (rank_by_evidence, market_opportunities).
EvidenceOrder ==
    answer # None /\ answer.kind \in {"opportunities", "search"} =>
        \A x, y \in answer.items :
            /\ answer.kind = "opportunities" /\ AboveMean(y, answer.mean)
                    /\ x.raw >= y.raw /\ Fuller(x, y)
                => ~Less(x.ranked, y.ranked)
            /\ EvidenceWeight(x.minutes) = Established
                    /\ EvidenceWeight(y.minutes) = Established
                => (Less(x.ranked, y.ranked) <=> x.raw < y.raw)

\* What the builder says cannot be produced is given to no player of the load,
\* in any comparison, and a search that asks for it ranks nobody
\* (unproducible_scores, list_recruitment_scores, recruitment_search).
UnproducibleIsNobodys ==
    /\ answer # None /\ answer.kind = "scores" =>
        \A k \in answer.blocked, p \in DOMAIN view.shown, scope \in {"competition", "global"} :
            Intelligence(view.engine, view.shown[p], k, scope, {}).score = None
    /\ answer # None /\ answer.kind = "search" =>
        (answer.used \cap Blocked(view) # {} => answer.items = {})

\* "The bands match the ones the percentile bar already colours by, so the prose
\* and the colours cannot tell a reader different things" (interpretation.py):
\* what the reading of a profile calls below average, the bar beside it paints
\* low.
ProseMatchesTheBar ==
    answer # None /\ answer.kind = "profile" =>
        LET said == answer.page.reading.role
        IN said # None /\ said.standing = "reading_below_average"
            => Colour(answer.page.roles.percentile) = "low"
=============================================================================
