---------------------------- MODULE Interpretation ----------------------------
(***************************************************************************)
(* The profile in sentences (interpretation.py): which of the numbers of a *)
(* page are said of a player, and what is said of them.  A sentence is its *)
(* code and the names it carries; wording and lists of labels are left     *)
(* out, and so is the order in which one sentence lists its names.         *)
(***************************************************************************)
EXTENDS Scoring

CONSTANTS
    ProfileMetrics,   \* the metrics of a profile, in the order of the page
    TeamContext,      \* metrics that describe the team, not the player
    PersonalGroups    \* the groups of which they are said all the same

ASSUME ProfileAssumption == ProfileMetrics \in Seq(Metric) /\ ProfileMetrics # <<>>

AtLeast(x, percent) == 100 * x >= percent * Hundred
AtMost(x, percent) == 100 * x <= percent * Hundred

\* rampColor: how the bar beside the sentence is painted.
Colour(x) ==
    CASE AtLeast(x, 90)                      -> "elite"
      [] AtLeast(x, 70) /\ ~AtLeast(x, 90)   -> "high"
      [] AtLeast(x, 40) /\ ~AtLeast(x, 70)   -> "mid"
      [] ~AtLeast(x, 40)                     -> "low"

\* _reading, _reading_code.
ReadingCode(x) ==
    CASE AtLeast(x, 90)                      -> "reading_strong"
      [] AtLeast(x, 70) /\ ~AtLeast(x, 90)   -> "reading_above_average"
      [] AtMost(x, 10)                       -> "reading_little"
      [] ~AtLeast(x, 70) /\ ~AtMost(x, 10)   -> "reading_below_average"

\* The first n by value, highest first; equals stay in order.
Foremost(value, order, n) ==
    LET at(x) == CHOOSE i \in DOMAIN order : order[i] = x
        ahead(x) == {y \in DOMAIN value : \/ value[y] > value[x]
                                          \/ value[y] = value[x] /\ at(y) < at(x)}
    IN {x \in DOMAIN value : Cardinality(ahead(x)) < n}

\* The scores of a page stand in the order of the configuration.
ScoreOrder == SetToSeq(Score)

-----------------------------------------------------------------------------
(* metrics maps a metric of the page to its place, turned so that higher is  *)
(* better (_oriented), or to None where it was not placed.                   *)

PlacedMetrics(metrics) == {m \in DOMAIN metrics : metrics[m] # None}

\* _drivers, _driver_keys: the parts of the role the player stands highest in.
Drivers(role, metrics) ==
    LET placed == [m \in DOMAIN role.components \cap PlacedMetrics(metrics) |-> metrics[m]]
    IN {m \in Foremost(placed, ProfileMetrics, 2) : AtLeast(metrics[m], 70)}

\* What is claimed of the best role (_profile_lines): not placed among others,
\* scored on the part that is covered, or plainly.  A role that is limited,
\* below 75, is below 85 too.
Claim(role, standing) ==
    IF standing = None THEN "role_aligns_no_population"
    ELSE IF CoverageBelow(role.components, 85) THEN "role_limited_claim"
    ELSE "role_aligns"

\* The parts the role was computed without (_unavailable_lines).
Without(role) == DOMAIN role.components \ Given(role.components)

\* What is said of the best role (_profile_messages).
RoleReading(role, standing, alternatives, metrics) ==
    IF role = None THEN None
    ELSE [ claim |-> Claim(role, standing),
           standing |-> IF standing = None THEN None ELSE ReadingCode(standing),
           drivers |-> Drivers(role, metrics),
           alternatives |-> alternatives,
           without |-> Without(role) ]

\* A score that rests on few events is no strength, and is said to be set aside.
FewEvents(score) == score.evidence # None /\ score.evidence.low

ScoreReadings(scores) ==
    LET known == {k \in DOMAIN scores : scores[k].score # None}
        high == {k \in known : AtLeast(scores[k].score, 70)}
        few == {k \in known : FewEvents(scores[k])}
        poor == {k \in known : AtMost(scores[k].score, 40)}
        value(keys) == [k \in keys |-> scores[k].score]
    IN [ strongest |-> Foremost(value(high \ few), ScoreOrder, 3),
         weakest   |-> Foremost([k \in poor |-> -scores[k].score], Reverse(ScoreOrder), 3),
         setAside  |-> Foremost(value(high \cap few), ScoreOrder, 3) ]

\* _findings: four at most, from one end; what describes the team is left out.
Findings(metrics, strong, only, group) ==
    LET said == {m \in PlacedMetrics(metrics) \cap only :
                    m \in TeamContext => group \in PersonalGroups}
        end == {m \in said : IF strong THEN AtLeast(metrics[m], 70) ELSE AtMost(metrics[m], 40)}
        height == [m \in end |-> IF strong THEN metrics[m] ELSE -metrics[m]]
    IN [m \in Foremost(height, ProfileMetrics, 4) |-> ReadingCode(metrics[m])]

\* _unavailable_messages: said to be not supplied.
NotRanked(metrics) == DOMAIN metrics \ PlacedMetrics(metrics)

\* _confidence_lines, _confidence_messages: the share is rounded first.
ConfidenceCode(coverage) ==
    LET percent == (200 * coverage + Hundred) \div (2 * Hundred)
    IN IF coverage = None THEN "confidence_coverage_unknown"
       ELSE CASE percent >= 80       -> "confidence_coverage_high"
              [] percent \in 50 .. 79 -> "confidence_coverage_mid"
              [] percent < 50        -> "confidence_coverage_low"

\* interpret, given what read_profile takes from the page.
Interpret(role, standing, alternatives, scores, metrics, coverage, group) ==
    [ role        |-> RoleReading(role, standing, alternatives, metrics),
      scores      |-> ScoreReadings(scores),
      strengths   |-> Findings(metrics, TRUE, DOMAIN metrics, group),
      watchOuts   |-> Findings(metrics, FALSE,
                         IF role = None THEN DOMAIN metrics ELSE DOMAIN role.components, group),
      unavailable |-> NotRanked(metrics),
      confidence  |-> ConfidenceCode(coverage) ]
=============================================================================
