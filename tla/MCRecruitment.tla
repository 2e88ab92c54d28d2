--------------------------- MODULE MCRecruitment ---------------------------
(* Recruitment on four players, two competitions, three metrics, two scores  *)
(* and two roles.                                                            *)
EXTENDS Recruitment

CONSTANTS p1, p2, p3, p4

MCFormula ==
    [m \in {"goals", "tackles", "accuracy"} |->
        CASE m = "goals"    -> [kind |-> "playing", part |-> "goals", whole |-> "goals"]
          [] m = "tackles"  -> [kind |-> "recorded", part |-> "tackles", whole |-> "tackles"]
          [] m = "accuracy" -> [kind |-> "ratio", part |-> "goals", whole |-> "shots"]]

MCDefinition ==
    [k \in {"threat", "defending"} |->
        CASE k = "threat"    -> [weights |-> [m \in {"goals", "accuracy"} |-> 1], floor |-> 50]
          [] k = "defending" -> [weights |-> [m \in {"tackles"} |-> 1], floor |-> 100]]

MCConfigured ==
    [r \in {"striker", "presser"} |->
        CASE r = "striker" ->
                [groups |-> {"F"}, metrics |-> [m \in {"accuracy"} |-> 40],
                 scores |-> [k \in {"threat"} |-> 60],
                 core |-> [c \in {"finishing"} |-> {"accuracy"}]]
          [] r = "presser" ->
                [groups |-> {"F", "M"}, metrics |-> [m \in {"tackles"} |-> 70],
                 scores |-> [k \in {"defending"} |-> 30],
                 core |-> [c \in {"pressing"} |-> {"tackles"}]]]

MCFeatures == [g \in {"F", "M"} |-> {"goals", "tackles", "accuracy"}]
MCCounted ==
    [k \in {"threat", "defending"} |->
        [total |-> "shots", threshold |-> IF k = "threat" THEN 2 ELSE None]]
MCProfile == <<"accuracy", "tackles", "goals">>

Row(p, group, comp, minutes, recorded, goals, tackles, shots) ==
    [ player |-> p, group |-> group, comp |-> comp, year |-> 2026,
      minutes |-> minutes, recorded |-> recorded,
      totals |-> [t \in {"goals", "tackles", "shots"} |->
        CASE t = "goals" -> goals [] t = "tackles" -> tackles [] t = "shots" -> shots],
      age |-> IF p = p3 THEN None ELSE 20, value |-> IF p = p3 THEN None ELSE 5,
      contract |-> IF p = p4 THEN -1 ELSE 6, foot |-> "left", nation |-> "PT",
      height |-> 180, club |-> None ]

\* The first player has a row in each competition, of which either may hold
\* more minutes; the fourth may lack a position, or what a metric needs, and a
\* whole load may lack it.
Spread ==
    {{ Row(p1, "F", 1, m, 9, 2, d, s[1]), Row(p1, "F", 2, n, 9, 2, d, s[1]),
       Row(p2, "F", 1, 9, 9, 4, 6, s[1]), Row(p3, "F", 2, 9, 9, g, d, s[2]),
       Row(p4, group, 1, k, k, 1, 1, s[2]), Row(None, "F", 1, 9, 9, 1, 1, 1) } :
        m \in {9, None}, n \in {None, 12}, g \in {1, 2}, group \in {"F", "M", None},
        k \in {3, 9}, d \in {3, None}, s \in {<<4, 5>>, <<None, 5>>, <<None, None>>}}

\* Three players are alike.
Alike ==
    {{ Row(p1, "F", 1, m, 9, 2, 2, 4), Row(p1, "F", 2, n, 9, 2, 2, 4),
       Row(p2, "F", 1, 9, 9, 2, 2, 4), Row(p3, "F", 2, 9, 9, g, 2, 4),
       Row(p4, "F", 1, k, k, 1, 1, 5) } :
        m \in {3, None}, n \in {None, 9}, g \in {1, 2}, k \in {3, 9}}

\* Two pairs, which may be of two positions, competitions or seasons.
Paired ==
    {{ Row(p1, "F", 1, 9, 9, 2, 2, 4), Row(p2, "F", 1, 9, 9, 4, 6, 4),
       [Row(p3, group, c, 9, 9, 1, 2, 4) EXCEPT !.year = y],
       [Row(p4, group, c, 5, 5, 2, 3, 4) EXCEPT !.year = y] } :
        group \in {"F", "M"}, c \in {1, 2}, y \in {2025, 2026}}

MCUniverses == Spread \cup Alike \cup Paired

MCWeighting ==
    {[k \in {"threat", "defending"} |-> IF k = "threat" THEN w ELSE 3 - w] : w \in {0, 1, 3}}

MCFilter ==
    { Unconstrained,
      [Unconstrained EXCEPT !.groups = {"M"}],
      [Unconstrained EXCEPT !.maxValue = 10, !.minMinutes = 2],
      [Unconstrained EXCEPT !.maxAge = 30, !.role = "striker", !.within = 12] }

MCScreen ==
    { [maxAge |-> 30, minScore |-> 0, minMinutes |-> 0, maxValue |-> 10, within |-> None],
      [maxAge |-> 23, minScore |-> 1200, minMinutes |-> 2, maxValue |-> 5, within |-> 18] }
=============================================================================
