--------------------------- MODULE MCProviderLoad ---------------------------
(***************************************************************************)
(* Two competitions and three players, one of whom may be signed while a   *)
(* fetch is under way and one of whom may be listed in both.  The figures  *)
(* of one contradict each other and those of another are refused.          *)
(***************************************************************************)
EXTENDS ProviderLoad

CONSTANTS p1, p2, p3, c1, c2, k1

Row(p, h, k) == [id |-> p, club |-> k, height |-> h]
A == Row(p1, "impossible", k1)
B == Row(p2, "plain", None)
C == Row(p3, None, k1)

MCCompOrder == <<c1, c2>>
MCRosters == [c \in Comp |-> IF c = c1 THEN {<<A>>, <<B, A, Row(None, None, k1)>>}
                             ELSE {<<C>>, <<C, A>>}]
MCFiguresOf == [p \in Player |-> [c \in Comp |->
    CASE p = p1 /\ c = c1 -> "contradicts" [] p = p1 -> "beyond"
      [] p = p2 -> "negative" [] OTHER -> "plain"]]
MCListedClubs == [c \in Comp |-> {k1}]

Listed(p, birth, worth) ==
    [sid |-> p, birth |-> birth, worth |-> worth, club |-> k1, comp |-> c1, height |-> "plain"]
Point(on, worth) == [on |-> on, worth |-> worth, club |-> k1]
Moved(fee) == [from |-> None, to |-> k1, fee |-> fee]

Dataset(players, points, fee) ==
    [players |-> players, points |-> [p \in Player |-> points],
     transfers |-> [p \in Player |-> <<Moved(fee)>>], comps |-> {c1}, clubs |-> {k1}]

Sound == Dataset(<<Listed(p1, "plain", "plain"), Listed(p2, "plain", None)>>,
                 <<Point(1, "plain"), Point(1, None), Point(None, "plain")>>, None)
Refused == Dataset(<<Listed(p1, "ancient", "plain"), Listed(p2, "plain", "plain"),
                     Listed(p3, "ancient", "plain")>>, <<Point(1, "plain")>>, "plain")
MCMarkets == {Sound, Refused}
Empty == [players |-> {}, bridge |-> {}, stats |-> {}, values |-> {}, transfers |-> {},
          clubs |-> {}, comps |-> {}, next |-> 1, checks |-> <<>>, loads |-> <<>>]

\* A player both sources know, as a resolution leaves it, with the facts of each.
Resolved ==
    [Empty EXCEPT !.players = {[id |-> 1, who |-> <<"transfermarkt", p1>>, club |-> None]},
        !.bridge = {[source |-> "transfermarkt", sid |-> p1, player |-> 1, method |-> "source_native_id"],
                    [source |-> "footystats", sid |-> p1, player |-> 1, method |-> "name_dob"]},
        !.stats = {[player |-> 1, comp |-> c1, source |-> "footystats", figures |-> "plain"]},
        !.values = {[player |-> 1, on |-> 1, source |-> "transfermarkt", worth |-> "plain"]},
        !.next = 2]
MCPriors == {Resolved}
=============================================================================
