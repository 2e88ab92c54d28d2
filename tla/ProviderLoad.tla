---------------------------- MODULE ProviderLoad ----------------------------
(***************************************************************************)
(* One provider's rows replaced in one transaction                         *)
(* (pipelines/load/load_providers.py with --replace --verify): FootyStats  *)
(* from the files of a complete generation (footystats_snapshot.py), or    *)
(* Transfermarkt from its dataset (transfermarkt.py).                      *)
(*                                                                         *)
(* A load is one transaction of one connection, so it is one step: it      *)
(* commits, is rolled back by a check, or ends in an error.  Each method   *)
(* of the loader is an operator from the state of the load to the next.    *)
(* The demonstration source, which only local runs load, is left out, and  *)
(* so are names, nationalities and positions: no row is lost over them.    *)
(***************************************************************************)
EXTENDS SnapshotFetch

CONSTANTS
    Markets,     \* the datasets Transfermarkt may publish
    Priors,      \* what earlier loads and resolutions may have left
    Batch,       \* BATCH
    MinMinutes,  \* MIN_MINUTES_COVERAGE, in percent
    MaxLoads     \* bound: loads

Sources == {"footystats", "transfermarkt"}
Of(rows, s) == {r \in rows : r.source = s}
Keyed(s, id) == <<s, id>>

\* Every bridge row of a load names the player row made from the same provider row.
IdsFollow(d) ==
    \A b \in d.bridge : b.method = "source_native_id" =>
        \E r \in d.players : r.id = b.player /\ r.who = Keyed(b.source, b.sid)

ASSUME LoadAssumption == Batch \in Nat \ {0} /\ MinMinutes \in 0 .. 100 /\ MaxLoads \in Nat
ASSUME PriorAssumption ==
    \A d \in Priors :
        /\ DOMAIN d = {"players", "bridge", "stats", "values", "transfers",
                       "clubs", "comps", "next", "checks", "loads"}
        /\ IdsFollow(d) /\ d.next \in Nat /\ d.checks \in Seq(Range(d.checks))
ASSUME MarketAssumption == \A m \in Markets : m.players \in Seq(Range(m.players))

VARIABLES
    market,   \* the dataset on disk
    db,       \* the schema the load writes to
    ended     \* history: the last load and what became of it

loadVars == <<market, db, ended>>
vars == <<offered, appeared, snapshot, progress, roster, clubs, finished, run, runs, moves,
          market, db, ended>>

-----------------------------------------------------------------------------
(* Reading the snapshots *)

Scope == Where(CompOrder, LAMBDA c : snapshot[c] # <<>>)

Headers(c) == Where(Lines(c), LAMBDA line : line.kind = "roster")

\* Mutant of RosterRead: the file's own header is read.
RosterReadHeader(c) == IF Headers(c) = <<>> THEN <<>> ELSE Last(Headers(c)).rows

\* The generation's roster where there is one: the file's own cannot grow.
RosterRead(c) ==
    IF roster[c] # <<>> THEN roster[c]
    ELSE IF Headers(c) = <<>> THEN <<>> ELSE Last(Headers(c)).rows

\* The snapshot answers with the whole roster and no pager.
Roster(c) == RosterPages(<<RosterRead(c)>>, None)

\* The files are read in the order of the competitions and the last line about
\* a player is kept.  A player with no line has no record.
DetailsRead ==
    [p \in Player |->
        LET lines == FlattenSeq([i \in DOMAIN Scope |-> LinesOf(Scope[i], p)])
        IN  IF lines = <<>> THEN <<>> ELSE Last(lines).details]

ClubsRead(c) == IF clubs[c] = None THEN {} ELSE clubs[c]

-----------------------------------------------------------------------------
(* Reading the dataset *)

\* The reader makes the impossible unknown, except that the record it builds
\* refuses a negative amount, and the reading ends there.
MapPlayer(row) ==
    [sid |-> row.sid, comp |-> row.comp, club |-> row.club, birth |-> row.birth,
     height |-> IF row.height = "impossible" THEN None ELSE row.height]

Unbuildable(amounts) == "negative" \in amounts

MarketPlayers == [i \in DOMAIN market.players |-> MapPlayer(market.players[i])]
Points(sid) == Where(market.points[sid], LAMBDA point : point.on # None /\ point.worth # None)
AmountsOf(sid) ==
    {Points(sid)[i].worth : i \in DOMAIN Points(sid)}
        \cup {market.transfers[sid][i].fee : i \in DOMAIN market.transfers[sid]}

-----------------------------------------------------------------------------
(* Inserting *)

Inserted(kept, refused, raised) == [kept |-> kept, refused |-> refused, raised |-> raised]

\* Mutant of Both: what the second half refused is forgotten.
BothForgetful(a, b) == Inserted(a.kept \o b.kept, a.refused, a.raised \/ b.raised)

Both(a, b) == Inserted(a.kept \o b.kept, a.refused + b.refused, a.raised \/ b.raised)

\* A batch that is refused is halved, down to the row the database will not
\* have.  Only a check constraint sets a row aside; anything else ends the load.
InsertIsolating(verdicts) ==
    LET n == Len(verdicts)
        attempt[span \in (1 .. n + 1) \X (0 .. n)] ==
            LET lo == span[1]
                hi == span[2]
                middle == (lo + hi + 1) \div 2
            IN  IF \A i \in lo .. hi : verdicts[i] = "stored"
                THEN Inserted([i \in 1 .. hi - lo + 1 |-> lo + i - 1], 0, FALSE)
                ELSE IF lo = hi
                THEN Inserted(<<>>, IF verdicts[lo] = "refused" THEN 1 ELSE 0,
                              verdicts[lo] = "raises")
                ELSE Both(attempt[<<lo, middle - 1>>], attempt[<<middle, hi>>])
        batch(k) == attempt[<<(k - 1) * Batch + 1, IF k * Batch < n THEN k * Batch ELSE n>>]
    IN  FoldLeft(LAMBDA done, k : Both(done, batch(k)), Inserted(<<>>, 0, FALSE),
                 [k \in 1 .. (n + Batch - 1) \div Batch |-> k])

\* The check constraints of dim_player and of fact_player_season_stats.  A
\* figure its column cannot hold is refused otherwise.
PlayerVerdict(r) ==
    IF r.birth = "ancient" \/ r.height = "impossible" THEN "refused" ELSE "stored"
StatsVerdict(r) ==
    IF r.figures \in {"beyond", "contradicts", "negative"} THEN "refused"
    ELSE IF r.figures = "huge" THEN "raises" ELSE "stored"

\* Both halves of a pair that contradicts itself become unknown.
ReconcileContradictions(figures) == IF figures = "contradicts" THEN "blanked" ELSE figures

-----------------------------------------------------------------------------
(* The steps of a load *)

\* Facts go by their source; a player goes when no other source knows it.
Purge(d, s) ==
    LET mine == {b.player : b \in Of(d.bridge, s)}
        shared == {b.player : b \in d.bridge \ Of(d.bridge, s)}
        gone == mine \ shared
    IN  [d EXCEPT !.stats = {f \in @ : f.source # s /\ f.player \notin gone},
                  !.values = {f \in @ : f.source # s /\ f.player \notin gone},
                  !.transfers = {f \in @ : f.source # s /\ f.player \notin gone},
                  !.players = {r \in @ : r.id \notin gone},
                  !.bridge = {b \in @ : b.source # s},
                  !.clubs = {k \in @ : k[1] # s}, !.comps = {k \in @ : k[1] # s}]

Started(s) ==
    [source |-> s, db |-> Purge(db, s), ids |-> <<>>, known |-> {}, refused |-> 0,
     raised |-> s = "footystats" /\ \E i \in DOMAIN Scope : ~Legible(Scope[i])]

Performance(l) == l.source = "footystats"

LoadCompetitions(l) ==
    [l EXCEPT !.db.comps = @ \cup {Keyed(l.source, c) :
        c \in IF Performance(l) THEN {Scope[i] : i \in DOMAIN Scope} ELSE market.comps}]

LoadClubs(l) ==
    LET listed == IF Performance(l) THEN UNION {ClubsRead(Scope[i]) : i \in DOMAIN Scope}
                  ELSE market.clubs
        keys == {Keyed(l.source, k) : k \in listed}
    IN  [l EXCEPT !.db.clubs = @ \cup keys, !.known = keys]

\* The club if the load knows it.
Resolvable(l, club) ==
    IF Keyed(l.source, club) \in l.known THEN Keyed(l.source, club) ELSE None

\* A birth the source does not tell is nothing to refuse a row for.
Completed(r) == [f \in DOMAIN r \cup {"birth"} |-> IF f \in DOMAIN r THEN r[f] ELSE "plain"]

Described(listed) == [i \in DOMAIN listed |-> Completed(listed[i])]

\* A player of two competitions keeps its place and is described by the later.
Identities(l) ==
    FoldLeft(LAMBDA merged, r :
                IF \E i \in DOMAIN merged : merged[i].sid = r.sid
                THEN [i \in DOMAIN merged |-> IF merged[i].sid = r.sid THEN r ELSE merged[i]]
                ELSE Append(merged, r),
             <<>>,
             Described(IF Performance(l)
                       THEN FlattenSeq([i \in DOMAIN Scope |->
                                           GetPlayers(Roster(Scope[i]), Scope[i])])
                       ELSE MarketPlayers))

\* Mutant of IdOfEach: the ids are matched with the rows that were offered.
IdOfEachOffered(ordered, kept, ids) ==
    [sid \in {ordered[i].sid : i \in DOMAIN kept} |->
        ids[CHOOSE i \in DOMAIN kept : ordered[i].sid = sid]]

\* The ids the database returns are matched by position with the rows it kept.
IdOfEach(ordered, kept, ids) ==
    [sid \in {ordered[kept[i]].sid : i \in DOMAIN kept} |->
        ids[CHOOSE i \in DOMAIN kept : ordered[kept[i]].sid = sid]]

\* What an insertion refused, and how it ended, is the load's.
Tallied(l, insert) ==
    [l EXCEPT !.refused = @ + insert.refused, !.raised = @ \/ insert.raised]

PlayersBridged(l, ids) ==
    [l EXCEPT !.ids = ids,
              !.db.bridge = @ \cup {[source |-> l.source, sid |-> sid, player |-> ids[sid],
                                     method |-> "source_native_id"] : sid \in DOMAIN ids}]

PlayersReturned(l, ordered, kept, returned) ==
    PlayersBridged(
        [l EXCEPT !.db.next = @ + Len(returned),
                  !.db.players = @ \cup
                        {[id |-> returned[i], who |-> Keyed(l.source, ordered[kept[i]].sid),
                          club |-> Resolvable(l, ordered[kept[i]].club)] : i \in DOMAIN kept}],
        IdOfEach(ordered, kept, returned))

PlayersInserted(l, ordered, insert) ==
    PlayersReturned(Tallied(l, insert), ordered, insert.kept,
                    [i \in DOMAIN insert.kept |-> l.db.next + i - 1])

PlayersListed(l, ordered) ==
    PlayersInserted(l, ordered,
                    InsertIsolating([i \in DOMAIN ordered |-> PlayerVerdict(ordered[i])]))

LoadPlayers(l) ==
    PlayersListed(
        [l EXCEPT !.raised = @ \/ (~Performance(l) /\
                Unbuildable({market.players[i].worth : i \in DOMAIN market.players}))],
        Identities(l))

\* The rows of the players that were loaded.
SeasonRows(l, recorded) ==
    LET ours == Where(recorded, LAMBDA r : r.sid \in DOMAIN l.ids)
    IN  [i \in DOMAIN ours |->
            [player |-> l.ids[ours[i].sid], comp |-> ours[i].comp, source |-> l.source,
             figures |-> ReconcileContradictions(ours[i].figures)]]

SeasonsInserted(l, rows, insert) ==
    [Tallied(l, insert) EXCEPT
        !.db.stats = @ \cup {rows[insert.kept[i]] : i \in DOMAIN insert.kept}]

SeasonsListed(l, rows) ==
    SeasonsInserted(l, rows, InsertIsolating([i \in DOMAIN rows |-> StatsVerdict(rows[i])]))

LoadSeasonStats(l) ==
    IF ~Performance(l) THEN l
    ELSE SeasonsListed(l, SeasonRows(l,
            FlattenSeq([i \in DOMAIN Scope |->
                GetCompetitionStats(Roster(Scope[i]), DetailsRead, Scope[i])])))

\* One valuation of a player and a date, the first.
LoadMarketValues(l) ==
    LET dated(sid) == {Points(sid)[i].on : i \in DOMAIN Points(sid)}
        first(sid, day) == Points(sid)[CHOOSE i \in DOMAIN Points(sid) :
                                /\ Points(sid)[i].on = day
                                /\ \A j \in 1 .. i - 1 : Points(sid)[j].on # day]
    IN  IF Performance(l) THEN l
        ELSE [l EXCEPT !.raised = @ \/ \E sid \in DOMAIN l.ids : Unbuildable(AmountsOf(sid)),
                       !.db.values = @ \cup UNION {
                            {[player |-> l.ids[sid], on |-> day, source |-> l.source,
                              worth |-> first(sid, day).worth] : day \in dated(sid)} : sid \in DOMAIN l.ids}]

LoadTransfers(l) ==
    IF Performance(l) THEN l
    ELSE [l EXCEPT !.db.transfers = @ \cup UNION {
            {[player |-> l.ids[sid], source |-> l.source,
              from |-> Resolvable(l, market.transfers[sid][i].from),
              to |-> Resolvable(l, market.transfers[sid][i].to)] :
                i \in DOMAIN market.transfers[sid]} : sid \in DOMAIN l.ids}]

Orphans(d, facts) == {f \in facts : \A r \in d.players : r.id # f.player}

\* The loader's own checks: players, no provider row mapped twice, no figures
\* of nobody.
ChecksFail(d) ==
    \/ d.players = {}
    \/ Cardinality({Keyed(b.source, b.sid) : b \in d.bridge}) < Cardinality(d.bridge)
    \/ Orphans(d, d.stats) # {}

\* The serving suite that --verify runs, over what every source has loaded; the
\* checks that only warn, and those of countries, are left out.
VolumeFails(d) == d.players = {} \/ d.comps = {} \/ d.stats = {}

CoverageFails(d) ==
    100 * Cardinality({f \in d.stats : f.figures # "silent"}) < MinMinutes * Cardinality(d.stats)

IntegrityFails(d) ==
    LET sources == {f.source : f \in d.stats}
    IN  Orphans(d, d.stats) # {} \/ ("demo" \in sources /\ sources # {"demo"})

Stranded(d, facts) == {f.source : f \in facts} \ {b.source : b \in d.bridge}

OwnershipFails(d) ==
    \/ Stranded(d, d.values) # {} \/ Stranded(d, d.transfers) # {} \/ Stranded(d, d.stats) # {}
    \/ Orphans(d, d.values) # {} \/ Orphans(d, d.transfers) # {} \/ Orphans(d, d.bridge) # {}
    \/ \E f, g \in d.values : f # g /\ <<f.player, f.on, f.source>> = <<g.player, g.on, g.source>>

SuiteFails(d) == VolumeFails(d) \/ CoverageFails(d) \/ IntegrityFails(d) \/ OwnershipFails(d)

Loaded(s) ==
    LoadTransfers(LoadMarketValues(LoadSeasonStats(LoadPlayers(LoadClubs(LoadCompetitions(Started(s)))))))

\* What the database refused is counted, also when it is nothing, and no reason
\* to fail.
ReportRejectedRows(l) ==
    [source |-> l.source, refused |-> l.refused,
     status |-> IF l.refused = 0 THEN "pass" ELSE "warn"]

\* What is recorded with the rows: the check of refused rows, and the load.
PersistChecks(l) ==
    [l.db EXCEPT !.checks = Append(@, ReportRejectedRows(l)),
                 !.loads = Append(@, l.source)]

\* FootyStats is loaded from the generation that is complete, which stays so.
Load(s) ==
    /\ ended.loads < MaxLoads
    /\ s = "footystats" => run.at = "complete"
    /\ \E l \in {Loaded(s)} :
       \E result \in {IF l.raised THEN "error"
                     ELSE IF ChecksFail(l.db) \/ SuiteFails(l.db) THEN "failed" ELSE "committed"} :
            /\ db' = IF result = "committed" THEN PersistChecks(l) ELSE db
            /\ ended' = [loads |-> ended.loads + 1, source |-> s, result |-> result]
    /\ UNCHANGED market /\ UNCHANGED fetchVars

-----------------------------------------------------------------------------

\* A new dataset is downloaded.
Download ==
    /\ \E m \in Markets \ {market} : market' = m
    /\ ended.loads < MaxLoads
    /\ ended' = [ended EXCEPT !.result = "none"]
    /\ UNCHANGED <<offered, appeared, snapshot, progress, roster, clubs, finished, run, runs,
                   moves, db>>

Init ==
    /\ FetchInit
    /\ market \in Markets /\ db \in Priors
    /\ ended = [loads |-> 0, source |-> "footystats", result |-> "none"]

Next ==
    \/ FetchNext /\ UNCHANGED loadVars
    \/ \E s \in Sources : Load(s)
    \/ Download

Spec == Init /\ [][Next]_vars

-----------------------------------------------------------------------------
(* Properties *)

\* A bridge row a load wrote names the player row made from the same provider
\* row, whatever the database refused between them (load_players, 490-503).
IdsFollowRows == IdsFollow(db)

\* What a load of the seasons keeps of a figure.
Expected(figures) ==
    CASE figures = "negative" -> "silent" [] figures = "contradicts" -> "blanked" [] OTHER -> figures

\* After a load of a complete generation every player that was fetched is
\* there, those listed after the file was begun too, with the season fetched
\* unless the database refused it or another line of the player lacks it
\* (footystats_snapshot.py 84-106: "expected, fetched, and then dropped").
FetchedIsLoaded ==
    ended.source = "footystats" /\ ended.result = "committed" =>
        \A c \in Comp : \A p \in progress[c] :
            \E b \in Of(db.bridge, "footystats") :
                /\ b.sid = p
                /\ \/ FiguresOf[p][c] = "beyond"
                   \/ \E d \in Comp : \E i \in DOMAIN LinesOf(d, p) :
                            c \notin DOMAIN LinesOf(d, p)[i].details
                   \/ \E f \in Of(db.stats, "footystats") :
                            f.player = b.player /\ f.comp = c /\ f.figures = Expected(FiguresOf[p][c])

\* The check that is recorded with a load counts every row that is missing,
\* though the batches around it were refused and halved many times over
\* (_report_rejected_rows: "say what the database refused").
RefusalsAreCounted ==
    ended.result = "committed" =>
        LET s == ended.source
            players == IF s = "transfermarkt" THEN {market.players[i].sid : i \in DOMAIN market.players}
                       ELSE UNION {IdsOf(RosterRead(Scope[i])) : i \in DOMAIN Scope}
            seasons == IF s = "transfermarkt" THEN {}
                       ELSE {x \in players \X Comp :
                                /\ x[1] \in IdsOf(RosterRead(x[2])) /\ x[2] \in DOMAIN DetailsRead[x[1]]
                                /\ \E b \in Of(db.bridge, s) : b.sid = x[1]}
        IN  /\ Last(db.checks).source = s
            /\ Last(db.checks).refused =
                    (Cardinality(players) - Cardinality(Of(db.bridge, s)))
                  + (Cardinality(seasons) - Cardinality(Of(db.stats, s)))

\* The players whose lines a working run has flushed to a file.
Flushed(c) ==
    IF run.at = "open" /\ run.comp = c THEN PlayersIn(SubSeq(run.lines, 1, run.flushed)) ELSE {}

\* A player recorded as done can be read back, in a file a killed run left too,
\* as long as nothing was appended to it (ingest_competition: the file is
\* flushed before the progress is written).
FinishedIsReadable ==
    \A c \in Comp : Legible(c) => progress[c] \subseteq Readable(c) \cup Flushed(c)

=============================================================================
