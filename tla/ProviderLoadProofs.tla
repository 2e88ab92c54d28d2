------------------------- MODULE ProviderLoadProofs -------------------------
(***************************************************************************)
(* What a load and the files it reads promise, for any competitions,       *)
(* rosters, datasets, batches and faults, and any number of loads: the ids *)
(* follow the rows the database kept, a player recorded as done can be     *)
(* read back, whatever was refused is counted, and what was fetched is     *)
(* loaded.                                                                 *)
(*                                                                         *)
(* The model folds and recurses as the loader does.  No prover induces     *)
(* over data, so a recursion is shown to have a solution, and what it      *)
(* computes to be right, by a least counterexample: the place where it     *)
(* first went wrong, or the shortest span that did.                        *)
(***************************************************************************)
EXTENDS ProviderLoad, SequenceTheorems, FiniteSetTheorems, WellFoundedInduction, TLAPS

Tables == {"players", "bridge", "stats", "values", "transfers",
           "clubs", "comps", "next", "checks", "loads"}
LoadFields == {"source", "db", "ids", "known", "refused", "raised"}

-----------------------------------------------------------------------------
(* The ids *)

\* A load on its way: its tables are there and the ids written so far follow.
InOrder(l) ==
    /\ DOMAIN l = LoadFields /\ DOMAIN l.db = Tables
    /\ IdsFollow(l.db)

\* A purge leaves the player rows that another source's bridges name.
LEMMA PurgeKeeps ==
    ASSUME NEW d, DOMAIN d = Tables, IdsFollow(d), NEW s
    PROVE  DOMAIN Purge(d, s) = Tables /\ IdsFollow(Purge(d, s))
<1>1. DOMAIN Purge(d, s) = Tables
  BY DEF Purge, Tables
<1>2. /\ Purge(d, s).bridge = {b \in d.bridge : b.source # s}
      /\ \A r \in d.players : (\E b \in d.bridge : b.source # s /\ b.player = r.id)
            => r \in Purge(d, s).players
  BY DEF Purge, Tables, Of
<1> QED
  BY <1>1, <1>2 DEF IdsFollow

LEMMA StartInOrder ==
    ASSUME DOMAIN db = Tables, IdsFollow(db), NEW s
    PROVE  InOrder(Started(s))
<1>1. DOMAIN Started(s) = LoadFields /\ Started(s).db = Purge(db, s)
  BY DEF Started, LoadFields
<1> QED
  BY <1>1, PurgeKeeps DEF InOrder

\* Steps that write other tables than the players and their bridge.
LEMMA OtherTables ==
    ASSUME NEW l, NEW m, InOrder(l), DOMAIN m = LoadFields, DOMAIN m.db = Tables,
           m.db.players = l.db.players, m.db.bridge = l.db.bridge
    PROVE  InOrder(m)
BY DEF InOrder, IdsFollow

LEMMA CompetitionsInOrder ==
    ASSUME NEW l, InOrder(l) PROVE InOrder(LoadCompetitions(l))
<1>1. /\ DOMAIN LoadCompetitions(l) = LoadFields /\ DOMAIN LoadCompetitions(l).db = Tables
      /\ LoadCompetitions(l).db.players = l.db.players
      /\ LoadCompetitions(l).db.bridge = l.db.bridge
  BY DEF LoadCompetitions, InOrder, LoadFields, Tables
<1> QED
  BY <1>1, OtherTables

LEMMA ClubsInOrder ==
    ASSUME NEW l, InOrder(l) PROVE InOrder(LoadClubs(l))
<1>1. /\ DOMAIN LoadClubs(l) = LoadFields /\ DOMAIN LoadClubs(l).db = Tables
      /\ LoadClubs(l).db.players = l.db.players /\ LoadClubs(l).db.bridge = l.db.bridge
  BY DEF LoadClubs, InOrder, LoadFields, Tables
<1> QED
  BY <1>1, OtherTables

LEMMA TalliedInOrder ==
    ASSUME NEW l, InOrder(l), NEW insert
    PROVE  InOrder(Tallied(l, insert)) /\ Tallied(l, insert).db = l.db
           /\ Tallied(l, insert).source = l.source
<1>1. /\ DOMAIN Tallied(l, insert) = LoadFields
      /\ Tallied(l, insert).db = l.db /\ Tallied(l, insert).source = l.source
  BY DEF Tallied, InOrder, LoadFields
<1> QED
  BY <1>1 DEF InOrder

\* The id matched with a provider row is the one returned for it.
LEMMA IdOfEachFollows ==
    ASSUME NEW ordered, NEW kept, NEW ids, NEW sid \in DOMAIN IdOfEach(ordered, kept, ids)
    PROVE  \E i \in DOMAIN kept :
              ordered[kept[i]].sid = sid /\ IdOfEach(ordered, kept, ids)[sid] = ids[i]
<1>1. \E i \in DOMAIN kept : ordered[kept[i]].sid = sid
  BY DEF IdOfEach
<1>2. IdOfEach(ordered, kept, ids)[sid]
        = ids[CHOOSE i \in DOMAIN kept : ordered[kept[i]].sid = sid]
  BY DEF IdOfEach
<1> QED
  BY <1>1, <1>2

LEMMA ReturnedInOrder ==
    ASSUME NEW l, InOrder(l), NEW ordered, NEW kept, NEW returned
    PROVE  InOrder(PlayersReturned(l, ordered, kept, returned))
<1> DEFINE m == PlayersReturned(l, ordered, kept, returned)
           ids == IdOfEach(ordered, kept, returned)
           rows == {[id |-> returned[i], who |-> Keyed(l.source, ordered[kept[i]].sid),
                     club |-> Resolvable(l, ordered[kept[i]].club)] : i \in DOMAIN kept}
           bridges == {[source |-> l.source, sid |-> sid, player |-> ids[sid],
                        method |-> "source_native_id"] : sid \in DOMAIN ids}
           inserted == [l EXCEPT !.db.next = @ + Len(returned), !.db.players = @ \cup rows]
<1>1. /\ DOMAIN m = LoadFields /\ DOMAIN m.db = Tables
      /\ m.db.players = l.db.players \cup rows /\ m.db.bridge = l.db.bridge \cup bridges
  <2>1. m = PlayersBridged(inserted, ids)
    BY DEF PlayersReturned
  <2> HIDE DEF ids, rows, m
  <2>2. /\ DOMAIN inserted = LoadFields /\ DOMAIN inserted.db = Tables
        /\ inserted.db.players = l.db.players \cup rows
        /\ inserted.db.bridge = l.db.bridge /\ inserted.source = l.source
    BY DEF InOrder, LoadFields, Tables
  <2>3. ASSUME NEW k, DOMAIN k = LoadFields, DOMAIN k.db = Tables
        PROVE  /\ DOMAIN PlayersBridged(k, ids) = LoadFields
               /\ DOMAIN PlayersBridged(k, ids).db = Tables
               /\ PlayersBridged(k, ids).db.players = k.db.players
               /\ PlayersBridged(k, ids).db.bridge = k.db.bridge \cup
                     {[source |-> k.source, sid |-> sid, player |-> ids[sid],
                       method |-> "source_native_id"] : sid \in DOMAIN ids}
    BY <2>3 DEF PlayersBridged, LoadFields, Tables
  <2> HIDE DEF inserted
  <2> QED
    BY <2>1, <2>2, <2>3
<1>2. ASSUME NEW b \in bridges PROVE \E r \in rows : r.id = b.player /\ r.who = Keyed(b.source, b.sid)
  <2>1. PICK sid \in DOMAIN ids : /\ b.source = l.source /\ b.sid = sid /\ b.player = ids[sid]
    OBVIOUS
  <2>2. PICK i \in DOMAIN kept : ordered[kept[i]].sid = sid /\ ids[sid] = returned[i]
    BY IdOfEachFollows
  <2> DEFINE r == [id |-> returned[i], who |-> Keyed(l.source, ordered[kept[i]].sid),
                   club |-> Resolvable(l, ordered[kept[i]].club)]
  <2>3. r \in rows /\ r.id = b.player /\ r.who = Keyed(b.source, b.sid)
    BY <2>1, <2>2
  <2> QED
    BY <2>3
<1>3. IdsFollow(m.db)
  <2> HIDE DEF m, rows, bridges
  <2> QED
    BY <1>1, <1>2 DEF IdsFollow, InOrder
<1> QED
  BY <1>1, <1>3 DEF InOrder

LEMMA PlayersInOrder ==
    ASSUME NEW l, InOrder(l) PROVE InOrder(LoadPlayers(l))
<1> DEFINE raised == l.raised \/ (~Performance(l) /\
                Unbuildable({market.players[i].worth : i \in DOMAIN market.players}))
           m == [l EXCEPT !.raised = raised]
           ordered == Identities(l)
           insert == InsertIsolating([i \in DOMAIN ordered |-> PlayerVerdict(ordered[i])])
<1> HIDE DEF raised
<1>1. InOrder(m)
  BY DEF InOrder, LoadFields
<1>2. InOrder(Tallied(m, insert))
  BY <1>1, TalliedInOrder
<1>3. LoadPlayers(l) = PlayersReturned(Tallied(m, insert), ordered, insert.kept,
                            [i \in DOMAIN insert.kept |-> m.db.next + i - 1])
  BY DEF LoadPlayers, PlayersListed, PlayersInserted, raised
<1> QED
  BY <1>2, <1>3, ReturnedInOrder

LEMMA SeasonsInOrder ==
    ASSUME NEW l, InOrder(l) PROVE InOrder(LoadSeasonStats(l))
<1>1. ASSUME NEW rows, NEW insert PROVE InOrder(SeasonsInserted(l, rows, insert))
  <2> DEFINE t == Tallied(l, insert)
             m == SeasonsInserted(l, rows, insert)
  <2>1. InOrder(t)
    BY TalliedInOrder
  <2>2. /\ DOMAIN m = LoadFields /\ DOMAIN m.db = Tables
        /\ m.db.players = t.db.players /\ m.db.bridge = t.db.bridge
    <3> HIDE DEF t
    <3>1. m = [t EXCEPT !.db.stats = @ \cup {rows[insert.kept[i]] : i \in DOMAIN insert.kept}]
      BY DEF SeasonsInserted, t
    <3> QED
      BY <2>1, <3>1 DEF InOrder, LoadFields, Tables
  <2> QED
    BY <2>1, <2>2, OtherTables
<1>2. CASE Performance(l)
  <2> DEFINE rows == SeasonRows(l, FlattenSeq([i \in DOMAIN Scope |->
                         GetCompetitionStats(Roster(Scope[i]), DetailsRead, Scope[i])]))
             insert == InsertIsolating([i \in DOMAIN rows |-> StatsVerdict(rows[i])])
  <2>1. LoadSeasonStats(l) = SeasonsInserted(l, rows, insert)
    BY <1>2 DEF LoadSeasonStats, SeasonsListed
  <2> QED
    BY <1>1, <2>1
<1> QED
  BY <1>2 DEF LoadSeasonStats

LEMMA ValuesInOrder ==
    ASSUME NEW l, InOrder(l) PROVE InOrder(LoadMarketValues(l))
<1>1. /\ DOMAIN LoadMarketValues(l) = LoadFields /\ DOMAIN LoadMarketValues(l).db = Tables
      /\ LoadMarketValues(l).db.players = l.db.players
      /\ LoadMarketValues(l).db.bridge = l.db.bridge
  BY DEF LoadMarketValues, InOrder, LoadFields, Tables
<1> QED
  BY <1>1, OtherTables

LEMMA TransfersInOrder ==
    ASSUME NEW l, InOrder(l) PROVE InOrder(LoadTransfers(l))
<1>1. /\ DOMAIN LoadTransfers(l) = LoadFields /\ DOMAIN LoadTransfers(l).db = Tables
      /\ LoadTransfers(l).db.players = l.db.players
      /\ LoadTransfers(l).db.bridge = l.db.bridge
  BY DEF LoadTransfers, InOrder, LoadFields, Tables
<1> QED
  BY <1>1, OtherTables

LEMMA LoadedInOrder ==
    ASSUME DOMAIN db = Tables, IdsFollow(db), NEW s PROVE InOrder(Loaded(s))
BY StartInOrder, CompetitionsInOrder, ClubsInOrder, PlayersInOrder, SeasonsInOrder,
   ValuesInOrder, TransfersInOrder DEF Loaded

\* A bridge row a load wrote names the player row made from the same provider row
\* (load_providers.py load_players), whatever was refused between them and however
\* the batches were halved: the rows a refused one leaves behind are counted with
\* the ids returned for them.  So it stays after any number of reloads.
THEOREM IdsAlwaysFollow == Spec => []IdsFollowRows
<1> DEFINE Inv == DOMAIN db = Tables /\ IdsFollow(db)
<1>1. Init => Inv
  BY PriorAssumption DEF Init, Tables
<1>2. Inv /\ [Next]_vars => Inv'
  <2> SUFFICES ASSUME Inv, [Next]_vars PROVE Inv'
    OBVIOUS
  <2>1. CASE \E s \in Sources : Load(s)
    <3>1. PICK s \in Sources : Load(s)
      BY <2>1
    <3>2. db' = db \/ db' = PersistChecks(Loaded(s))
      BY <3>1 DEF Load
    <3>3. InOrder(Loaded(s))
      BY LoadedInOrder
    <3>4. ASSUME NEW l, InOrder(l)
          PROVE  DOMAIN PersistChecks(l) = Tables /\ IdsFollow(PersistChecks(l))
      BY <3>4 DEF PersistChecks, InOrder, IdsFollow, Tables
    <3>5. DOMAIN PersistChecks(Loaded(s)) = Tables /\ IdsFollow(PersistChecks(Loaded(s)))
      BY <3>3, <3>4
    <3>6. CASE db' = PersistChecks(Loaded(s))
      BY <3>5, <3>6 DEF IdsFollow
    <3> QED
      BY <3>2, <3>6 DEF IdsFollow
  <2>2. CASE UNCHANGED db
    BY <2>2 DEF IdsFollow
  <2> QED
    BY <2>1, <2>2 DEF Next, Download, loadVars, vars
<1>3. Inv => IdsFollowRows
  BY DEF IdsFollowRows
<1> QED
  BY <1>1, <1>2, <1>3, PTL DEF Spec

-----------------------------------------------------------------------------
(* Sequences of whatever they hold *)

IsSeq(s) == s \in Seq({s[i] : i \in DOMAIN s})

LEMMA Lengths ==
    ASSUME NEW s, IsSeq(s)
    PROVE  Len(s) \in Nat /\ DOMAIN s = 1 .. Len(s)
BY LenProperties DEF IsSeq

LEMMA SeqIsSeq ==
    ASSUME NEW S, NEW s \in Seq(S)
    PROVE  IsSeq(s)
<1>1. s \in [1 .. Len(s) -> S] /\ Len(s) \in Nat /\ DOMAIN s = 1 .. Len(s)
  BY LenProperties
<1>2. s \in [1 .. Len(s) -> {s[i] : i \in DOMAIN s}]
  BY <1>1
<1> QED
  BY <1>1, <1>2, SeqDef DEF IsSeq

LEMMA Appended ==
    ASSUME NEW s, IsSeq(s), NEW e
    PROVE  /\ IsSeq(Append(s, e))
           /\ Len(Append(s, e)) = Len(s) + 1 /\ DOMAIN Append(s, e) = 1 .. Len(s) + 1
           /\ \A i \in 1 .. Len(s) : Append(s, e)[i] = s[i]
           /\ Append(s, e)[Len(s) + 1] = e
<1> DEFINE S == {s[i] : i \in DOMAIN s} \cup {e}
<1>1. s \in [1 .. Len(s) -> S] /\ Len(s) \in Nat
  BY LenProperties DEF IsSeq
<1>2. s \in Seq(S) /\ e \in S
  BY <1>1, SeqDef
<1> HIDE DEF S
<1>3. Append(s, e) \in Seq(S)
  BY <1>2, AppendProperties
<1>4. IsSeq(Append(s, e))
  BY <1>3, SeqIsSeq
<1>5. /\ Len(Append(s, e)) = Len(s) + 1
      /\ \A i \in 1 .. Len(s) : Append(s, e)[i] = s[i]
      /\ Append(s, e)[Len(s) + 1] = e
  BY <1>2, AppendProperties
<1> QED
  BY <1>4, <1>5, Lengths

LEMMA Begun ==
    ASSUME NEW s, IsSeq(s), NEW n \in 0 .. Len(s)
    PROVE  /\ IsSeq(SubSeq(s, 1, n)) /\ DOMAIN SubSeq(s, 1, n) = 1 .. n
           /\ \A i \in 1 .. n : SubSeq(s, 1, n)[i] = s[i]
<1> DEFINE S == {s[i] : i \in DOMAIN s}
<1>1. s \in Seq(S) /\ Len(s) \in Nat
  BY LenProperties DEF IsSeq
<1>2. \A i \in 1 .. n : s[i] \in S
  BY <1>1, LenProperties
<1> HIDE DEF S
<1>3. SubSeq(s, 1, n) = [i \in 1 .. n |-> s[i]]
  BY <1>1
<1>4. SubSeq(s, 1, n) \in Seq(S)
  BY <1>1, <1>2, <1>3, SeqDef
<1> QED
  BY <1>3, <1>4, SeqIsSeq

-----------------------------------------------------------------------------
(* The files *)

\* The players that some line of a file is about.
About(file) == UNION {PlayersIn(file[i].lines) : i \in DOMAIN file}

LEMMA ReadableIs ==
    ASSUME NEW c, Legible(c) PROVE Readable(c) = About(snapshot[c])
BY DEF Readable, About

\* What a line adds to those before it.
LEMMA LineAppended ==
    ASSUME NEW lines, IsSeq(lines), NEW p
    PROVE  PlayersIn(Append(lines, PlayerLine(p))) = PlayersIn(lines) \cup {p}
<1> DEFINE more == Append(lines, PlayerLine(p))
<1>1. /\ DOMAIN lines = 1 .. Len(lines) /\ Len(lines) \in Nat
      /\ DOMAIN more = 1 .. Len(lines) + 1
      /\ \A i \in 1 .. Len(lines) : more[i] = lines[i]
      /\ more[Len(lines) + 1] = PlayerLine(p)
  BY Appended, Lengths
<1>2. PlayerLine(p).kind = "player" /\ PlayerLine(p).player = p
  BY DEF PlayerLine
<1> HIDE DEF more
<1>3. DOMAIN more = DOMAIN lines \cup {Len(lines) + 1}
  BY <1>1
<1>4. \A i \in DOMAIN lines : more[i] = lines[i]
  BY <1>1
<1>5. PlayersIn(more) = PlayersIn(lines) \cup {p}
  BY <1>1, <1>2, <1>3, <1>4 DEF PlayersIn
<1> QED
  BY <1>5 DEF more

\* Longer beginnings are about more players, and the longest about all.
LEMMA LinesFlushed ==
    ASSUME NEW lines, IsSeq(lines), NEW n \in 0 .. Len(lines), NEW m \in 0 .. n
    PROVE  /\ PlayersIn(SubSeq(lines, 1, m)) \subseteq PlayersIn(SubSeq(lines, 1, n))
           /\ n = Len(lines) => PlayersIn(SubSeq(lines, 1, n)) = PlayersIn(lines)
<1>1. Len(lines) \in Nat /\ DOMAIN lines = 1 .. Len(lines)
  BY Lengths
<1>2. m \in 0 .. Len(lines)
  BY <1>1
<1>3. /\ DOMAIN SubSeq(lines, 1, n) = 1 .. n /\ \A i \in 1 .. n : SubSeq(lines, 1, n)[i] = lines[i]
      /\ DOMAIN SubSeq(lines, 1, m) = 1 .. m /\ \A i \in 1 .. m : SubSeq(lines, 1, m)[i] = lines[i]
  BY <1>2, Begun
<1>4. 1 .. m \subseteq 1 .. n
  BY <1>1
<1> QED
  BY <1>1, <1>3, <1>4 DEF PlayersIn

\* A beginning stays what it is when a line is added.
LEMMA FlushedStays ==
    ASSUME NEW lines, IsSeq(lines), NEW n \in 0 .. Len(lines), NEW e
    PROVE  PlayersIn(SubSeq(Append(lines, e), 1, n)) = PlayersIn(SubSeq(lines, 1, n))
<1>1. Len(lines) \in Nat /\ n \in 0 .. Len(lines) + 1 /\ 1 .. n \subseteq 1 .. Len(lines)
  BY Lengths
<1>2. /\ IsSeq(Append(lines, e)) /\ Len(Append(lines, e)) = Len(lines) + 1
      /\ \A i \in 1 .. Len(lines) : Append(lines, e)[i] = lines[i]
  BY Appended
<1>3. /\ DOMAIN SubSeq(lines, 1, n) = 1 .. n /\ \A i \in 1 .. n : SubSeq(lines, 1, n)[i] = lines[i]
      /\ DOMAIN SubSeq(Append(lines, e), 1, n) = 1 .. n
      /\ \A i \in 1 .. n : SubSeq(Append(lines, e), 1, n)[i] = Append(lines, e)[i]
  BY <1>1, <1>2, Begun
<1> QED
  BY <1>1, <1>2, <1>3 DEF PlayersIn

\* A member added to a file: what it is about, and that the file was whole if it
\* can still be read.
LEMMA MemberAdded ==
    ASSUME NEW file, IsSeq(file), NEW closed, NEW lines
    PROVE  LET more == Append(file, Member(closed, lines))
           IN  /\ IsSeq(more)
               /\ About(more) = About(file) \cup PlayersIn(lines)
               /\ (\A i \in DOMAIN more : ~more[i].closed => i = Len(more))
                    => \A i \in DOMAIN file : file[i].closed
<1> DEFINE more == Append(file, Member(closed, lines))
<1>1. /\ DOMAIN file = 1 .. Len(file) /\ Len(file) \in Nat
      /\ IsSeq(more) /\ Len(more) = Len(file) + 1 /\ DOMAIN more = 1 .. Len(file) + 1
      /\ \A i \in 1 .. Len(file) : more[i] = file[i]
      /\ more[Len(file) + 1] = Member(closed, lines)
  BY Appended, Lengths
<1>2. Member(closed, lines).lines = lines
  BY DEF Member
<1> HIDE DEF more
<1>3. DOMAIN more = DOMAIN file \cup {Len(file) + 1}
  BY <1>1
<1>4. \A i \in DOMAIN file : more[i] = file[i]
  BY <1>1
<1>5. About(more) = About(file) \cup PlayersIn(lines)
  BY <1>1, <1>2, <1>3, <1>4 DEF About
<1>6. ASSUME \A i \in DOMAIN more : ~more[i].closed => i = Len(more), NEW i \in DOMAIN file
      PROVE  file[i].closed
  <2>1. i # Len(more) /\ i \in DOMAIN more /\ more[i] = file[i]
    BY <1>1, <1>3, <1>4
  <2> QED
    BY <1>6, <2>1
<1> QED
  BY <1>1, <1>5, <1>6 DEF more

-----------------------------------------------------------------------------
(* A run and the files *)

OpenFields == {"at", "comp", "todo", "left", "done", "lines", "flushed", "refused"}

Working ==
    /\ run.at = "between" => run.todo \in Seq(Comp)
    /\ run.at = "open" =>
         /\ DOMAIN run = OpenFields
         /\ run.comp \in Comp /\ run.todo \in Seq(Comp)
         /\ IsSeq(run.lines) /\ run.flushed \in 0 .. Len(run.lines)

Files == DOMAIN snapshot = Comp /\ DOMAIN progress = Comp /\ \A c \in Comp : IsSeq(snapshot[c])

\* What the open run will record as done is in its file or among its lines.
DoneIsWritten ==
    run.at = "open" /\ Legible(run.comp) =>
        run.done \subseteq About(snapshot[run.comp]) \cup PlayersIn(run.lines)

RecordedIsWritten ==
    \A c \in Comp : Legible(c) => progress[c] \subseteq About(snapshot[c]) \cup Flushed(c)

FilesInv == Working /\ Files /\ DoneIsWritten /\ RecordedIsWritten

LEMMA OpenPreserves ==
    ASSUME FilesInv, Visit
    PROVE  FilesInv'
<1> DEFINE c == Head(run.todo)
<1>1. /\ run.at = "between" /\ run.todo \in Seq(Comp) /\ run.todo # <<>>
      /\ UNCHANGED <<snapshot, progress>>
  BY DEF Visit, FilesInv, Working
<1>2. c \in Comp /\ Tail(run.todo) \in Seq(Comp)
  BY <1>1, HeadTailProperties
<1>3. \A d \in Comp : Flushed(d) = {}
  BY <1>1 DEF Flushed
<1>4. \A d : Legible(d)' = Legible(d)
  BY <1>1 DEF Legible, Torn
<1>5. Files'
  BY <1>1 DEF FilesInv, Files
<1>6. CASE \E rows, listed : Open(c, rows, listed)
  <2>1. PICK rows, listed : Open(c, rows, listed)
    BY <1>6
  <2> DEFINE header == IF snapshot[c] = <<>> THEN <<HeaderLine(rows)>> ELSE <<>>
  <2>2. /\ DOMAIN run' = OpenFields
        /\ run'.at = "open" /\ run'.comp = c /\ run'.todo = Tail(run.todo)
        /\ run'.done = ReadProgress(c) /\ run'.lines = header /\ run'.flushed = 0
    BY <2>1 DEF Open, OpenFields
  <2>3. header \in Seq({HeaderLine(rows)})
    <3>1. <<HeaderLine(rows)>> \in Seq({HeaderLine(rows)})
      OBVIOUS
    <3>2. <<>> \in Seq({HeaderLine(rows)})
      BY EmptySeq
    <3> QED
      BY <3>1, <3>2
  <2>4. IsSeq(header) /\ Len(header) \in Nat
    BY <2>3, SeqIsSeq, Lengths
  <2> HIDE DEF header
  <2>5. Working'
    BY <1>2, <2>2, <2>4 DEF Working
  <2>6. ReadProgress(c) \subseteq progress[c]
    BY DEF ReadProgress
  <2>7. Legible(c) => progress[c] \subseteq About(snapshot[c])
    BY <1>2, <1>3 DEF FilesInv, RecordedIsWritten
  <2>8. DoneIsWritten'
    BY <1>1, <1>4, <2>2, <2>6, <2>7 DEF DoneIsWritten, About
  <2>9. RecordedIsWritten'
    BY <1>1, <1>3, <1>4 DEF RecordedIsWritten, FilesInv, About
  <2> QED
    BY <1>5, <2>5, <2>8, <2>9 DEF FilesInv
<1>7. CASE run' = Between(Tail(run.todo)) \/ run' = [at |-> "failed"]
  <2>1. run'.at # "open" /\ (run'.at = "between" => run'.todo \in Seq(Comp))
    BY <1>2, <1>7 DEF Between
  <2>2. Working' /\ DoneIsWritten'
    BY <2>1 DEF Working, DoneIsWritten
  <2>3. RecordedIsWritten'
    BY <1>1, <1>3, <1>4 DEF RecordedIsWritten, FilesInv, About
  <2> QED
    BY <1>5, <2>2, <2>3 DEF FilesInv
<1> QED
  BY <1>6, <1>7 DEF Visit

LEMMA FetchPreserves ==
    ASSUME FilesInv, FetchPlayer
    PROVE  FilesInv'
<1>0. PICK c : c = run.comp
  OBVIOUS
<1> DEFINE i == Head(run.left)
           p == roster[run.comp][i].id
           lines == Append(run.lines, PlayerLine(p))
           done == run.done \cup {p}
<1>1. /\ run.at = "open" /\ DOMAIN run = OpenFields /\ c \in Comp /\ c = run.comp
      /\ run.todo \in Seq(Comp) /\ IsSeq(run.lines) /\ run.flushed \in 0 .. Len(run.lines)
      /\ UNCHANGED snapshot
  BY <1>0 DEF FetchPlayer, FilesInv, Working
<1>2. \A d : Legible(d)' = Legible(d)
  BY <1>1 DEF Legible, Torn
<1>3. /\ IsSeq(lines) /\ Len(lines) = Len(run.lines) + 1 /\ Len(run.lines) \in Nat
      /\ PlayersIn(lines) = PlayersIn(run.lines) \cup {p}
      /\ PlayersIn(SubSeq(lines, 1, run.flushed)) = PlayersIn(SubSeq(run.lines, 1, run.flushed))
      /\ PlayersIn(SubSeq(lines, 1, Len(lines))) = PlayersIn(lines)
  <2>1. IsSeq(lines) /\ Len(lines) = Len(run.lines) + 1 /\ Len(run.lines) \in Nat
    BY <1>1, Appended, Lengths
  <2>2. PlayersIn(lines) = PlayersIn(run.lines) \cup {p}
    BY <1>1, LineAppended
  <2>3. PlayersIn(SubSeq(lines, 1, run.flushed)) = PlayersIn(SubSeq(run.lines, 1, run.flushed))
    BY <1>1, FlushedStays
  <2> HIDE DEF lines
  <2>4. Len(lines) \in 0 .. Len(lines) /\ 0 \in 0 .. Len(lines)
    BY <2>1
  <2>5. PlayersIn(SubSeq(lines, 1, Len(lines))) = PlayersIn(lines)
    BY <2>1, <2>4, LinesFlushed
  <2> QED
    BY <2>1, <2>2, <2>3, <2>5
<1>4. Legible(c) => done \subseteq About(snapshot[c]) \cup PlayersIn(lines)
  BY <1>1, <1>3 DEF FilesInv, DoneIsWritten
<1> HIDE DEF lines, done
<1>5. CASE /\ run' = [run EXCEPT !.left = Tail(@), !.done = done, !.lines = lines,
                                 !.flushed = Len(lines)]
           /\ progress' = [progress EXCEPT ![c] = done]
  <2>1. /\ DOMAIN run' = OpenFields /\ run'.at = "open" /\ run'.comp = c
        /\ run'.todo = run.todo /\ run'.done = done /\ run'.lines = lines
        /\ run'.flushed = Len(lines)
    BY <1>1, <1>5 DEF OpenFields
  <2>2. Working'
    BY <1>1, <1>3, <2>1 DEF Working
  <2>3. Files'
    BY <1>1, <1>5 DEF Files, FilesInv
  <2>4. DoneIsWritten'
    BY <1>1, <1>2, <1>4, <2>1 DEF DoneIsWritten, About
  <2>5. Flushed(c)' = PlayersIn(lines) /\ \A d \in Comp \ {c} : Flushed(d)' = {} /\ Flushed(d) = {}
    BY <1>1, <1>3, <2>1 DEF Flushed
  <2>6. progress'[c] = done /\ \A d \in Comp \ {c} : progress'[d] = progress[d]
    BY <1>1, <1>5 DEF Files, FilesInv
  <2>7. RecordedIsWritten'
    BY <1>1, <1>2, <1>4, <2>5, <2>6 DEF RecordedIsWritten, FilesInv, About
  <2> QED
    BY <2>2, <2>3, <2>4, <2>7 DEF FilesInv
<1>6. CASE /\ run' = [run EXCEPT !.left = Tail(@), !.done = done, !.lines = lines]
           /\ progress' = progress
  <2>1. /\ DOMAIN run' = OpenFields /\ run'.at = "open" /\ run'.comp = c
        /\ run'.todo = run.todo /\ run'.done = done /\ run'.lines = lines
        /\ run'.flushed = run.flushed
    BY <1>1, <1>6 DEF OpenFields
  <2>2. Working'
    BY <1>1, <1>3, <2>1 DEF Working
  <2>3. Files'
    BY <1>1, <1>6 DEF Files, FilesInv
  <2>4. DoneIsWritten'
    BY <1>1, <1>2, <1>4, <2>1 DEF DoneIsWritten, About
  <2>5. \A d \in Comp : Flushed(d)' = Flushed(d)
    BY <1>1, <1>3, <2>1 DEF Flushed
  <2>6. RecordedIsWritten'
    BY <1>1, <1>2, <1>6, <2>5 DEF RecordedIsWritten, FilesInv, About
  <2> QED
    BY <2>2, <2>3, <2>4, <2>6 DEF FilesInv
<1>7. CASE /\ \/ run' = [run EXCEPT !.left = Tail(@)]
              \/ run' = [run EXCEPT !.refused = TRUE]
           /\ progress' = progress
  <2>1. /\ DOMAIN run' = OpenFields /\ run'.at = "open" /\ run'.comp = c
        /\ run'.todo = run.todo /\ run'.done = run.done /\ run'.lines = run.lines
        /\ run'.flushed = run.flushed
    BY <1>1, <1>7 DEF OpenFields
  <2>2. Working'
    BY <1>1, <2>1 DEF Working
  <2>3. Files'
    BY <1>1, <1>7 DEF Files, FilesInv
  <2>4. DoneIsWritten'
    BY <1>1, <1>2, <2>1 DEF FilesInv, DoneIsWritten, About
  <2>5. \A d \in Comp : Flushed(d)' = Flushed(d)
    BY <1>1, <2>1 DEF Flushed
  <2>6. RecordedIsWritten'
    BY <1>1, <1>2, <1>7, <2>5 DEF RecordedIsWritten, FilesInv, About
  <2> QED
    BY <2>2, <2>3, <2>4, <2>6 DEF FilesInv
<1> QED
  BY <1>0, <1>5, <1>6, <1>7 DEF FetchPlayer, lines, done

\* A file to which a member is added.
LEMMA EndPreserves ==
    ASSUME FilesInv, run.at = "open", NEW closed, NEW lines,
           snapshot' = [snapshot EXCEPT ![run.comp] = Append(@, Member(closed, lines))],
           run'.at # "open", run'.at = "between" => run'.todo \in Seq(Comp),
           DOMAIN progress' = Comp,
           \A d \in Comp \ {run.comp} : progress'[d] = progress[d],
           Legible(run.comp) =>
               progress'[run.comp] \subseteq About(snapshot[run.comp]) \cup PlayersIn(lines)
    PROVE  FilesInv'
<1>0. PICK c : c = run.comp
  OBVIOUS
<1>m. PICK more : more = Append(snapshot[c], Member(closed, lines))
  OBVIOUS
<1>1. c \in Comp /\ IsSeq(snapshot[c]) /\ DOMAIN snapshot = Comp
  BY <1>0 DEF FilesInv, Working, Files
<1>2. /\ DOMAIN snapshot' = Comp /\ snapshot'[c] = more
      /\ \A d \in Comp \ {c} : snapshot'[d] = snapshot[d]
  BY <1>0, <1>m, <1>1
<1>3. /\ IsSeq(more) /\ About(more) = About(snapshot[c]) \cup PlayersIn(lines)
      /\ (\A i \in DOMAIN more : ~more[i].closed => i = Len(more))
            => \A i \in DOMAIN snapshot[c] : snapshot[c][i].closed
  BY <1>m, <1>1, MemberAdded
<1>4. Files'
  BY <1>1, <1>2, <1>3 DEF Files, FilesInv
<1>5. Working' /\ DoneIsWritten'
  BY DEF Working, DoneIsWritten
<1>6. \A d \in Comp : Flushed(d)' = {} /\ (d # c => Flushed(d) = {})
  BY <1>0 DEF Flushed
<1>7. Legible(c)' => Legible(c)
  BY <1>2, <1>3 DEF Legible, Torn
<1>8. \A d \in Comp \ {c} : Legible(d)' = Legible(d) /\ About(snapshot[d])' = About(snapshot[d])
  BY <1>2 DEF Legible, Torn, About
<1>9. About(snapshot'[c]) = About(snapshot[c]) \cup PlayersIn(lines)
  BY <1>2, <1>3
<1>10. RecordedIsWritten'
  <2> SUFFICES ASSUME NEW d \in Comp, Legible(d)'
               PROVE  progress'[d] \subseteq About(snapshot'[d])
    BY DEF RecordedIsWritten
  <2>1. CASE d = c
    BY <1>0, <1>7, <1>9, <2>1
  <2>2. CASE d # c
    BY <1>0, <1>6, <1>8, <2>2 DEF RecordedIsWritten, FilesInv
  <2> QED
    BY <2>1, <2>2
<1> QED
  BY <1>4, <1>5, <1>10 DEF FilesInv

\* A file closed holds all that is recorded of it.
LEMMA ClosePreserves ==
    ASSUME FilesInv, Close
    PROVE  FilesInv'
<1> USE DEF FilesInv
<1>1. /\ run.at = "open" /\ run.comp \in Comp /\ run.todo \in Seq(Comp)
      /\ DOMAIN progress = Comp
  BY DEF Close, Working, Files
<1>2. /\ snapshot' = [snapshot EXCEPT ![run.comp] = Append(@, Member(TRUE, run.lines))]
      /\ progress' = [progress EXCEPT ![run.comp] = run.done]
      /\ \/ run' = [at |-> "failed"] \/ run' = Between(run.todo) \/ run' = Between(<<>>)
  BY DEF Close
<1>3. run'.at # "open" /\ (run'.at = "between" => run'.todo \in Seq(Comp))
  <2>1. <<>> \in Seq(Comp)
    BY EmptySeq
  <2>2. ASSUME NEW todo \in Seq(Comp), run' = Between(todo)
        PROVE  run'.at = "between" /\ run'.todo \in Seq(Comp)
    BY <2>2 DEF Between
  <2>3. CASE run' = [at |-> "failed"]
    BY <2>3
  <2> QED
    BY <1>1, <1>2, <2>1, <2>2, <2>3
<1>4. /\ DOMAIN progress' = Comp /\ progress'[run.comp] = run.done
      /\ \A d \in Comp \ {run.comp} : progress'[d] = progress[d]
  BY <1>1, <1>2
<1>5. Legible(run.comp) => run.done \subseteq About(snapshot[run.comp]) \cup PlayersIn(run.lines)
  BY <1>1 DEF DoneIsWritten
<1> QED
  BY <1>1, <1>2, <1>3, <1>4, <1>5, EndPreserves

\* A file torn holds what had been flushed.
LEMMA KillPreserves ==
    ASSUME FilesInv, Kill
    PROVE  FilesInv'
<1> USE DEF FilesInv
<1>1. /\ run.at = "open" /\ run.comp \in Comp /\ DOMAIN progress = Comp
      /\ IsSeq(run.lines) /\ run.flushed \in 0 .. Len(run.lines)
  BY DEF Kill, Working, Files
<1>2. PICK n \in run.flushed .. Len(run.lines) :
        snapshot' = [snapshot EXCEPT ![run.comp] =
                        Append(@, Member(FALSE, SubSeq(run.lines, 1, n)))]
  BY DEF Kill
<1>3. run'.at = "idle" /\ progress' = progress
  BY DEF Kill, Idle
<1>4. n \in 0 .. Len(run.lines) /\ run.flushed \in 0 .. n
  BY <1>1, Lengths
<1>5. PlayersIn(SubSeq(run.lines, 1, run.flushed)) \subseteq PlayersIn(SubSeq(run.lines, 1, n))
  BY <1>1, <1>4, LinesFlushed
<1>6. Flushed(run.comp) = PlayersIn(SubSeq(run.lines, 1, run.flushed))
  BY <1>1 DEF Flushed
<1>7. Legible(run.comp) =>
          progress[run.comp] \subseteq About(snapshot[run.comp]) \cup PlayersIn(SubSeq(run.lines, 1, n))
  BY <1>1, <1>5, <1>6 DEF RecordedIsWritten
<1> QED
  BY <1>1, <1>2, <1>3, <1>7, EndPreserves

\* Steps that touch neither the files nor an open run.
LEMMA ElsewherePreserves ==
    ASSUME FilesInv, UNCHANGED <<snapshot, progress>>,
           \/ UNCHANGED run
           \/ run.at # "open" /\ run'.at # "open" /\ (run'.at = "between" => run'.todo \in Seq(Comp))
    PROVE  FilesInv'
<1>1. \A d : Legible(d)' = Legible(d)
  BY DEF Legible, Torn
<1>2. \A d : Flushed(d)' = Flushed(d)
  BY DEF Flushed
<1>3. Working'
  BY DEF Working, FilesInv
<1>4. Files'
  BY DEF Files, FilesInv
<1>5. DoneIsWritten'
  BY <1>1 DEF DoneIsWritten, FilesInv, About
<1>6. RecordedIsWritten'
  BY <1>1, <1>2 DEF RecordedIsWritten, FilesInv, About
<1> QED
  BY <1>3, <1>4, <1>5, <1>6 DEF FilesInv

\* Every step.
LEMMA NextPreserves ==
    ASSUME FilesInv, [Next]_vars
    PROVE  FilesInv'
<1>1. CASE StartRun
  <2>1. /\ UNCHANGED <<snapshot, progress>> /\ run.at = "idle"
        /\ run'.at = "between" /\ run'.todo \in Seq(Comp)
    BY <1>1, FetchAssumption DEF StartRun, Idle, Between
  <2> QED
    BY <2>1, ElsewherePreserves
<1>2. CASE Visit
  BY <1>2, OpenPreserves
<1>3. CASE FetchPlayer
  BY <1>3, FetchPreserves
<1>4. CASE Close
  BY <1>4, ClosePreserves
<1>5. CASE Kill
  BY <1>5, KillPreserves
<1>6. CASE EndRun \/ StopBetween
  <2>1. /\ UNCHANGED <<snapshot, progress>> /\ run.at = "between"
        /\ run'.at # "open" /\ run'.at # "between"
    BY <1>6 DEF EndRun, StopBetween, Idle
  <2> QED
    BY <2>1, ElsewherePreserves
<1>7. CASE UNCHANGED <<snapshot, progress, run>>
  BY <1>7, ElsewherePreserves
<1>8. (\E c \in Comp : Move(c)) \/ (\E s \in Sources : Load(s)) \/ Download \/ UNCHANGED vars
          => UNCHANGED <<snapshot, progress, run>>
  BY DEF Move, Load, Download, fetchVars, vars
<1> QED
  BY <1>1, <1>2, <1>3, <1>4, <1>5, <1>6, <1>7, <1>8 DEF Next, FetchNext

\* Before the first run there are no files.
LEMMA FilesInit ==
    ASSUME Init PROVE FilesInv
<1>1. /\ snapshot = [c \in Comp |-> <<>>] /\ progress = [c \in Comp |-> {}]
      /\ run.at = "idle"
  BY DEF Init, FetchInit, Idle
<1>2. IsSeq(<<>>)
  BY EmptySeq, SeqIsSeq
<1> QED
  BY <1>1, <1>2 DEF FilesInv, Working, Files, DoneIsWritten, RecordedIsWritten

\* A player recorded as done can be read back (ingest.py ingest_competition): the
\* progress is never ahead of what has reached the file, though the two are written
\* one after the other and a run is killed between any two steps.  A file that a
\* killed run tore stays in that order until something is appended to it.
THEOREM FinishedStaysReadable == Spec => []FinishedIsReadable
<1>1. Init => FilesInv
  BY FilesInit
<1>2. FilesInv /\ [Next]_vars => FilesInv'
  BY NextPreserves
<1>3. FilesInv => FinishedIsReadable
  BY ReadableIs DEF FilesInv, RecordedIsWritten, FinishedIsReadable
<1> QED
  BY <1>1, <1>2, <1>3, PTL DEF Spec

-----------------------------------------------------------------------------
(* Recursion and folds, by a least counterexample *)

\* Numbers, and so a counterexample, have a least one.
LEMMA Least ==
    ASSUME NEW S \in SUBSET Nat, S # {}
    PROVE  \E m \in S : \A k \in S : m <= k
<1>1. PICK m \in S : \A k \in S : ~(<<k, m>> \in OpToRel(<, Nat))
  <2>1. \E m \in S : \A k \in S : ~(<<k, m>> \in OpToRel(<, Nat))
    BY ONLY S \in SUBSET Nat, S # {}, NatLessThanWellFounded, WFMin
  <2> QED
    BY <2>1
<1>2. \A k, n \in Nat : k < n => <<k, n>> \in OpToRel(<, Nat)
  BY DEF OpToRel
<1>3. ASSUME NEW k \in S
      PROVE  m <= k
  <2>1. k \in Nat /\ m \in Nat /\ ~(k < m)
    BY <1>1, <1>2
  <2> QED
    BY <2>1
<1> QED
  BY <1>3

\* What holds at first and of each number when it holds of the one before.
LEMMA Onwards ==
    ASSUME NEW n \in Nat, NEW F, 0 \in F, \A k \in 1 .. n : k - 1 \in F => k \in F
    PROVE  \A k \in 0 .. n : k \in F
<1> SUFFICES ASSUME NEW bad \in 0 .. n, bad \notin F PROVE FALSE
  OBVIOUS
<1> DEFINE N == {k \in 0 .. n : k \notin F}
<1>1. N \in SUBSET Nat /\ N # {}
  OBVIOUS
<1>2. PICK m \in N : \A k \in N : m <= k
  BY <1>1, Least
<1>3. m # 0 /\ m \in 1 .. n
  BY <1>2
<1>4. m - 1 \in 0 .. n /\ m - 1 \notin N
  BY <1>2, <1>3
<1> QED
  BY <1>2, <1>3, <1>4

\* Steps on the elements of X, and what they come to from a beginning.
Closed(St, n, X) == \A k \in 1 .. n, x \in X : St[k][x] \in X
Stepping(h, St, n, X, base) ==
    /\ h \in [0 .. n -> X] /\ h[0] = base
    /\ \A k \in 1 .. n : h[k] = St[k][h[k - 1]]

\* A recursion over the numbers up to n has a solution, step by step.
LEMMA StepsExist ==
    ASSUME NEW n \in Nat, NEW X, NEW base \in X, NEW St, Closed(St, n, X)
    PROVE  \E h : Stepping(h, St, n, X, base)
<1> USE DEF Closed
<1> DEFINE P(m, h) == /\ h \in [0 .. m -> X] /\ h[0] = base
                      /\ \A k \in 1 .. m : h[k] = St[k][h[k - 1]]
           F == {m \in 0 .. n : \E h : P(m, h)}
<1>1. 0 \in F
  <2>1. PICK h : h = [k \in 0 .. 0 |-> base]
    OBVIOUS
  <2>2. h \in [0 .. 0 -> X] /\ h[0] = base
    BY <2>1
  <2>3. P(0, h)
    BY <2>2
  <2>4. \E f : P(0, f)
    BY <2>3
  <2> QED
    BY <2>4
<1>2. ASSUME NEW m \in 1 .. n, m - 1 \in F PROVE m \in F
  <2>1. PICK h : P(m - 1, h)
    BY <1>2
  <2> DEFINE g == [k \in 0 .. m |-> IF k = m THEN St[m][h[m - 1]] ELSE h[k]]
  <2>2. /\ h[m - 1] \in X /\ \A k \in 0 .. m - 1 : h[k] \in X
        /\ h[0] = base /\ \A k \in 1 .. m - 1 : h[k] = St[k][h[k - 1]]
    BY <2>1
  <2>3. \A k \in 0 .. m : k # m => k \in 0 .. m - 1
    OBVIOUS
  <2>4. g \in [0 .. m -> X]
    BY <2>2, <2>3
  <2>5. g[0] = base
    BY <2>2
  <2>6. ASSUME NEW k \in 1 .. m PROVE g[k] = St[k][g[k - 1]]
    <3>1. k - 1 \in 0 .. m - 1 /\ k - 1 \in 0 .. m /\ k - 1 # m /\ k \in 0 .. m
      OBVIOUS
    <3>2. g[k - 1] = h[k - 1]
      BY <3>1
    <3>3. CASE k = m
      BY <3>1, <3>2, <3>3
    <3>4. CASE k # m
      <4>1. k \in 1 .. m - 1
        BY <3>4
      <4> QED
        BY <2>2, <3>1, <3>2, <3>4, <4>1
    <3> QED
      BY <3>3, <3>4
  <2> HIDE DEF g
  <2>7. P(m, g)
    BY <2>4, <2>5, <2>6
  <2> QED
    BY <2>7
<1> HIDE DEF F
<1>3. n \in F
  BY <1>1, <1>2, Onwards
<1> QED
  BY <1>3 DEF F, Stepping

\* What the folds of the community modules choose of a set of places.
LEMMA MaxIs ==
    ASSUME NEW n \in Nat, NEW s \in SUBSET (1 .. n), s # {}
    PROVE  Max(s) \in s /\ \A x \in s : x <= Max(s)
<1> DEFINE N == {n - x : x \in s}
<1>1. N \in SUBSET Nat /\ N # {}
  <2>1. \A x \in s : n - x \in Nat
    OBVIOUS
  <2> QED
    BY <2>1
<1>2. PICK m \in N : \A k \in N : m <= k
  <2> HIDE DEF N
  <2> QED
    BY <1>1, Least
<1>3. PICK x \in s : m = n - x
  BY <1>2
<1>4. \A y \in s : x >= y
  <2> TAKE y \in s
  <2>1. m <= n - y
    BY <1>2
  <2> QED
    BY <1>3, <2>1
<1>5. \E z \in s : \A y \in s : z >= y
  BY <1>4
<1>6. Max(s) \in s /\ \A y \in s : Max(s) >= y
  BY <1>5 DEF Max
<1> QED
  BY <1>6

LEMMA MaxOfBegun ==
    ASSUME NEW k \in Nat \ {0} PROVE Max(1 .. k) = k /\ (1 .. k) \ {k} = 1 .. k - 1
<1>1. PICK s : s = 1 .. k
  OBVIOUS
<1>2. s \in SUBSET (1 .. k) /\ s # {} /\ k \in s
  <2>1. k \in 1 .. k
    OBVIOUS
  <2> QED
    BY <1>1, <2>1
<1>3. Max(s) \in s /\ \A x \in s : x <= Max(s)
  BY <1>2, MaxIs
<1>4. Max(s) \in 1 .. k /\ k <= Max(s)
  BY <1>1, <1>2, <1>3
<1>5. Max(s) = k
  BY <1>4
<1> QED
  BY <1>1, <1>5

\* The fold of the library: over sets of places, the last of them first.
Folded(g, St, n, X, base) ==
    /\ g \in [SUBSET (1 .. n) -> X]
    /\ \A s \in SUBSET (1 .. n) : g[s] = IF s = {} THEN base ELSE St[Max(s)][g[s \ {Max(s)}]]

\* The recursion over sets of places that FoldLeft is, has a solution.
LEMMA FoldExists ==
    ASSUME NEW n \in Nat, NEW X, NEW base \in X, NEW St, Closed(St, n, X)
    PROVE  \E g : Folded(g, St, n, X, base)
<1> USE DEF Closed
<1> DEFINE D == SUBSET (1 .. n)
           U(m) == {s \in D : s \subseteq 1 .. m}
           P(m, g) == /\ g \in [U(m) -> X]
                      /\ \A s \in U(m) : g[s] = IF s = {} THEN base ELSE St[Max(s)][g[s \ {Max(s)}]]
           F == {m \in 0 .. n : \E g : P(m, g)}
<1>0. \A s \in D : s # {} => Max(s) \in s /\ Max(s) \in 1 .. n /\ \A x \in s : x <= Max(s)
  BY MaxIs
<1>1. 0 \in F
  <2>1. PICK g : g = [s \in U(0) |-> base]
    OBVIOUS
  <2>2. \A s \in U(0) : s = {}
    OBVIOUS
  <2>3. g \in [U(0) -> X] /\ \A s \in U(0) : g[s] = base
    BY <2>1
  <2> HIDE DEF U
  <2>4. P(0, g)
    BY <2>2, <2>3
  <2>5. \E f : P(0, f)
    BY <2>4
  <2> QED
    BY <2>5
<1>2. ASSUME NEW m \in 1 .. n, m - 1 \in F PROVE m \in F
  <2>1. PICK g : P(m - 1, g)
    BY <1>2
  <2> DEFINE h == [s \in U(m) |-> IF m \in s THEN St[m][g[s \ {m}]] ELSE g[s]]
  <2>2. \A s \in U(m) : s \ {m} \in U(m - 1) /\ (m \notin s => s \in U(m - 1))
                        /\ (m \in s => s # {} /\ Max(s) = m)
    <3> TAKE s \in U(m)
    <3>1. s \subseteq 1 .. m /\ s \in D
      OBVIOUS
    <3>2. s \ {m} \subseteq 1 .. m - 1
      BY <3>1
    <3>3. m \in s => Max(s) = m
      <4>1. m \in s => Max(s) \in 1 .. m /\ m <= Max(s)
        BY <1>0, <3>1
      <4> QED
        BY <4>1
    <3> QED
      BY <3>1, <3>2, <3>3
  <2>3. \A s \in U(m - 1) : s \in U(m) /\ m \notin s /\ g[s] \in X
    <3>1. \A s \in U(m - 1) : g[s] \in X
      <4> HIDE DEF U
      <4> QED
        BY <2>1
    <3>2. 1 .. m - 1 \subseteq 1 .. m /\ m \notin 1 .. m - 1
      OBVIOUS
    <3>3. \A s \in U(m - 1) : s \in U(m) /\ m \notin s
      BY <3>2
    <3> QED
      BY <3>1, <3>3
  <2>4. h \in [U(m) -> X]
    BY <2>2, <2>3
  <2>5. ASSUME NEW s \in U(m)
        PROVE  h[s] = IF s = {} THEN base ELSE St[Max(s)][h[s \ {Max(s)}]]
    <3>1. CASE m \in s
      <4>1. h[s \ {m}] = g[s \ {m}]
        BY <2>2, <2>3
      <4> QED
        BY <2>2, <3>1, <4>1
    <3>2. CASE m \notin s
      <4>1. s \in U(m - 1) /\ h[s] = g[s]
        BY <2>2, <3>2
      <4>2. s # {} => s \ {Max(s)} \in U(m - 1)
        BY <4>1
      <4>3. s # {} => h[s \ {Max(s)}] = g[s \ {Max(s)}]
        BY <2>3, <4>2
      <4> QED
        BY <2>1, <4>1, <4>3
    <3> QED
      BY <3>1, <3>2
  <2> HIDE DEF h
  <2> HIDE DEF U, D
  <2>6. P(m, h)
    BY <2>4, <2>5
  <2>7. \E f : P(m, f)
    BY <2>6
  <2>8. m \in 0 .. n
    OBVIOUS
  <2> HIDE DEF P
  <2> QED
    BY <2>7, <2>8
<1> HIDE DEF F
<1>3. n \in F
  BY <1>1, <1>2, Onwards
<1>4. U(n) = D
  OBVIOUS
<1>5. PICK g : P(n, g)
  BY <1>3 DEF F
<1> QED
  BY <1>4, <1>5 DEF Folded

-----------------------------------------------------------------------------
(* Sequences: places, selections, flattenings *)

Distinct(s) == \A i, j \in DOMAIN s : s[i] = s[j] => i = j
Holds(s) == {s[i] : i \in DOMAIN s}

\* A sequence without repeats is as long as what it holds is large.
LEMMA CountDistinct ==
    ASSUME NEW T, NEW s \in Seq(T), Distinct(s)
    PROVE  IsFiniteSet(Holds(s)) /\ Cardinality(Holds(s)) = Len(s)
<1>1. Len(s) \in Nat /\ s \in [1 .. Len(s) -> T] /\ DOMAIN s = 1 .. Len(s)
  BY LenProperties
<1>2. s \in Bijection(1 .. Len(s), Holds(s))
  BY <1>1 DEF Bijection, Injection, Surjection, IsInjective, Distinct, Holds
<1>3. ExistsBijection(1 .. Len(s), Holds(s))
  BY <1>2 DEF ExistsBijection
<1> QED
  BY <1>1, <1>3, FS_CountingElements, FS_NatBijection

\* A sequence of different places, all of S.
Enumerates(at, S) ==
    /\ at \in Seq(S) /\ Distinct(at)
    /\ \A x \in S : \E i \in DOMAIN at : at[i] = x

\* The places selected are those of the set, each once.
LEMMA PlacesAre ==
    ASSUME NEW n \in Nat, NEW S \in SUBSET (1 .. n)
    PROVE  Enumerates(Places(S, n), S)
<1> DEFINE St == [k \in 1 .. n |-> [x \in Seq(S) |-> IF k \in S THEN Append(x, k) ELSE x]]
           P(f) == f = [k \in 0 .. n |-> IF k = 0 THEN <<>>
                            ELSE IF k \in S THEN Append(f[k - 1], k) ELSE f[k - 1]]
<1>1. Places(S, n) = (CHOOSE f : P(f))[n]
  BY DEF Places
<1>2. \E f : P(f)
  <2>1. <<>> \in Seq(S)
    BY EmptySeq
  <2>2. \A k \in 1 .. n, x \in Seq(S) : St[k][x] \in Seq(S)
    <3>1. \A k \in S, x \in Seq(S) : Append(x, k) \in Seq(S)
      BY AppendProperties
    <3> QED
      BY <3>1
  <2>3. PICK h \in [0 .. n -> Seq(S)] : h[0] = <<>> /\ \A k \in 1 .. n : h[k] = St[k][h[k - 1]]
    <3>1. PICK X : X = Seq(S)
      OBVIOUS
    <3>2. PICK base \in X : base = <<>>
      BY <2>1, <3>1
    <3>3. Closed(St, n, X)
      BY <2>2, <3>1 DEF Closed
    <3> HIDE DEF St, P
    <3>4. PICK h : Stepping(h, St, n, X, base)
      BY <3>2, <3>3, StepsExist
    <3> QED
      BY <3>1, <3>2, <3>4 DEF Stepping
  <2>4. \A k \in 1 .. n : h[k] = IF k \in S THEN Append(h[k - 1], k) ELSE h[k - 1]
    <3> TAKE k \in 1 .. n
    <3>1. k - 1 \in 0 .. n
      OBVIOUS
    <3>2. h[k - 1] \in Seq(S)
      BY <3>1
    <3> QED
      BY <2>3, <3>2
  <2>5. \A k \in 0 .. n : k # 0 => k \in 1 .. n
    OBVIOUS
  <2>6. P(h)
    BY <2>3, <2>4, <2>5
  <2> QED
    BY <2>6
<1> HIDE DEF P
<1>3. PICK f : f = (CHOOSE g : P(g)) /\ P(f)
  BY <1>2
<1>4. f[0] = <<>> /\ \A k \in 1 .. n : f[k] = IF k \in S THEN Append(f[k - 1], k) ELSE f[k - 1]
  <2>1. \A k \in 1 .. n : k \in 0 .. n /\ k # 0
    OBVIOUS
  <2>2. 0 \in 0 .. n
    OBVIOUS
  <2> QED
    BY <1>3, <2>1, <2>2 DEF P
<1> DEFINE U(k) == {x \in S : x <= k}
           F == {k \in 0 .. n : Enumerates(f[k], U(k))}
<1>u. \A x \in S : x \in Nat \ {0} /\ x <= n
  OBVIOUS
<1>5. 0 \in F
  <2>1. U(0) = {}
    <3>1. \A x \in S : ~(x <= 0)
      BY <1>u
    <3> QED
      BY <3>1
  <2>2. Enumerates(<<>>, {})
    BY EmptySeq DEF Enumerates, Distinct
  <2>3. f[0] = <<>> /\ 0 \in 0 .. n
    BY <1>4
  <2> HIDE DEF U
  <2> QED
    BY <2>1, <2>2, <2>3
<1>6. ASSUME NEW k \in 1 .. n, k - 1 \in F PROVE k \in F
  <2>1. Enumerates(f[k - 1], U(k - 1))
    BY <1>6
  <2>2. CASE k \notin S
    <3>1. \A x \in S : x <= k <=> x <= k - 1
      BY <1>u, <2>2
    <3>2. U(k) = U(k - 1)
      BY <3>1
    <3>3. f[k] = f[k - 1] /\ k \in 0 .. n
      BY <1>4, <2>2
    <3> HIDE DEF U
    <3> QED
      BY <2>1, <3>2, <3>3
  <2>3. CASE k \in S
    <3>1. U(k) = U(k - 1) \cup {k} /\ k \notin U(k - 1)
      <4>1. \A x \in S : x <= k <=> (x <= k - 1 \/ x = k)
        BY <1>u
      <4>2. ~(k <= k - 1) /\ k <= k
        OBVIOUS
      <4> QED
        BY <2>3, <4>1, <4>2
    <3>2. PICK V : V = U(k - 1)
      OBVIOUS
    <3>3. PICK x : x = f[k - 1]
      OBVIOUS
    <3>4. x \in Seq(V) /\ Distinct(x) /\ k \notin V /\ \A y \in V : \E i \in DOMAIN x : x[i] = y
      BY <2>1, <3>1, <3>2, <3>3 DEF Enumerates
    <3>5. Enumerates(Append(x, k), V \cup {k})
      <4>1. x \in Seq(V \cup {k})
        BY <3>4, SeqMonotonic
      <4>2. /\ Append(x, k) \in Seq(V \cup {k}) /\ Len(Append(x, k)) = Len(x) + 1
            /\ \A i \in 1 .. Len(x) : Append(x, k)[i] = x[i]
            /\ Append(x, k)[Len(x) + 1] = k
        BY <4>1, AppendProperties
      <4>3. Len(x) \in Nat /\ DOMAIN x = 1 .. Len(x) /\ \A i \in 1 .. Len(x) : x[i] \in V
        BY <3>4, LenProperties
      <4>4. DOMAIN Append(x, k) = 1 .. Len(x) + 1
        BY <4>2, LenProperties
      <4>5. PICK y : y = Append(x, k)
        OBVIOUS
      <4>6. Distinct(y)
        <5>1. \A i \in DOMAIN y : \/ i \in DOMAIN x /\ y[i] = x[i] /\ y[i] # k
                                  \/ i = Len(x) + 1 /\ y[i] = k
          <6> TAKE i \in DOMAIN y
          <6>1. i \in 1 .. Len(x) \/ i = Len(x) + 1
            BY <4>3, <4>4, <4>5
          <6> QED
            BY <3>4, <4>2, <4>3, <4>5, <6>1
        <5> QED
          BY <3>4, <5>1 DEF Distinct
      <4>7. \A z \in V \cup {k} : \E i \in DOMAIN y : y[i] = z
        <5>1. \A i \in DOMAIN x : i \in DOMAIN y /\ y[i] = x[i]
          BY <4>2, <4>3, <4>4, <4>5
        <5>2. Len(x) + 1 \in DOMAIN y /\ y[Len(x) + 1] = k
          BY <4>2, <4>3, <4>4, <4>5
        <5> QED
          BY <3>4, <5>1, <5>2
      <4> QED
        BY <4>2, <4>5, <4>6, <4>7 DEF Enumerates
    <3>6. f[k] = Append(x, k) /\ U(k) = V \cup {k}
      BY <1>4, <2>3, <3>1, <3>2, <3>3
    <3>7. k \in 0 .. n
      OBVIOUS
    <3> HIDE DEF U
    <3> QED
      BY <3>5, <3>6, <3>7
  <2> QED
    BY <2>2, <2>3
<1> HIDE DEF F
<1>7. n \in F
  BY <1>5, <1>6, Onwards
<1>8. U(n) = S
  BY <1>u
<1> QED
  BY <1>1, <1>3, <1>7, <1>8 DEF F

\* A selection has what is at the places selected, each place once.
LEMMA SelectionIs ==
    ASSUME NEW T, NEW s \in Seq(T), NEW S \in SUBSET DOMAIN s
    PROVE  \E at : /\ Enumerates(at, S) /\ At(s, S) \in Seq(T)
                   /\ DOMAIN At(s, S) = DOMAIN at
                   /\ \A i \in DOMAIN at : at[i] \in S /\ At(s, S)[i] = s[at[i]]
<1>1. Len(s) \in Nat /\ DOMAIN s = 1 .. Len(s) /\ \A i \in DOMAIN s : s[i] \in T
  BY LenProperties
<1>2. PICK at : at = Places(S, Len(s))
  OBVIOUS
<1>3. Enumerates(at, S)
  BY <1>1, <1>2, PlacesAre
<1>4. at \in Seq(S)
  BY <1>3 DEF Enumerates
<1>5. Len(at) \in Nat /\ DOMAIN at = 1 .. Len(at) /\ \A i \in DOMAIN at : at[i] \in S
  BY <1>4, LenProperties
<1>6. At(s, S) = [i \in 1 .. Len(at) |-> s[at[i]]]
  BY <1>2, <1>5 DEF At
<1>7. At(s, S) \in [1 .. Len(at) -> T]
  BY <1>1, <1>5, <1>6
<1>8. At(s, S) \in Seq(T)
  BY <1>5, <1>7, SeqDef
<1> QED
  BY <1>3, <1>5, <1>6, <1>8

\* A selection holds what was at the places selected.
LEMMA SelectionHolds ==
    ASSUME NEW T, NEW s \in Seq(T), NEW S \in SUBSET DOMAIN s
    PROVE  /\ At(s, S) \in Seq(T)
           /\ Holds(At(s, S)) = {s[i] : i \in S}
           /\ \A i \in DOMAIN At(s, S) : \E k \in S : At(s, S)[i] = s[k]
<1>1. PICK at : /\ Enumerates(at, S) /\ At(s, S) \in Seq(T)
                /\ DOMAIN At(s, S) = DOMAIN at
                /\ \A i \in DOMAIN at : at[i] \in S /\ At(s, S)[i] = s[at[i]]
  BY SelectionIs
<1> QED
  BY <1>1 DEF Enumerates, Holds

-----------------------------------------------------------------------------
(* The halving insert *)

\* What comes of the rows S: those stored are kept, each once, and the others
\* are counted, unless the insert is given up.
Isolated(r, v, S) ==
    /\ r \in [kept : Seq(S), refused : Nat, raised : BOOLEAN]
    /\ Enumerates(r.kept, {i \in S : v[i] = "stored"})
    /\ r.refused = Cardinality({i \in S : v[i] = "refused"})
    /\ r.raised <=> \E i \in S : v[i] = "raises"

\* Two sets apart are counted together.
LEMMA CountBoth ==
    ASSUME NEW S, NEW T, IsFiniteSet(S), IsFiniteSet(T), S \cap T = {}
    PROVE  Cardinality(S) \in Nat /\ Cardinality(T) \in Nat
           /\ Cardinality(S \cup T) = Cardinality(S) + Cardinality(T)
<1>1. Cardinality(S \cup T) = Cardinality(S) + Cardinality(T) - Cardinality(S \cap T)
  BY FS_Union
<1>2. Cardinality(S \cap T) = 0
  BY FS_EmptySet
<1>3. Cardinality(S) \in Nat /\ Cardinality(T) \in Nat
  BY FS_CardinalityType
<1> QED
  BY <1>1, <1>2, <1>3

\* Two sequences of sets apart, one after the other.
LEMMA EnumeratesBoth ==
    ASSUME NEW S, NEW T, S \cap T = {}, NEW a, NEW b, Enumerates(a, S), Enumerates(b, T)
    PROVE  Enumerates(a \o b, S \cup T)
<1>1. a \in Seq(S) /\ b \in Seq(T) /\ a \in Seq(S \cup T) /\ b \in Seq(S \cup T)
  BY SeqMonotonic DEF Enumerates
<1>2. PICK c : c = a \o b
  OBVIOUS
<1>3. /\ Len(a) \in Nat /\ DOMAIN a = 1 .. Len(a) /\ \A i \in DOMAIN a : a[i] \in S
      /\ Len(b) \in Nat /\ DOMAIN b = 1 .. Len(b) /\ \A i \in DOMAIN b : b[i] \in T
  BY <1>1, LenProperties
<1>4. /\ c \in Seq(S \cup T) /\ DOMAIN c = 1 .. Len(a) + Len(b)
      /\ \A i \in 1 .. Len(a) + Len(b) : c[i] = IF i <= Len(a) THEN a[i] ELSE b[i - Len(a)]
  BY <1>1, <1>2, ConcatProperties, LenProperties
<1>5. \A i \in DOMAIN c : \/ i \in DOMAIN a /\ c[i] = a[i] /\ c[i] \in S
                          \/ /\ i - Len(a) \in DOMAIN b /\ c[i] = b[i - Len(a)] /\ c[i] \in T
                             /\ i \in Nat
  <2> TAKE i \in DOMAIN c
  <2>1. CASE i <= Len(a)
    <3>1. i \in 1 .. Len(a)
      BY <1>3, <1>4, <2>1
    <3> QED
      BY <1>3, <1>4, <2>1, <3>1
  <2>2. CASE ~(i <= Len(a))
    <3>1. i - Len(a) \in 1 .. Len(b) /\ i \in Nat
      BY <1>3, <1>4, <2>2
    <3> QED
      BY <1>3, <1>4, <2>2, <3>1
  <2> QED
    BY <2>1, <2>2
<1>6. Distinct(c)
  <2> SUFFICES ASSUME NEW i \in DOMAIN c, NEW j \in DOMAIN c, c[i] = c[j] PROVE i = j
    BY DEF Distinct
  <2>1. CASE i \in DOMAIN a /\ c[i] = a[i] /\ c[i] \in S
    <3>1. j \in DOMAIN a /\ c[j] = a[j]
      BY <1>5, <2>1
    <3> QED
      BY <2>1, <3>1 DEF Enumerates, Distinct
  <2>2. CASE i - Len(a) \in DOMAIN b /\ c[i] = b[i - Len(a)] /\ c[i] \in T /\ i \in Nat
    <3>1. j - Len(a) \in DOMAIN b /\ c[j] = b[j - Len(a)] /\ j \in Nat
      BY <1>5, <2>2
    <3>2. i - Len(a) = j - Len(a)
      BY <2>2, <3>1 DEF Enumerates, Distinct
    <3> QED
      BY <1>3, <2>2, <3>1, <3>2
  <2> QED
    BY <1>5, <2>1, <2>2
<1>7. \A x \in S \cup T : \E i \in DOMAIN c : c[i] = x
  <2> TAKE x \in S \cup T
  <2>1. CASE x \in S
    <3>1. PICK i \in DOMAIN a : a[i] = x
      BY <2>1 DEF Enumerates
    <3>2. i \in DOMAIN c /\ c[i] = a[i]
      BY <1>3, <1>4
    <3> QED
      BY <3>1, <3>2
  <2>2. CASE x \in T
    <3>1. PICK i \in DOMAIN b : b[i] = x
      BY <2>2 DEF Enumerates
    <3>2. PICK j : j = i + Len(a)
      OBVIOUS
    <3>3. j \in 1 .. Len(a) + Len(b) /\ ~(j <= Len(a)) /\ j - Len(a) = i
      BY <1>3, <3>2
    <3> QED
      BY <1>4, <3>1, <3>3
  <2> QED
    BY <2>1, <2>2
<1> QED
  BY <1>2, <1>4, <1>6, <1>7 DEF Enumerates

\* Two halves together account for the rows of both.
LEMMA BothIsolated ==
    ASSUME NEW v, NEW S, NEW T, IsFiniteSet(S), IsFiniteSet(T), S \cap T = {},
           NEW a, NEW b, Isolated(a, v, S), Isolated(b, v, T)
    PROVE  Isolated(Both(a, b), v, S \cup T)
<1> DEFINE In(U, what) == {i \in U : v[i] = what}
<1>1. PICK r : r = Both(a, b)
  OBVIOUS
<1>2. r = [kept |-> a.kept \o b.kept, refused |-> a.refused + b.refused, raised |-> a.raised \/ b.raised]
  BY <1>1 DEF Both, Inserted
<1>3. /\ a.kept \in Seq(S) /\ a.refused \in Nat /\ a.raised \in BOOLEAN
      /\ b.kept \in Seq(T) /\ b.refused \in Nat /\ b.raised \in BOOLEAN
  BY DEF Isolated
<1>4. a.kept \o b.kept \in Seq(S \cup T)
  <2>1. a.kept \in Seq(S \cup T) /\ b.kept \in Seq(S \cup T)
    BY <1>3, SeqMonotonic
  <2> QED
    BY <2>1, ConcatProperties
<1>5. \A what : In(S \cup T, what) = In(S, what) \cup In(T, what) /\ In(S, what) \cap In(T, what) = {}
                /\ In(S, what) \in SUBSET S /\ In(T, what) \in SUBSET T
  OBVIOUS
<1>6. Enumerates(r.kept, In(S \cup T, "stored"))
  <2>1. Enumerates(a.kept, In(S, "stored")) /\ Enumerates(b.kept, In(T, "stored"))
    BY DEF Isolated
  <2> HIDE DEF In
  <2>2. Enumerates(a.kept \o b.kept, In(S, "stored") \cup In(T, "stored"))
    BY <1>5, <2>1, EnumeratesBoth
  <2> QED
    BY <1>2, <1>5, <2>2
<1>7. r.refused = Cardinality(In(S \cup T, "refused"))
  <2>1. a.refused = Cardinality(In(S, "refused")) /\ b.refused = Cardinality(In(T, "refused"))
    BY DEF Isolated
  <2> HIDE DEF In
  <2>2. IsFiniteSet(In(S, "refused")) /\ IsFiniteSet(In(T, "refused"))
    BY <1>5, FS_Subset
  <2>3. Cardinality(In(S, "refused") \cup In(T, "refused"))
          = Cardinality(In(S, "refused")) + Cardinality(In(T, "refused"))
    BY <1>5, <2>2, CountBoth
  <2> QED
    BY <1>2, <1>5, <2>1, <2>3
<1>8. r.raised <=> \E i \in S \cup T : v[i] = "raises"
  <2>1. r.raised <=> a.raised \/ b.raised
    BY <1>2
  <2> QED
    BY <2>1 DEF Isolated
<1>9. r \in [kept : Seq(S \cup T), refused : Nat, raised : BOOLEAN]
  <2>1. a.refused + b.refused \in Nat /\ (a.raised \/ b.raised) \in BOOLEAN
    BY <1>3
  <2> QED
    BY <1>2, <1>4, <2>1
<1> QED
  BY <1>1, <1>6, <1>7, <1>8, <1>9 DEF Isolated

\* One attempt at the rows from lo to hi, where g tells of the smaller ones.
Attempt(v, g, lo, hi) ==
    IF \A i \in lo .. hi : v[i] = "stored"
    THEN Inserted([i \in 1 .. hi - lo + 1 |-> lo + i - 1], 0, FALSE)
    ELSE IF lo = hi
    THEN Inserted(<<>>, IF v[lo] = "refused" THEN 1 ELSE 0, v[lo] = "raises")
    ELSE Both(g[<<lo, (lo + hi + 1) \div 2 - 1>>], g[<<(lo + hi + 1) \div 2, hi>>])

Spans(n) == (1 .. n + 1) \X (0 .. n)
Attempting(g, v) == g = [span \in Spans(Len(v)) |-> Attempt(v, g, span[1], span[2])]

\* Both halves are shorter than the whole.
LEMMA MiddleIs ==
    ASSUME NEW lo \in Int, NEW hi \in Int, lo < hi
    PROVE  LET middle == (lo + hi + 1) \div 2 IN
           middle \in Int /\ lo < middle /\ middle <= hi
OBVIOUS

\* A batch the database takes is kept as it is.
LEMMA AttemptStored ==
    ASSUME NEW v, NEW g, NEW lo \in Int, NEW hi \in Int, \A i \in lo .. hi : v[i] = "stored"
    PROVE  Isolated(Attempt(v, g, lo, hi), v, lo .. hi)
<1> DEFINE kept == [i \in 1 .. hi - lo + 1 |-> lo + i - 1]
<1>1. Attempt(v, g, lo, hi) = [kept |-> kept, refused |-> 0, raised |-> FALSE]
  BY DEF Attempt, Inserted
<1>2. kept \in Seq(lo .. hi)
  <2>1. kept \in [1 .. hi - lo + 1 -> lo .. hi]
    OBVIOUS
  <2>2. CASE hi - lo + 1 \in Nat
    BY <2>1, <2>2, SeqDef
  <2>3. CASE hi - lo + 1 \notin Nat
    <3>1. 1 .. hi - lo + 1 = 1 .. 0
      BY <2>3
    <3>2. kept \in [1 .. 0 -> lo .. hi] /\ 0 \in Nat
      BY <2>1, <3>1
    <3> HIDE DEF kept
    <3> QED
      BY <3>2, SeqDef
  <2> QED
    BY <2>2, <2>3
<1>3. DOMAIN kept = 1 .. hi - lo + 1 /\ \A i \in DOMAIN kept : kept[i] = lo + i - 1
  OBVIOUS
<1> HIDE DEF kept
<1>4. Distinct(kept)
  BY <1>3 DEF Distinct
<1>5. \A x \in lo .. hi : \E i \in DOMAIN kept : kept[i] = x
  <2> TAKE x \in lo .. hi
  <2>1. x - lo + 1 \in DOMAIN kept /\ kept[x - lo + 1] = x
    BY <1>3
  <2> QED
    BY <2>1
<1>6. /\ {i \in lo .. hi : v[i] = "stored"} = lo .. hi
      /\ {i \in lo .. hi : v[i] = "refused"} = {}
      /\ ~ \E i \in lo .. hi : v[i] = "raises"
  OBVIOUS
<1>7. Cardinality({}) = 0
  BY FS_EmptySet
<1>8. PICK r : r = Attempt(v, g, lo, hi)
  OBVIOUS
<1>9. /\ r.kept = kept /\ r.refused = 0 /\ r.raised = FALSE
      /\ r \in [kept : Seq(lo .. hi), refused : Nat, raised : BOOLEAN]
  BY <1>1, <1>2, <1>8
<1>10. Enumerates(kept, lo .. hi)
  BY <1>2, <1>4, <1>5 DEF Enumerates
<1> QED
  BY <1>6, <1>7, <1>8, <1>9, <1>10 DEF Isolated

Verdicts == {"stored", "refused", "raises"}

\* A batch of one row that is not taken: set aside, or the end of it.
LEMMA AttemptOne ==
    ASSUME NEW v, NEW g, NEW lo \in Int, v[lo] \in Verdicts, v[lo] # "stored"
    PROVE  Isolated(Attempt(v, g, lo, lo), v, lo .. lo)
<1>1. lo .. lo = {lo} /\ lo \in lo .. lo
  OBVIOUS
<1>2. PICK r : r = Attempt(v, g, lo, lo)
  OBVIOUS
<1>3. r = [kept |-> <<>>, refused |-> IF v[lo] = "refused" THEN 1 ELSE 0, raised |-> v[lo] = "raises"]
  BY <1>1, <1>2 DEF Attempt, Inserted
<1>4. <<>> \in Seq(lo .. lo) /\ Enumerates(<<>>, {})
  BY EmptySeq DEF Enumerates, Distinct
<1>5. {i \in lo .. lo : v[i] = "stored"} = {}
  BY <1>1
<1>6. {i \in lo .. lo : v[i] = "refused"} = IF v[lo] = "refused" THEN {lo} ELSE {}
  BY <1>1
<1>7. Cardinality({lo}) = 1 /\ Cardinality({}) = 0
  BY FS_Singleton, FS_EmptySet
<1>8. r.kept = <<>> /\ r.refused = (IF v[lo] = "refused" THEN 1 ELSE 0) /\ r.raised = (v[lo] = "raises")
  BY <1>3
<1>9. r \in [kept : Seq(lo .. lo), refused : Nat, raised : BOOLEAN]
  BY <1>3, <1>4
<1>10. r.refused = Cardinality({i \in lo .. lo : v[i] = "refused"})
  BY <1>6, <1>7, <1>8
<1>11. r.raised <=> \E i \in lo .. lo : v[i] = "raises"
  BY <1>1, <1>8
<1>12. Enumerates(r.kept, {i \in lo .. lo : v[i] = "stored"})
  BY <1>4, <1>5, <1>8
<1> QED
  BY <1>2, <1>9, <1>10, <1>11, <1>12 DEF Isolated

\* An attempt at more than one row asks for smaller ones only.
Alike(f, g, n, d) ==
    \A lo \in 1 .. n + 1, hi \in 0 .. n : hi - lo < d => f[<<lo, hi>>] = g[<<lo, hi>>]

\* An attempt asks for nothing but shorter ones.
LEMMA AttemptOfSmaller ==
    ASSUME NEW v, NEW f, NEW g, NEW d \in Nat, NEW n \in Nat, Alike(f, g, n, d),
           NEW lo \in 1 .. n + 1, NEW hi \in 0 .. n, hi - lo <= d
    PROVE  Attempt(v, f, lo, hi) = Attempt(v, g, lo, hi)
<1>1. CASE lo >= hi
  <2>1. lo > hi => \A i \in lo .. hi : v[i] = "stored"
    OBVIOUS
  <2>2. lo = hi \/ lo > hi
    BY <1>1
  <2> QED
    BY <2>1, <2>2 DEF Attempt
<1>2. CASE lo < hi
  <2>1. PICK m : m = (lo + hi + 1) \div 2
    OBVIOUS
  <2>2. m \in Int /\ lo < m /\ m <= hi
    BY <1>2, <2>1, MiddleIs
  <2>3. /\ m - 1 \in 0 .. n /\ (m - 1) - lo < d
        /\ m \in 1 .. n + 1 /\ hi - m < d
    BY <2>2
  <2>4. f[<<lo, m - 1>>] = g[<<lo, m - 1>>] /\ f[<<m, hi>>] = g[<<m, hi>>]
    BY <2>3 DEF Alike
  <2>5. lo # hi
    BY <1>2
  <2> QED
    BY <2>1, <2>4, <2>5 DEF Attempt
<1> QED
  BY <1>1, <1>2

\* So the recursion of the halves is sound,
LEMMA AttemptsExist ==
    ASSUME NEW v, Len(v) \in Nat
    PROVE  \E g : Attempting(g, v)
<1> DEFINE n == Len(v)
           P(d, g) == /\ g = [span \in Spans(n) |-> g[span]]
                      /\ \A lo \in 1 .. n + 1, hi \in 0 .. n :
                            hi - lo < d => g[<<lo, hi>>] = Attempt(v, g, lo, hi)
           F == {d \in 0 .. n : \E g : P(d, g)}
<1>1. 0 \in F
  <2>1. PICK g : g = [span \in Spans(n) |-> Attempt(v, <<>>, span[1], span[2])]
    OBVIOUS
  <2>2. \A lo \in 1 .. n + 1, hi \in 0 .. n : hi - lo < 0 => Attempt(v, <<>>, lo, hi) = Attempt(v, g, lo, hi)
    <3> SUFFICES ASSUME NEW lo \in 1 .. n + 1, NEW hi \in 0 .. n, hi - lo < 0
                 PROVE  Attempt(v, <<>>, lo, hi) = Attempt(v, g, lo, hi)
      OBVIOUS
    <3>1. \A i \in lo .. hi : v[i] = "stored"
      OBVIOUS
    <3> QED
      BY <3>1 DEF Attempt
  <2>3. \A lo \in 1 .. n + 1, hi \in 0 .. n : g[<<lo, hi>>] = Attempt(v, <<>>, lo, hi)
    BY <2>1 DEF Spans
  <2>4. g = [span \in Spans(n) |-> g[span]]
    BY <2>1
  <2>5. P(0, g)
    BY <2>2, <2>3, <2>4
  <2>6. \E f : P(0, f)
    BY <2>5
  <2> QED
    BY <2>6
<1>2. ASSUME NEW d \in 1 .. n, d - 1 \in F PROVE d \in F
  <2>1. PICK g : P(d - 1, g)
    BY <1>2
  <2>2. PICK f : f = [span \in Spans(n) |-> IF span[2] - span[1] < d - 1 THEN g[span]
                                            ELSE Attempt(v, g, span[1], span[2])]
    OBVIOUS
  <2>3. ASSUME NEW lo \in 1 .. n + 1, NEW hi \in 0 .. n
        PROVE  f[<<lo, hi>>] = IF hi - lo < d - 1 THEN g[<<lo, hi>>] ELSE Attempt(v, g, lo, hi)
    BY <2>2 DEF Spans
  <2>4. ASSUME NEW lo \in 1 .. n + 1, NEW hi \in 0 .. n
        PROVE  f[<<lo, hi>>] = Attempt(v, g, lo, hi)
    BY <2>1, <2>3
  <2>5. \A lo \in 1 .. n + 1, hi \in 0 .. n : hi - lo < d - 1 => f[<<lo, hi>>] = g[<<lo, hi>>]
    BY <2>3
  <2>6. ASSUME NEW lo \in 1 .. n + 1, NEW hi \in 0 .. n, hi - lo < d
        PROVE  Attempt(v, f, lo, hi) = Attempt(v, g, lo, hi)
    <3>1. PICK e \in Nat : e = d - 1
      OBVIOUS
    <3>2. hi - lo <= e
      BY <2>6, <3>1
    <3>3. Alike(f, g, n, e)
      BY <2>5, <3>1 DEF Alike
    <3> HIDE DEF n
    <3>4. n \in Nat
      BY DEF n
    <3> QED
      BY <3>2, <3>3, <3>4, AttemptOfSmaller
  <2>7. f = [span \in Spans(n) |-> f[span]]
    BY <2>2
  <2>8. P(d, f)
    BY <2>4, <2>6, <2>7
  <2>9. \E h : P(d, h)
    BY <2>8
  <2> HIDE DEF P
  <2>10. d \in 0 .. n
    OBVIOUS
  <2> QED
    BY <2>9, <2>10
<1> HIDE DEF F
<1>3. n \in F
  <2> HIDE DEF n
  <2>1. n \in Nat
    BY DEF n
  <2> QED
    BY <1>1, <1>2, <2>1, Onwards
<1>4. PICK g : P(n, g)
  BY <1>3 DEF F
<1>5. \A lo \in 1 .. n + 1, hi \in 0 .. n : g[<<lo, hi>>] = Attempt(v, g, lo, hi)
  <2>1. \A lo \in 1 .. n + 1, hi \in 0 .. n : hi - lo < n
    OBVIOUS
  <2> QED
    BY <1>4, <2>1
<1>6. \A span \in Spans(n) : g[span] = Attempt(v, g, span[1], span[2])
  <2> TAKE span \in Spans(n)
  <2>1. PICK lo \in 1 .. n + 1, hi \in 0 .. n : span = <<lo, hi>>
    BY DEF Spans
  <2>2. span[1] = lo /\ span[2] = hi
    BY <2>1
  <2> QED
    BY <1>5, <2>1, <2>2
<1>7. Attempting(g, v)
  <2>1. g = [span \in Spans(n) |-> g[span]]
    BY <1>4
  <2>2. g = [span \in Spans(n) |-> Attempt(v, g, span[1], span[2])]
    BY <1>6, <2>1
  <2> QED
    BY <2>2 DEF Attempting
<1> QED
  BY <1>7

\* ... and each attempt accounts for its rows, by a shortest that would not.
LEMMA AttemptsIsolate ==
    ASSUME NEW v \in Seq(Verdicts), NEW g, Attempting(g, v),
           NEW lo \in 1 .. Len(v) + 1, NEW hi \in 0 .. Len(v)
    PROVE  Isolated(g[<<lo, hi>>], v, lo .. hi)
<1>0. Len(v) \in Nat /\ \A i \in 1 .. Len(v) : v[i] \in Verdicts
  BY LenProperties
<1>1. PICK n \in Nat : n = Len(v)
  BY <1>0
<1>2. \A l \in 1 .. n + 1, h \in 0 .. n : g[<<l, h>>] = Attempt(v, g, l, h)
  BY <1>1 DEF Attempting, Spans
<1> DEFINE P(d) == \A l \in 1 .. n + 1, h \in 0 .. n : h - l < d => Isolated(g[<<l, h>>], v, l .. h)
           F == {d \in 0 .. n : P(d)}
<1>3. ASSUME NEW l \in 1 .. n + 1, NEW h \in 0 .. n, NEW d \in Nat, h - l <= d, P(d)
      PROVE  Isolated(g[<<l, h>>], v, l .. h)
  <2>1. g[<<l, h>>] = Attempt(v, g, l, h)
    BY <1>2
  <2>2. CASE \A i \in l .. h : v[i] = "stored"
    <3>1. Isolated(Attempt(v, g, l, h), v, l .. h)
      BY <2>2, AttemptStored
    <3> QED
      BY <2>1, <3>1
  <2>3. CASE l = h /\ ~ \A i \in l .. h : v[i] = "stored"
    <3>1. l \in 1 .. n /\ v[l] \in Verdicts /\ v[l] # "stored"
      BY <1>0, <1>1, <2>3
    <3>2. Isolated(Attempt(v, g, l, l), v, l .. l)
      BY <3>1, AttemptOne
    <3> QED
      BY <2>1, <2>3, <3>2
  <2>4. CASE l # h /\ ~ \A i \in l .. h : v[i] = "stored"
    <3>1. l < h
      BY <2>4
    <3>2. PICK m : m = (l + h + 1) \div 2
      OBVIOUS
    <3>3. m \in Int /\ l < m /\ m <= h
      BY <3>1, <3>2, MiddleIs
    <3>4. /\ m - 1 \in 0 .. n /\ (m - 1) - l < d
          /\ m \in 1 .. n + 1 /\ h - m < d
      BY <1>3, <3>3
    <3>5. Isolated(g[<<l, m - 1>>], v, l .. m - 1) /\ Isolated(g[<<m, h>>], v, m .. h)
      BY <1>3, <3>4
    <3>6. /\ IsFiniteSet(l .. m - 1) /\ IsFiniteSet(m .. h)
          /\ (l .. m - 1) \cap (m .. h) = {} /\ (l .. m - 1) \cup (m .. h) = l .. h
      <4>1. IsFiniteSet(l .. m - 1) /\ IsFiniteSet(m .. h)
        <5>1. l \in Int /\ m - 1 \in Int /\ m \in Int /\ h \in Int
          BY <3>3
        <5> QED
          BY <5>1, FS_Interval
      <4> QED
        BY <3>3, <4>1
    <3>7. Isolated(Both(g[<<l, m - 1>>], g[<<m, h>>]), v, l .. h)
      <4>1. PICK S, T : S = l .. m - 1 /\ T = m .. h
        OBVIOUS
      <4>2. PICK a, b : a = g[<<l, m - 1>>] /\ b = g[<<m, h>>]
        OBVIOUS
      <4>3. Isolated(Both(a, b), v, S \cup T)
        BY <3>5, <3>6, <4>1, <4>2, BothIsolated
      <4> QED
        BY <3>6, <4>1, <4>2, <4>3
    <3>8. Attempt(v, g, l, h) = Both(g[<<l, m - 1>>], g[<<m, h>>])
      BY <2>4, <3>2 DEF Attempt
    <3> QED
      BY <2>1, <3>7, <3>8
  <2> QED
    BY <2>2, <2>3, <2>4
<1>4. 0 \in F
  <2> SUFFICES ASSUME NEW l \in 1 .. n + 1, NEW h \in 0 .. n, h - l < 0
               PROVE  Isolated(g[<<l, h>>], v, l .. h)
    OBVIOUS
  <2>1. \A i \in l .. h : v[i] = "stored"
    OBVIOUS
  <2>2. Isolated(Attempt(v, g, l, h), v, l .. h)
    BY <2>1, AttemptStored
  <2> QED
    BY <1>2, <2>2
<1>5. ASSUME NEW d \in 1 .. n, d - 1 \in F PROVE d \in F
  <2>1. d - 1 \in Nat /\ P(d - 1)
    BY <1>5
  <2>2. P(d)
    <3> SUFFICES ASSUME NEW l \in 1 .. n + 1, NEW h \in 0 .. n, h - l < d
                 PROVE  Isolated(g[<<l, h>>], v, l .. h)
      OBVIOUS
    <3>1. h - l <= d - 1
      OBVIOUS
    <3> HIDE DEF P
    <3> QED
      BY <1>3, <2>1, <3>1
  <2> HIDE DEF P
  <2> QED
    BY <2>2
<1> HIDE DEF F
<1>6. n \in F
  <2>1. n \in Nat /\ \A d \in 1 .. n : d - 1 \in F => d \in F
    BY <1>1, <1>5
  <2>2. \A d \in 0 .. n : d \in F
    BY <1>4, <2>1, Onwards
  <2> QED
    BY <2>1, <2>2
<1>7. P(n)
  BY <1>6 DEF F
<1>8. lo \in 1 .. n + 1 /\ hi \in 0 .. n /\ hi - lo < n
  BY <1>1
<1> QED
  BY <1>7, <1>8

-----------------------------------------------------------------------------
(* The batches *)

\* The batches cover the rows, one after the other.
UpTo(n, k) == IF k * Batch < n THEN k * Batch ELSE n

\* They begin where the last ended and end with the rows.
LEMMA BatchesCover ==
    ASSUME NEW n \in Nat
    PROVE  LET m == (n + Batch - 1) \div Batch IN
           /\ m \in Nat /\ UpTo(n, 0) = 0 /\ UpTo(n, m) = n
           /\ \A k \in 1 .. m : /\ (k - 1) * Batch + 1 \in 1 .. n + 1 /\ UpTo(n, k) \in 0 .. n
                                /\ UpTo(n, k - 1) = (k - 1) * Batch
                                /\ UpTo(n, k - 1) <= UpTo(n, k)
<1>1. PICK b \in Nat \ {0} : b = Batch
  BY LoadAssumption
<1>2. PICK m \in Int : m = (n + b - 1) \div b
  OBVIOUS
<1>3. b * m <= n + b - 1 /\ n + b - 1 < b * m + b
  BY <1>2
<1>4. m \in Nat
  <2>1. CASE m < 0
    <3>1. b * m + b <= 0
      <4>1. m + 1 <= 0 /\ m + 1 \in Int
        BY <2>1
      <4>2. b * (m + 1) <= 0
        BY <4>1
      <4>3. b * (m + 1) = b * m + b
        OBVIOUS
      <4> QED
        BY <4>2, <4>3
    <3>2. b * m \in Int
      OBVIOUS
    <3> QED
      BY <1>3, <3>1, <3>2
  <2> QED
    BY <2>1
<1>5. \A k \in Nat : k * b \in Nat /\ k * b = b * k
  OBVIOUS
<1>6. UpTo(n, 0) = 0
  BY <1>1 DEF UpTo
<1>7. UpTo(n, m) = n
  <2>1. PICK p \in Nat : p = m * b /\ p = b * m
    BY <1>4, <1>5
  <2>2. p >= n
    BY <1>3, <2>1
  <2> QED
    BY <1>1, <2>1, <2>2 DEF UpTo
<1>8. ASSUME NEW k \in 1 .. m
      PROVE  /\ (k - 1) * b + 1 \in 1 .. n + 1 /\ UpTo(n, k) \in 0 .. n
             /\ UpTo(n, k - 1) = (k - 1) * b /\ UpTo(n, k - 1) <= UpTo(n, k)
  <2>1. PICK j \in Nat : j = k - 1 /\ j + 1 <= m
    BY <1>4
  <2>2. PICK p \in Nat : p = j * b /\ p = b * j
    BY <1>5
  <2>3. b * (j + 1) = b * j + b /\ b * (j + 1) <= b * m
    <3>1. PICK i \in Nat : m = (j + 1) + i
      BY <1>4, <2>1
    <3>2. b * m = b * (j + 1) + b * i /\ b * i \in Nat /\ b * (j + 1) \in Nat
      BY <3>1
    <3>3. b * (j + 1) <= b * m
      BY <3>2
    <3>4. b * (j + 1) = b * j + b
      OBVIOUS
    <3> QED
      BY <3>3, <3>4
  <2>4. p + b <= n + b - 1
    <3>1. PICK q \in Int : q = b * m
      BY <1>4
    <3>2. PICK r \in Int : r = b * (j + 1)
      OBVIOUS
    <3>3. q <= n + b - 1 /\ r <= q /\ r = p + b
      BY <1>3, <2>2, <2>3, <3>1, <3>2
    <3> QED
      BY <3>3
  <2>5. p < n
    BY <2>4
  <2>6. UpTo(n, j) = p
    BY <1>1, <2>2, <2>5 DEF UpTo
  <2>7. PICK r \in Nat : r = k * b /\ r = p + b
    <3>1. k = j + 1 /\ k * b \in Nat /\ k * b = b * k
      BY <1>5, <2>1
    <3> QED
      BY <2>2, <2>3, <3>1
  <2>8. UpTo(n, k) = IF r < n THEN r ELSE n
    BY <1>1, <2>7 DEF UpTo
  <2>9. (k - 1) * b = p
    BY <2>1, <2>2
  <2> QED
    BY <2>1, <2>5, <2>6, <2>7, <2>8, <2>9
<1>9. (n + Batch - 1) \div Batch = m
  BY <1>1, <1>2
<1> QED
  BY <1>1, <1>4, <1>6, <1>7, <1>8, <1>9

\* Of any rows, in batches of any size, however the database refuses them: the
\* insert keeps each row that is stored exactly once and in place to be matched with
\* its id, counts each that a check refused exactly once, and is given up exactly
\* when some row fails otherwise (load_providers.py _insert_isolating, _insert_batch).
\* The batches partition the rows, the halves partition a batch, and the recursion
\* ends because a half is shorter; a shortest span that failed is refuted.
THEOREM InsertIsolates ==
    ASSUME NEW v \in Seq(Verdicts)
    PROVE  Isolated(InsertIsolating(v), v, DOMAIN v)
<1>0. Len(v) \in Nat /\ DOMAIN v = 1 .. Len(v)
  BY LenProperties
<1>1. PICK n \in Nat : n = Len(v)
  BY <1>0
<1> DEFINE P(g) == Attempting(g, v)
           attempt == CHOOSE g : P(g)
           batch(k) == attempt[<<(k - 1) * Batch + 1, IF k * Batch < Len(v) THEN k * Batch ELSE Len(v)>>]
           m == (Len(v) + Batch - 1) \div Batch
           none == Inserted(<<>>, 0, FALSE)
           I == [k \in 1 .. m |-> k]
           Q(g) == g = [s \in SUBSET (1 .. m) |->
                          IF s = {} THEN none ELSE Both(g[s \ {Max(s)}], batch(I[Max(s)]))]
<1>2. InsertIsolating(v) = (CHOOSE g : Q(g))[1 .. m]
  BY DEF InsertIsolating, FoldLeft, MapThenFoldSet, Attempting, Spans, Attempt
<1>3. Attempting(attempt, v)
  <2>1. \E g : P(g)
    BY <1>0, AttemptsExist
  <2> HIDE DEF P
  <2>2. P(CHOOSE g : P(g))
    BY <2>1
  <2> QED
    BY <2>2 DEF P
<1> HIDE DEF attempt
<1>4. /\ m \in Nat /\ UpTo(n, 0) = 0 /\ UpTo(n, m) = n
      /\ \A k \in 1 .. m : /\ (k - 1) * Batch + 1 \in 1 .. n + 1 /\ UpTo(n, k) \in 0 .. n
                           /\ UpTo(n, k - 1) = (k - 1) * Batch
                           /\ UpTo(n, k - 1) <= UpTo(n, k)
  BY <1>1, BatchesCover
<1>5. \A k : batch(k) = attempt[<<(k - 1) * Batch + 1, UpTo(n, k)>>]
  BY <1>1 DEF UpTo
<1>6. ASSUME NEW k \in 1 .. m
      PROVE  Isolated(batch(k), v, UpTo(n, k - 1) + 1 .. UpTo(n, k))
  <2>1. PICK lo \in 1 .. n + 1, hi \in 0 .. n :
            lo = (k - 1) * Batch + 1 /\ hi = UpTo(n, k) /\ lo = UpTo(n, k - 1) + 1
    BY <1>4
  <2>2. Isolated(attempt[<<lo, hi>>], v, lo .. hi)
    BY <1>1, <1>3, AttemptsIsolate
  <2> QED
    BY <1>5, <2>1, <2>2
<1> HIDE DEF batch, m
<1>7. PICK X : X = [kept : Seq(1 .. n), refused : Nat, raised : BOOLEAN]
  OBVIOUS
<1>8. ASSUME NEW r, NEW S \in SUBSET (1 .. n), Isolated(r, v, S) PROVE r \in X
  <2>1. r \in [kept : Seq(S), refused : Nat, raised : BOOLEAN]
    BY <1>8 DEF Isolated
  <2>2. r.kept \in Seq(1 .. n)
    BY <2>1, SeqMonotonic
  <2> QED
    BY <1>7, <2>1, <2>2
<1>9. \A k \in 1 .. m : batch(k) \in X
  <2> TAKE k \in 1 .. m
  <2>1. PICK S : S = UpTo(n, k - 1) + 1 .. UpTo(n, k)
    OBVIOUS
  <2>2. S \in SUBSET (1 .. n)
    <3>1. UpTo(n, k) \in 0 .. n /\ UpTo(n, k - 1) + 1 \in 1 .. n + 1
      BY <1>4
    <3> QED
      BY <2>1, <3>1
  <2>3. Isolated(batch(k), v, S)
    BY <1>6, <2>1
  <2> QED
    BY <1>8, <2>2, <2>3
<1>10. \A a, b \in X : Both(a, b) \in X
  <2> TAKE a, b \in X
  <2>1. /\ a.kept \in Seq(1 .. n) /\ a.refused \in Nat /\ a.raised \in BOOLEAN
        /\ b.kept \in Seq(1 .. n) /\ b.refused \in Nat /\ b.raised \in BOOLEAN
    BY <1>7
  <2>2. a.kept \o b.kept \in Seq(1 .. n)
    BY <2>1, ConcatProperties
  <2>3. a.refused + b.refused \in Nat /\ (a.raised \/ b.raised) \in BOOLEAN
    BY <2>1
  <2> QED
    BY <1>7, <2>2, <2>3 DEF Both, Inserted
<1>11. Isolated(none, v, {}) /\ none \in X
  <2>1. <<>> \in Seq({}) /\ Enumerates(<<>>, {})
    BY EmptySeq DEF Enumerates, Distinct
  <2>2. Cardinality({}) = 0
    BY FS_EmptySet
  <2>3. none = [kept |-> <<>>, refused |-> 0, raised |-> FALSE]
    BY DEF Inserted
  <2> HIDE DEF none
  <2>4. PICK e, o : e = <<>> /\ o = Seq({}) /\ e \in o
    BY <2>1
  <2>5. none = [kept |-> e, refused |-> 0, raised |-> FALSE]
    BY <2>3, <2>4
  <2>9. none \in [kept : o, refused : Nat, raised : BOOLEAN]
    BY <2>4, <2>5
  <2>10. none.kept = <<>> /\ none.refused = 0 /\ none.raised = FALSE
    BY <2>4, <2>5
  <2>6. \A w : {i \in {} : v[i] = w} = {}
    OBVIOUS
  <2>7. Isolated(none, v, {})
    BY <2>1, <2>2, <2>4, <2>9, <2>10, <2>6 DEF Isolated
  <2>8. {} \in SUBSET (1 .. n)
    OBVIOUS
  <2> QED
    BY <1>8, <2>7, <2>8
<1> HIDE DEF none
<1> DEFINE St == [k \in 1 .. m |-> [x \in X |-> Both(x, batch(k))]]
<1>12. Closed(St, m, X)
  BY <1>9, <1>10 DEF Closed
<1>13. ASSUME NEW g PROVE (\A s \in SUBSET (1 .. m) : s # {} => Max(s) \in 1 .. m /\ I[Max(s)] = Max(s))
  <2> TAKE s \in SUBSET (1 .. m)
  <2> HAVE s # {}
  <2>1. Max(s) \in 1 .. m
    BY <1>4, MaxIs
  <2> QED
    BY <2>1
<1>14. ASSUME NEW g, Folded(g, St, m, X, none) PROVE Q(g)
  <2>1. \A s \in SUBSET (1 .. m) : s # {} =>
            St[Max(s)][g[s \ {Max(s)}]] = Both(g[s \ {Max(s)}], batch(I[Max(s)]))
    <3> TAKE s \in SUBSET (1 .. m)
    <3> HAVE s # {}
    <3>1. Max(s) \in 1 .. m /\ I[Max(s)] = Max(s)
      BY <1>13
    <3>2. g[s \ {Max(s)}] \in X
      BY <1>14 DEF Folded
    <3> QED
      BY <3>1, <3>2
  <2> HIDE DEF St, I
  <2> QED
    BY <1>14, <2>1 DEF Folded
<1>15. \E g : Q(g)
  <2> HIDE DEF St, Q
  <2> QED
    BY <1>4, <1>11, <1>12, <1>14, FoldExists
<1>16. PICK g : g = (CHOOSE f : Q(f)) /\ Q(g)
  <2> HIDE DEF Q
  <2> QED
    BY <1>15
<1> DEFINE F == {k \in 0 .. m : Isolated(g[1 .. k], v, 1 .. UpTo(n, k))}
<1>17. 0 \in F
  <2>1. 1 .. 0 = {} /\ {} \in SUBSET (1 .. m)
    OBVIOUS
  <2>2. g[{}] = none
    BY <1>16, <2>1
  <2>3. 1 .. UpTo(n, 0) = {}
    BY <1>4
  <2>4. 0 \in 0 .. m
    BY <1>4
  <2> QED
    BY <1>11, <2>1, <2>2, <2>3, <2>4
<1>18. ASSUME NEW k \in 1 .. m, k - 1 \in F PROVE k \in F
  <2>1. Isolated(g[1 .. k - 1], v, 1 .. UpTo(n, k - 1))
    BY <1>18
  <2>2. g[1 .. k] = Both(g[1 .. k - 1], batch(k))
    <3>1. PICK s : s = 1 .. k
      OBVIOUS
    <3>2. k \in Nat \ {0} /\ k \in 1 .. k /\ 1 .. k \subseteq 1 .. m
      BY <1>4
    <3>3. s \in SUBSET (1 .. m) /\ s # {}
      BY <3>1, <3>2
    <3>4. Max(s) = k /\ s \ {k} = 1 .. k - 1
      BY <3>1, <3>2, MaxOfBegun
    <3>5. I[k] = k
      OBVIOUS
    <3> HIDE DEF I
    <3>6. g[s] = Both(g[s \ {Max(s)}], batch(I[Max(s)]))
      BY <1>16, <3>3
    <3> QED
      BY <3>1, <3>4, <3>5, <3>6
  <2>3. PICK S, T : S = 1 .. UpTo(n, k - 1) /\ T = UpTo(n, k - 1) + 1 .. UpTo(n, k)
    OBVIOUS
  <2>4. PICK i \in Int, j \in Int : i = UpTo(n, k - 1) /\ j = UpTo(n, k) /\ 0 <= i /\ i <= j
    <3>1. PICK lo \in 1 .. n + 1, hi \in 0 .. n, p \in {(k - 1) * Batch} :
              lo = (k - 1) * Batch + 1 /\ hi = UpTo(n, k) /\ p = (k - 1) * Batch
              /\ UpTo(n, k - 1) = p /\ p <= hi
      BY <1>4
    <3>2. k - 1 \in Int /\ Batch \in Int
      BY <1>4, LoadAssumption
    <3>3. p \in Int
      <4>1. (k - 1) * Batch \in Int
        BY <3>2
      <4> QED
        BY <3>1, <4>1
    <3>4. 0 <= p
      BY <3>1, <3>3
    <3> QED
      BY <3>1, <3>3, <3>4
  <2>5. IsFiniteSet(S) /\ IsFiniteSet(T) /\ S \cap T = {} /\ S \cup T = 1 .. UpTo(n, k)
    <3>1. IsFiniteSet(1 .. i) /\ IsFiniteSet(i + 1 .. j)
      BY <2>4, FS_Interval
    <3>2. (1 .. i) \cap (i + 1 .. j) = {} /\ (1 .. i) \cup (i + 1 .. j) = 1 .. j
      BY <2>4
    <3> QED
      BY <2>3, <2>4, <3>1, <3>2
  <2>6. PICK a, b : a = g[1 .. k - 1] /\ b = batch(k)
    OBVIOUS
  <2>7. Isolated(Both(a, b), v, S \cup T)
    BY <1>6, <2>1, <2>3, <2>5, <2>6, BothIsolated
  <2>8. k \in 0 .. m
    BY <1>4
  <2> QED
    BY <2>2, <2>5, <2>6, <2>7, <2>8
<1> HIDE DEF F
<1>19. m \in F
  <2>1. \A k \in 1 .. m : k - 1 \in F => k \in F
    BY <1>18
  <2>2. \A k \in 0 .. m : k \in F
    BY <1>4, <1>17, <2>1, Onwards
  <2> QED
    BY <1>4, <2>2
<1>20. Isolated(g[1 .. m], v, 1 .. n)
  BY <1>4, <1>19 DEF F
<1> HIDE DEF Q
<1> QED
  BY <1>0, <1>1, <1>2, <1>16, <1>20

\* A flattening is reached by adding one part after the other.
LEMMA FlattenSteps ==
    ASSUME NEW T, NEW parts \in Seq(Seq(T))
    PROVE  \E h : /\ h \in [0 .. Len(parts) -> Seq(T)] /\ h[0] = <<>>
                  /\ \A k \in 1 .. Len(parts) : h[k] = h[k - 1] \o parts[k]
                  /\ FlattenSeq(parts) = h[Len(parts)]
<1>1. PICK n \in Nat : n = Len(parts) /\ DOMAIN parts = 1 .. n /\ \A i \in 1 .. n : parts[i] \in Seq(T)
  BY LenProperties
<1>2. PICK X : X = Seq(T)
  OBVIOUS
<1>3. PICK base \in X : base = <<>>
  BY <1>2, EmptySeq
<1> DEFINE St == [k \in 1 .. n |-> [x \in X |-> x \o parts[k]]]
<1>4. Closed(St, n, X)
  <2>1. \A k \in 1 .. n, x \in X : x \o parts[k] \in X
    BY <1>1, <1>2, ConcatProperties
  <2> QED
    BY <2>1 DEF Closed
<1>5. PICK h : Stepping(h, St, n, X, base)
  <2> HIDE DEF St
  <2> QED
    BY <1>4, StepsExist
<1>6. /\ h \in [0 .. n -> X] /\ h[0] = <<>>
      /\ \A k \in 1 .. n : h[k] = h[k - 1] \o parts[k]
  <2>1. h \in [0 .. n -> X] /\ h[0] = <<>> /\ \A k \in 1 .. n : h[k] = St[k][h[k - 1]]
    BY <1>3, <1>5 DEF Stepping
  <2>2. ASSUME NEW k \in 1 .. n PROVE h[k] = h[k - 1] \o parts[k]
    <3>1. k - 1 \in 0 .. n
      OBVIOUS
    <3>2. h[k - 1] \in X
      BY <2>1, <3>1
    <3> QED
      BY <2>1, <3>2
  <2> HIDE DEF St
  <2> QED
    BY <2>1, <2>2
<1>7. FlattenSeq(parts) = h[n]
  <2>1. CASE n = 0
    <3>1. parts = <<>>
      BY <1>1, <2>1, EmptySeq
    <3>2. FlattenSeq(parts) = parts
      BY <1>1, <2>1 DEF FlattenSeq
    <3> QED
      BY <1>6, <2>1, <3>1, <3>2
  <2>2. CASE n # 0
    <3> DEFINE P(f) == f = [i \in 1 .. n |-> IF i = 1 THEN parts[i] ELSE f[i - 1] \o parts[i]]
    <3>1. FlattenSeq(parts) = (CHOOSE f : P(f))[n]
      BY <1>1, <2>2 DEF FlattenSeq
    <3>2a. h[1] = parts[1]
      <4>1. 1 \in 1 .. n /\ 0 \in 0 .. n
        BY <1>1, <2>2
      <4>2. h[1] = h[0] \o parts[1]
        <5>1. 1 - 1 = 0
          OBVIOUS
        <5>2. h[1] = h[1 - 1] \o parts[1]
          BY <1>6, <4>1
        <5> QED
          BY <5>1, <5>2
      <4>3. <<>> \o parts[1] = parts[1]
        BY <1>1, <4>1, ConcatEmptySeq
      <4> QED
        BY <1>6, <4>2, <4>3
    <3>2. P([i \in 1 .. n |-> h[i]])
      <4>3. \A i \in 1 .. n : i # 1 => i - 1 \in 1 .. n
        OBVIOUS
      <4> QED
        BY <1>6, <3>2a, <4>3
    <3>3. PICK f : f = (CHOOSE g : P(g)) /\ P(f)
      <4>1. \E g : P(g)
        BY <3>2
      <4> HIDE DEF P
      <4> QED
        BY <4>1
    <3> DEFINE F == {k \in 0 .. n : k = 0 \/ f[k] = h[k]}
    <3>4. 0 \in F
      OBVIOUS
    <3>5. ASSUME NEW k \in 1 .. n, k - 1 \in F PROVE k \in F
      <4>1. k \in 0 .. n
        OBVIOUS
      <4>2. CASE k = 1
        <5>1. 1 \in 1 .. n
          BY <3>5, <4>2
        <5>2. f[1] = h[1]
          BY <3>2a, <3>3, <5>1
        <5> QED
          BY <4>1, <4>2, <5>1, <5>2
      <4>3. CASE k # 1
        <5>1. f[k] = f[k - 1] \o parts[k]
          BY <3>3, <4>3
        <5>2. f[k - 1] = h[k - 1]
          BY <3>5, <4>3
        <5> QED
          BY <1>6, <4>1, <5>1, <5>2
      <4> QED
        BY <4>2, <4>3
    <3> HIDE DEF F
    <3>6. n \in F
      <4>1. n \in Nat
        BY <1>1
      <4>2. \A k \in 1 .. n : k - 1 \in F => k \in F
        BY <3>5
      <4>3. \A k \in 0 .. n : k \in F
        BY <3>4, <4>1, <4>2, Onwards
      <4> QED
        BY <4>1, <4>3
    <3> QED
      BY <2>2, <3>1, <3>3, <3>6 DEF F
  <2> QED
    BY <2>1, <2>2
<1> QED
  BY <1>1, <1>2, <1>6, <1>7

\* A flattening holds what its parts hold.
LEMMA FlattenHolds ==
    ASSUME NEW T, NEW parts \in Seq(Seq(T))
    PROVE  /\ FlattenSeq(parts) \in Seq(T)
           /\ Holds(FlattenSeq(parts)) = UNION {Holds(parts[i]) : i \in DOMAIN parts}
<1>1. PICK n \in Nat : n = Len(parts) /\ DOMAIN parts = 1 .. n /\ \A i \in 1 .. n : parts[i] \in Seq(T)
  BY LenProperties
<1>2. PICK h : /\ h \in [0 .. n -> Seq(T)] /\ h[0] = <<>>
               /\ \A k \in 1 .. n : h[k] = h[k - 1] \o parts[k]
               /\ FlattenSeq(parts) = h[n]
  BY <1>1, FlattenSteps
<1>3. ASSUME NEW a \in Seq(T), NEW b \in Seq(T) PROVE Holds(a \o b) = Holds(a) \cup Holds(b)
  <2>1. PICK c : c = a \o b
    OBVIOUS
  <2>2. /\ Len(a) \in Nat /\ DOMAIN a = 1 .. Len(a) /\ Len(b) \in Nat /\ DOMAIN b = 1 .. Len(b)
    BY LenProperties
  <2>3. /\ DOMAIN c = 1 .. Len(a) + Len(b)
        /\ \A i \in 1 .. Len(a) + Len(b) : c[i] = IF i <= Len(a) THEN a[i] ELSE b[i - Len(a)]
    BY <2>1, ConcatProperties, LenProperties
  <2>4. \A i \in DOMAIN c : (i \in DOMAIN a /\ c[i] = a[i])
                            \/ (i - Len(a) \in DOMAIN b /\ c[i] = b[i - Len(a)])
    <3> TAKE i \in DOMAIN c
    <3>1. CASE i <= Len(a)
      <4>1. i \in 1 .. Len(a)
        BY <2>2, <2>3, <3>1
      <4> QED
        BY <2>2, <2>3, <3>1, <4>1
    <3>2. CASE ~(i <= Len(a))
      <4>1. i - Len(a) \in 1 .. Len(b)
        BY <2>2, <2>3, <3>2
      <4> QED
        BY <2>2, <2>3, <3>2, <4>1
    <3> QED
      BY <3>1, <3>2
  <2>5. \A i \in DOMAIN a : i \in DOMAIN c /\ c[i] = a[i]
    <3> TAKE i \in DOMAIN a
    <3>1. i \in 1 .. Len(a) + Len(b) /\ i <= Len(a)
      BY <2>2
    <3> QED
      BY <2>3, <3>1
  <2>6. \A i \in DOMAIN b : i + Len(a) \in DOMAIN c /\ c[i + Len(a)] = b[i]
    <3> TAKE i \in DOMAIN b
    <3>1. PICK j : j = i + Len(a)
      OBVIOUS
    <3>2. j \in 1 .. Len(a) + Len(b) /\ ~(j <= Len(a)) /\ j - Len(a) = i
      BY <2>2, <3>1
    <3> QED
      BY <2>3, <3>1, <3>2
  <2>7. Holds(c) = Holds(a) \cup Holds(b)
    <3>1. Holds(c) \subseteq Holds(a) \cup Holds(b)
      BY <2>4 DEF Holds
    <3>2. Holds(a) \cup Holds(b) \subseteq Holds(c)
      BY <2>5, <2>6 DEF Holds
    <3> QED
      BY <3>1, <3>2
  <2> QED
    BY <2>1, <2>7
<1> DEFINE U(k) == UNION {Holds(parts[i]) : i \in 1 .. k}
           F == {k \in 0 .. n : Holds(h[k]) = U(k)}
<1>4. 0 \in F
  <2>1. Holds(<<>>) = {}
    BY EmptySeq DEF Holds
  <2>2. U(0) = {}
    OBVIOUS
  <2>3. h[0] = <<>> /\ 0 \in 0 .. n
    BY <1>1, <1>2
  <2> HIDE DEF U
  <2> QED
    BY <2>1, <2>2, <2>3
<1>5. ASSUME NEW k \in 1 .. n, k - 1 \in F PROVE k \in F
  <2>1. k - 1 \in 0 .. n /\ k \in 0 .. n /\ 1 .. k = (1 .. k - 1) \cup {k}
    OBVIOUS
  <2>2. U(k) = U(k - 1) \cup Holds(parts[k])
    BY <2>1
  <2> HIDE DEF U
  <2>3. h[k - 1] \in Seq(T) /\ h[k] = h[k - 1] \o parts[k] /\ parts[k] \in Seq(T)
    BY <1>1, <1>2, <2>1
  <2>4. Holds(h[k - 1]) = U(k - 1)
    BY <1>5
  <2>5. Holds(h[k]) = Holds(h[k - 1]) \cup Holds(parts[k])
    BY <1>3, <2>3
  <2> QED
    BY <2>1, <2>2, <2>4, <2>5
<1> HIDE DEF F
<1>6. n \in F
  <2>1. n \in Nat
    BY <1>1
  <2>2. \A k \in 1 .. n : k - 1 \in F => k \in F
    BY <1>5
  <2>3. \A k \in 0 .. n : k \in F
    BY <1>4, <2>1, <2>2, Onwards
  <2> QED
    BY <2>1, <2>3
<1> QED
  BY <1>1, <1>2, <1>6 DEF F

\* The flattening of sequences that list sets apart from each other.
Apart(parts, S) ==
    /\ \A i \in DOMAIN parts : Enumerates(parts[i], S[i])
    /\ \A i, j \in DOMAIN parts : i # j => S[i] \cap S[j] = {}

\* Parts apart and without repeats make a whole without repeats.
LEMMA FlattenEnumerates ==
    ASSUME NEW T, NEW parts \in Seq(Seq(T)), NEW S, Apart(parts, S)
    PROVE  Enumerates(FlattenSeq(parts), UNION {S[i] : i \in DOMAIN parts})
<1>1. PICK n \in Nat : n = Len(parts) /\ DOMAIN parts = 1 .. n
  BY LenProperties
<1>2. PICK h : /\ h \in [0 .. n -> Seq(T)] /\ h[0] = <<>>
               /\ \A k \in 1 .. n : h[k] = h[k - 1] \o parts[k]
               /\ FlattenSeq(parts) = h[n]
  BY <1>1, FlattenSteps
<1> DEFINE U(k) == UNION {S[i] : i \in 1 .. k}
           F == {k \in 0 .. n : Enumerates(h[k], U(k))}
<1>4. 0 \in F
  <2>1. Enumerates(<<>>, {})
    BY EmptySeq DEF Enumerates, Distinct
  <2>2. U(0) = {}
    OBVIOUS
  <2>3. h[0] = <<>> /\ 0 \in 0 .. n
    BY <1>1, <1>2
  <2> HIDE DEF U
  <2> QED
    BY <2>1, <2>2, <2>3
<1>5. ASSUME NEW k \in 1 .. n, k - 1 \in F PROVE k \in F
  <2>1. k - 1 \in 0 .. n /\ k \in 0 .. n /\ 1 .. k = (1 .. k - 1) \cup {k} /\ k \notin 1 .. k - 1
        /\ 1 .. k - 1 \subseteq 1 .. n
    OBVIOUS
  <2>2. U(k) = U(k - 1) \cup S[k]
    BY <2>1
  <2>3. U(k - 1) \cap S[k] = {}
    <3>1. \A i \in 1 .. k - 1 : S[i] \cap S[k] = {}
      <4> TAKE i \in 1 .. k - 1
      <4>1. i \in 1 .. n /\ i # k
        BY <2>1
      <4> QED
        BY <1>1, <4>1 DEF Apart
    <3> QED
      BY <3>1
  <2> HIDE DEF U
  <2>4. Enumerates(h[k - 1], U(k - 1)) /\ Enumerates(parts[k], S[k])
    BY <1>1, <1>5 DEF Apart
  <2>5. Enumerates(h[k - 1] \o parts[k], U(k - 1) \cup S[k])
    BY <2>3, <2>4, EnumeratesBoth
  <2> QED
    BY <1>2, <2>1, <2>2, <2>5
<1> HIDE DEF F
<1>6. n \in F
  <2>1. n \in Nat
    BY <1>1
  <2>2. \A k \in 1 .. n : k - 1 \in F => k \in F
    BY <1>5
  <2>3. \A k \in 0 .. n : k \in F
    BY <1>4, <2>1, <2>2, Onwards
  <2> QED
    BY <2>1, <2>3
<1> QED
  BY <1>1, <1>2, <1>6 DEF F

\* A fold's beginnings.
LEMMA Beginnings ==
    ASSUME NEW n \in Nat, NEW k \in 1 .. n
    PROVE  /\ 1 .. k \in SUBSET (1 .. n) /\ 1 .. k # {}
           /\ Max(1 .. k) = k /\ (1 .. k) \ {k} = 1 .. k - 1
           /\ 1 .. k - 1 \in SUBSET (1 .. n)
<1>1. k \in Nat \ {0} /\ k \in 1 .. k
  OBVIOUS
<1> QED
  BY <1>1, MaxOfBegun

\* The place a fold takes next.
LEMMA MaxIn ==
    ASSUME NEW n \in Nat
    PROVE  \A s \in SUBSET (1 .. n) : s # {} => Max(s) \in 1 .. n
BY MaxIs

-----------------------------------------------------------------------------
(* Rows merged by what they are about *)

\* One row merged into those before it, by the provider's id of a player, and by
\* that of a row of a roster; and one that is new appended.
Merge(merged, r) ==
    IF \E i \in DOMAIN merged : merged[i].sid = r.sid
    THEN [i \in DOMAIN merged |-> IF merged[i].sid = r.sid THEN r ELSE merged[i]]
    ELSE Append(merged, r)
Record(merged, row) ==
    IF \E i \in DOMAIN merged : merged[i].id = row.id
    THEN [i \in DOMAIN merged |-> IF merged[i].id = row.id THEN row ELSE merged[i]]
    ELSE Append(merged, row)
Add(held, row) == IF Held(held, row) THEN held ELSE Append(held, row)

Merged(base, list) == FoldLeft(Merge, base, list)
Recorded(base, list) == FoldLeft(Record, base, list)

\* A row written over those of some places.
LEMMA Replaced ==
    ASSUME NEW T, NEW m \in Seq(T), NEW r \in T, NEW S
    PROVE  [i \in DOMAIN m |-> IF i \in S THEN r ELSE m[i]] \in Seq(T)
<1>1. PICK n \in Nat : n = Len(m) /\ DOMAIN m = 1 .. n /\ \A i \in 1 .. n : m[i] \in T
  BY LenProperties
<1>2. [i \in 1 .. n |-> IF i \in S THEN r ELSE m[i]] \in [1 .. n -> T]
  BY <1>1
<1> QED
  BY <1>1, <1>2, SeqDef

\* A merge yields rows of the kind it is given; the same for the other two.
LEMMA MergeTyped ==
    ASSUME NEW T
    PROVE  \A m \in Seq(T), r \in T : Merge(m, r) \in Seq(T)
<1> TAKE m \in Seq(T), r \in T
<1> DEFINE S == {i \in DOMAIN m : m[i].sid = r.sid}
<1>1. [i \in DOMAIN m |-> IF i \in S THEN r ELSE m[i]] \in Seq(T)
  <2> HIDE DEF S
  <2> QED
    BY Replaced
<1>2. [i \in DOMAIN m |-> IF i \in S THEN r ELSE m[i]]
        = [i \in DOMAIN m |-> IF m[i].sid = r.sid THEN r ELSE m[i]]
  OBVIOUS
<1>3. Append(m, r) \in Seq(T)
  BY AppendProperties
<1> QED
  BY <1>1, <1>2, <1>3 DEF Merge

LEMMA RecordTyped ==
    ASSUME NEW T
    PROVE  \A m \in Seq(T), r \in T : Record(m, r) \in Seq(T)
<1> TAKE m \in Seq(T), r \in T
<1> DEFINE S == {i \in DOMAIN m : m[i].id = r.id}
<1>1. [i \in DOMAIN m |-> IF i \in S THEN r ELSE m[i]] \in Seq(T)
  <2> HIDE DEF S
  <2> QED
    BY Replaced
<1>2. [i \in DOMAIN m |-> IF i \in S THEN r ELSE m[i]]
        = [i \in DOMAIN m |-> IF m[i].id = r.id THEN r ELSE m[i]]
  OBVIOUS
<1>3. Append(m, r) \in Seq(T)
  BY AppendProperties
<1> QED
  BY <1>1, <1>2, <1>3 DEF Record

LEMMA AddTyped ==
    ASSUME NEW T
    PROVE  \A m \in Seq(T), r \in T : Add(m, r) \in Seq(T)
BY AppendProperties DEF Add

\* The merge of the identities, one after the other.
LEMMA MergeSteps ==
    ASSUME NEW T, NEW base \in Seq(T), NEW list \in Seq(T)
    PROVE  \E h : /\ h \in [0 .. Len(list) -> Seq(T)] /\ h[0] = base
                  /\ \A k \in 1 .. Len(list) : h[k] = Merge(h[k - 1], list[k])
                  /\ Merged(base, list) = h[Len(list)]
<1>1. PICK n \in Nat : n = Len(list) /\ DOMAIN list = 1 .. n /\ \A i \in 1 .. n : list[i] \in T
  BY LenProperties
<1>n. n \in Nat
  BY <1>1
<1>2. PICK X : X = Seq(T)
  OBVIOUS
<1>b. base \in X
  BY <1>2
<1> DEFINE Q(g) == g = [s \in SUBSET (1 .. n) |->
                          IF s = {} THEN base ELSE Merge(g[s \ {Max(s)}], list[Max(s)])]
           St == [k \in 1 .. n |-> [x \in X |-> Merge(x, list[k])]]
<1>3. Merged(base, list) = (CHOOSE g : Q(g))[1 .. n]
  BY <1>1 DEF Merged, FoldLeft, MapThenFoldSet
<1>4. \A k \in 1 .. n, x \in X : Merge(x, list[k]) \in X
  BY <1>1, <1>2, MergeTyped
<1>5. Closed(St, n, X)
  BY <1>4 DEF Closed
<1>6. ASSUME NEW g, Folded(g, St, n, X, base) PROVE Q(g)
  <2>1. \A s \in SUBSET (1 .. n) : s # {} =>
            St[Max(s)][g[s \ {Max(s)}]] = Merge(g[s \ {Max(s)}], list[Max(s)])
    <3> TAKE s \in SUBSET (1 .. n)
    <3> HAVE s # {}
    <3>1. Max(s) \in 1 .. n
      BY <1>n, MaxIn
    <3>2. g[s \ {Max(s)}] \in X
      BY <1>6 DEF Folded
    <3> QED
      BY <3>1, <3>2
  <2> HIDE DEF St
  <2> QED
    BY <1>6, <2>1 DEF Folded
<1>7. \E g : Q(g)
  <2> HIDE DEF St, Q
  <2> QED
    BY <1>n, <1>b, <1>5, <1>6, FoldExists
<1>8. PICK g : g = (CHOOSE f : Q(f)) /\ Q(g)
  <2> HIDE DEF Q
  <2> QED
    BY <1>7
<1>9. g[1 .. 0] = base
  <2>1. 1 .. 0 = {} /\ {} \in SUBSET (1 .. n)
    OBVIOUS
  <2>2. g[{}] = base
    BY <1>8, <2>1
  <2> QED
    BY <2>1, <2>2
<1>10. ASSUME NEW k \in 1 .. n PROVE g[1 .. k] = Merge(g[1 .. k - 1], list[k])
  <2>1. PICK s : s = 1 .. k
    OBVIOUS
  <2>2. s \in SUBSET (1 .. n) /\ s # {} /\ Max(s) = k /\ s \ {k} = 1 .. k - 1
    BY <1>n, <2>1, Beginnings
  <2>3. g[s] = Merge(g[s \ {Max(s)}], list[Max(s)])
    BY <1>8, <2>2
  <2> QED
    BY <2>1, <2>2, <2>3
<1> HIDE DEF Q, St
<1> DEFINE F == {k \in 0 .. n : g[1 .. k] \in X}
<1>11. \A k \in 0 .. n : k \in F
  <2>1. 0 \in F
    BY <1>n, <1>b, <1>9
  <2>2. ASSUME NEW k \in 1 .. n, k - 1 \in F PROVE k \in F
    <3>1. k \in 0 .. n
      OBVIOUS
    <3>2. g[1 .. k - 1] \in X
      BY <2>2
    <3> QED
      BY <1>4, <1>10, <3>1, <3>2
  <2>3. \A k \in 1 .. n : k - 1 \in F => k \in F
    BY <2>2
  <2> HIDE DEF F
  <2> QED
    BY <1>n, <2>1, <2>3, Onwards
<1>12. PICK h : h = [k \in 0 .. n |-> g[1 .. k]]
  OBVIOUS
<1>13. h \in [0 .. n -> X] /\ h[0] = base /\ h[n] = g[1 .. n]
  <2>1. \A k \in 0 .. n : g[1 .. k] \in X
    BY <1>11
  <2>2. 0 \in 0 .. n /\ n \in 0 .. n
    BY <1>n
  <2> QED
    BY <1>9, <1>12, <2>1, <2>2
<1>14. ASSUME NEW k \in 1 .. n PROVE h[k] = Merge(h[k - 1], list[k])
  <2>1. k \in 0 .. n /\ k - 1 \in 0 .. n
    OBVIOUS
  <2> QED
    BY <1>10, <1>12, <2>1
<1> QED
  BY <1>1, <1>2, <1>3, <1>8, <1>13, <1>14

\* The record of a roster, row after row.
LEMMA RecordSteps ==
    ASSUME NEW T, NEW base \in Seq(T), NEW list \in Seq(T)
    PROVE  \E h : /\ h \in [0 .. Len(list) -> Seq(T)] /\ h[0] = base
                  /\ \A k \in 1 .. Len(list) : h[k] = Record(h[k - 1], list[k])
                  /\ Recorded(base, list) = h[Len(list)]
<1>1. PICK n \in Nat : n = Len(list) /\ DOMAIN list = 1 .. n /\ \A i \in 1 .. n : list[i] \in T
  BY LenProperties
<1>n. n \in Nat
  BY <1>1
<1>2. PICK X : X = Seq(T)
  OBVIOUS
<1>b. base \in X
  BY <1>2
<1> DEFINE Q(g) == g = [s \in SUBSET (1 .. n) |->
                          IF s = {} THEN base ELSE Record(g[s \ {Max(s)}], list[Max(s)])]
           St == [k \in 1 .. n |-> [x \in X |-> Record(x, list[k])]]
<1>3. Recorded(base, list) = (CHOOSE g : Q(g))[1 .. n]
  BY <1>1 DEF Recorded, FoldLeft, MapThenFoldSet
<1>4. \A k \in 1 .. n, x \in X : Record(x, list[k]) \in X
  BY <1>1, <1>2, RecordTyped
<1>5. Closed(St, n, X)
  BY <1>4 DEF Closed
<1>6. ASSUME NEW g, Folded(g, St, n, X, base) PROVE Q(g)
  <2>1. \A s \in SUBSET (1 .. n) : s # {} =>
            St[Max(s)][g[s \ {Max(s)}]] = Record(g[s \ {Max(s)}], list[Max(s)])
    <3> TAKE s \in SUBSET (1 .. n)
    <3> HAVE s # {}
    <3>1. Max(s) \in 1 .. n
      BY <1>n, MaxIn
    <3>2. g[s \ {Max(s)}] \in X
      BY <1>6 DEF Folded
    <3> QED
      BY <3>1, <3>2
  <2> HIDE DEF St
  <2> QED
    BY <1>6, <2>1 DEF Folded
<1>7. \E g : Q(g)
  <2> HIDE DEF St, Q
  <2> QED
    BY <1>n, <1>b, <1>5, <1>6, FoldExists
<1>8. PICK g : g = (CHOOSE f : Q(f)) /\ Q(g)
  <2> HIDE DEF Q
  <2> QED
    BY <1>7
<1>9. g[1 .. 0] = base
  <2>1. 1 .. 0 = {} /\ {} \in SUBSET (1 .. n)
    OBVIOUS
  <2>2. g[{}] = base
    BY <1>8, <2>1
  <2> QED
    BY <2>1, <2>2
<1>10. ASSUME NEW k \in 1 .. n PROVE g[1 .. k] = Record(g[1 .. k - 1], list[k])
  <2>1. PICK s : s = 1 .. k
    OBVIOUS
  <2>2. s \in SUBSET (1 .. n) /\ s # {} /\ Max(s) = k /\ s \ {k} = 1 .. k - 1
    BY <1>n, <2>1, Beginnings
  <2>3. g[s] = Record(g[s \ {Max(s)}], list[Max(s)])
    BY <1>8, <2>2
  <2> QED
    BY <2>1, <2>2, <2>3
<1> HIDE DEF Q, St
<1> DEFINE F == {k \in 0 .. n : g[1 .. k] \in X}
<1>11. \A k \in 0 .. n : k \in F
  <2>1. 0 \in F
    BY <1>n, <1>b, <1>9
  <2>2. ASSUME NEW k \in 1 .. n, k - 1 \in F PROVE k \in F
    <3>1. k \in 0 .. n
      OBVIOUS
    <3>2. g[1 .. k - 1] \in X
      BY <2>2
    <3> QED
      BY <1>4, <1>10, <3>1, <3>2
  <2>3. \A k \in 1 .. n : k - 1 \in F => k \in F
    BY <2>2
  <2> HIDE DEF F
  <2> QED
    BY <1>n, <2>1, <2>3, Onwards
<1>12. PICK h : h = [k \in 0 .. n |-> g[1 .. k]]
  OBVIOUS
<1>13. h \in [0 .. n -> X] /\ h[0] = base /\ h[n] = g[1 .. n]
  <2>1. \A k \in 0 .. n : g[1 .. k] \in X
    BY <1>11
  <2>2. 0 \in 0 .. n /\ n \in 0 .. n
    BY <1>n
  <2> QED
    BY <1>9, <1>12, <2>1, <2>2
<1>14. ASSUME NEW k \in 1 .. n PROVE h[k] = Record(h[k - 1], list[k])
  <2>1. k \in 0 .. n /\ k - 1 \in 0 .. n
    OBVIOUS
  <2> QED
    BY <1>10, <1>12, <2>1
<1> QED
  BY <1>1, <1>2, <1>3, <1>8, <1>13, <1>14

\* A page, row after row.
LEMMA AddSteps ==
    ASSUME NEW T, NEW base \in Seq(T), NEW list \in Seq(T)
    PROVE  \E h : /\ h \in [0 .. Len(list) -> Seq(T)] /\ h[0] = base
                  /\ \A k \in 1 .. Len(list) : h[k] = Add(h[k - 1], list[k])
                  /\ WithPage(base, list) = h[Len(list)]
<1>1. PICK n \in Nat : n = Len(list) /\ DOMAIN list = 1 .. n /\ \A i \in 1 .. n : list[i] \in T
  BY LenProperties
<1>n. n \in Nat
  BY <1>1
<1>2. PICK X : X = Seq(T)
  OBVIOUS
<1>b. base \in X
  BY <1>2
<1> DEFINE Q(g) == g = [s \in SUBSET (1 .. n) |->
                          IF s = {} THEN base ELSE Add(g[s \ {Max(s)}], list[Max(s)])]
           St == [k \in 1 .. n |-> [x \in X |-> Add(x, list[k])]]
<1>3. WithPage(base, list) = (CHOOSE g : Q(g))[1 .. n]
  BY <1>1 DEF WithPage, Add, FoldLeft, MapThenFoldSet
<1>4. \A k \in 1 .. n, x \in X : Add(x, list[k]) \in X
  BY <1>1, <1>2, AddTyped
<1>5. Closed(St, n, X)
  BY <1>4 DEF Closed
<1>6. ASSUME NEW g, Folded(g, St, n, X, base) PROVE Q(g)
  <2>1. \A s \in SUBSET (1 .. n) : s # {} =>
            St[Max(s)][g[s \ {Max(s)}]] = Add(g[s \ {Max(s)}], list[Max(s)])
    <3> TAKE s \in SUBSET (1 .. n)
    <3> HAVE s # {}
    <3>1. Max(s) \in 1 .. n
      BY <1>n, MaxIn
    <3>2. g[s \ {Max(s)}] \in X
      BY <1>6 DEF Folded
    <3> QED
      BY <3>1, <3>2
  <2> HIDE DEF St
  <2> QED
    BY <1>6, <2>1 DEF Folded
<1>7. \E g : Q(g)
  <2> HIDE DEF St, Q
  <2> QED
    BY <1>n, <1>b, <1>5, <1>6, FoldExists
<1>8. PICK g : g = (CHOOSE f : Q(f)) /\ Q(g)
  <2> HIDE DEF Q
  <2> QED
    BY <1>7
<1>9. g[1 .. 0] = base
  <2>1. 1 .. 0 = {} /\ {} \in SUBSET (1 .. n)
    OBVIOUS
  <2>2. g[{}] = base
    BY <1>8, <2>1
  <2> QED
    BY <2>1, <2>2
<1>10. ASSUME NEW k \in 1 .. n PROVE g[1 .. k] = Add(g[1 .. k - 1], list[k])
  <2>1. PICK s : s = 1 .. k
    OBVIOUS
  <2>2. s \in SUBSET (1 .. n) /\ s # {} /\ Max(s) = k /\ s \ {k} = 1 .. k - 1
    BY <1>n, <2>1, Beginnings
  <2>3. g[s] = Add(g[s \ {Max(s)}], list[Max(s)])
    BY <1>8, <2>2
  <2> QED
    BY <2>1, <2>2, <2>3
<1> HIDE DEF Q, St
<1> DEFINE F == {k \in 0 .. n : g[1 .. k] \in X}
<1>11. \A k \in 0 .. n : k \in F
  <2>1. 0 \in F
    BY <1>n, <1>b, <1>9
  <2>2. ASSUME NEW k \in 1 .. n, k - 1 \in F PROVE k \in F
    <3>1. k \in 0 .. n
      OBVIOUS
    <3>2. g[1 .. k - 1] \in X
      BY <2>2
    <3> QED
      BY <1>4, <1>10, <3>1, <3>2
  <2>3. \A k \in 1 .. n : k - 1 \in F => k \in F
    BY <2>2
  <2> HIDE DEF F
  <2> QED
    BY <1>n, <2>1, <2>3, Onwards
<1>12. PICK h : h = [k \in 0 .. n |-> g[1 .. k]]
  OBVIOUS
<1>13. h \in [0 .. n -> X] /\ h[0] = base /\ h[n] = g[1 .. n]
  <2>1. \A k \in 0 .. n : g[1 .. k] \in X
    BY <1>11
  <2>2. 0 \in 0 .. n /\ n \in 0 .. n
    BY <1>n
  <2> QED
    BY <1>9, <1>12, <2>1, <2>2
<1>14. ASSUME NEW k \in 1 .. n PROVE h[k] = Add(h[k - 1], list[k])
  <2>1. k \in 0 .. n /\ k - 1 \in 0 .. n
    OBVIOUS
  <2> QED
    BY <1>10, <1>12, <2>1
<1> QED
  BY <1>1, <1>2, <1>3, <1>8, <1>13, <1>14

SidsOf(m) == {m[i].sid : i \in DOMAIN m}
OneSid(m) == \A i, j \in DOMAIN m : m[i].sid = m[j].sid => i = j

RowIds(m) == {m[i].id : i \in DOMAIN m}
OneRow(m) == \A i, j \in DOMAIN m : m[i].id = m[j].id => i = j
OneId(m) == \A i, j \in DOMAIN m : m[i].id = m[j].id /\ m[i].id # None => i = j

\* A merge keeps one row of a player, and adds nobody but the one merged.
LEMMA MergeOne ==
    ASSUME NEW T, NEW m \in Seq(T), OneSid(m), NEW r \in T
    PROVE  OneSid(Merge(m, r)) /\ SidsOf(Merge(m, r)) = SidsOf(m) \cup {r.sid}
<1>1. CASE \E i \in DOMAIN m : m[i].sid = r.sid
  <2>1. PICK x : x = Merge(m, r)
    OBVIOUS
  <2>2. /\ DOMAIN x = DOMAIN m
        /\ \A i \in DOMAIN m : x[i] = IF m[i].sid = r.sid THEN r ELSE m[i]
    BY <1>1, <2>1 DEF Merge
  <2>3. \A i \in DOMAIN m : x[i].sid = m[i].sid
    BY <2>2
  <2>4. OneSid(x) /\ SidsOf(x) = SidsOf(m) \cup {r.sid}
    BY <1>1, <2>2, <2>3 DEF OneSid, SidsOf
  <2> QED
    BY <2>1, <2>4
<1>2. CASE ~\E i \in DOMAIN m : m[i].sid = r.sid
  <2>1. PICK x : x = Merge(m, r)
    OBVIOUS
  <2>2. x = Append(m, r)
    BY <1>2, <2>1 DEF Merge
  <2>3. PICK n \in Nat : n = Len(m) /\ DOMAIN m = 1 .. n
    BY LenProperties
  <2>4. /\ DOMAIN x = 1 .. n + 1 /\ x[n + 1] = r /\ \A i \in 1 .. n : x[i] = m[i]
    <3>1. x \in Seq(T) /\ Len(x) = n + 1 /\ x[n + 1] = r /\ \A i \in 1 .. n : x[i] = m[i]
      BY <2>2, <2>3, AppendProperties
    <3> QED
      BY <3>1, LenProperties
  <2>5. /\ DOMAIN x = DOMAIN m \cup {n + 1} /\ n + 1 \notin DOMAIN m
        /\ \A i \in DOMAIN m : x[i] = m[i]
    BY <2>3, <2>4
  <2>6. OneSid(x) /\ SidsOf(x) = SidsOf(m) \cup {r.sid}
    <3>1. \A i \in DOMAIN x : (i \in DOMAIN m /\ x[i] = m[i] /\ x[i].sid # r.sid)
                             \/ (i = n + 1 /\ x[i] = r)
      BY <1>2, <2>4, <2>5
    <3>2. OneSid(x)
      BY <2>5, <3>1 DEF OneSid
    <3>3. SidsOf(x) = SidsOf(m) \cup {r.sid}
      <4>1. SidsOf(x) \subseteq SidsOf(m) \cup {r.sid}
        BY <3>1 DEF SidsOf
      <4>2. n + 1 \in DOMAIN x /\ x[n + 1].sid = r.sid
        BY <2>4, <2>5
      <4>3. SidsOf(m) \cup {r.sid} \subseteq SidsOf(x)
        BY <2>5, <4>2 DEF SidsOf
      <4> QED
        BY <4>1, <4>3
    <3> QED
      BY <3>2, <3>3
  <2> QED
    BY <2>1, <2>6
<1> QED
  BY <1>1, <1>2

\* So all that is merged are there, each once.
LEMMA MergeAll ==
    ASSUME NEW T, NEW base \in Seq(T), OneSid(base), NEW list \in Seq(T)
    PROVE  /\ Merged(base, list) \in Seq(T)
           /\ OneSid(Merged(base, list))
           /\ SidsOf(Merged(base, list)) = SidsOf(base) \cup SidsOf(list)
<1>1. PICK n \in Nat : n = Len(list) /\ DOMAIN list = 1 .. n /\ \A i \in 1 .. n : list[i] \in T
  BY LenProperties
<1>n. n \in Nat
  BY <1>1
<1>a. PICK h : /\ h \in [0 .. Len(list) -> Seq(T)] /\ h[0] = base
               /\ \A k \in 1 .. Len(list) : h[k] = Merge(h[k - 1], list[k])
               /\ Merged(base, list) = h[Len(list)]
  BY MergeSteps
<1>2. /\ h \in [0 .. n -> Seq(T)] /\ h[0] = base
      /\ \A k \in 1 .. n : h[k] = Merge(h[k - 1], list[k])
      /\ Merged(base, list) = h[n]
  BY <1>1, <1>a
<1> DEFINE U(k) == SidsOf(base) \cup {list[i].sid : i \in 1 .. k}
           F == {k \in 0 .. n : OneSid(h[k]) /\ SidsOf(h[k]) = U(k)}
<1>3. 0 \in F
  <2>1. U(0) = SidsOf(base)
    OBVIOUS
  <2>2. h[0] = base /\ 0 \in 0 .. n
    BY <1>n, <1>2
  <2> HIDE DEF U
  <2> QED
    BY <2>1, <2>2
<1>4. ASSUME NEW k \in 1 .. n, k - 1 \in F PROVE k \in F
  <2>1. k - 1 \in 0 .. n /\ k \in 0 .. n /\ 1 .. k = (1 .. k - 1) \cup {k}
    OBVIOUS
  <2>2. U(k) = U(k - 1) \cup {list[k].sid}
    BY <2>1
  <2> HIDE DEF U
  <2>3. /\ h[k - 1] \in Seq(T) /\ h[k] = Merge(h[k - 1], list[k]) /\ list[k] \in T
        /\ OneSid(h[k - 1]) /\ SidsOf(h[k - 1]) = U(k - 1)
    BY <1>1, <1>2, <1>4, <2>1
  <2>4. OneSid(h[k]) /\ SidsOf(h[k]) = SidsOf(h[k - 1]) \cup {list[k].sid}
    BY <2>3, MergeOne
  <2> QED
    BY <2>1, <2>2, <2>3, <2>4
<1>5. \A k \in 0 .. n : k \in F
  <2>1. \A k \in 1 .. n : k - 1 \in F => k \in F
    BY <1>4
  <2> HIDE DEF F
  <2> QED
    BY <1>n, <1>3, <2>1, Onwards
<1>6. OneSid(h[n]) /\ SidsOf(h[n]) = U(n) /\ h[n] \in Seq(T)
  <2>1. n \in 0 .. n
    BY <1>n
  <2>2. n \in F
    <3> HIDE DEF F
    <3> QED
      BY <1>5, <2>1
  <2> QED
    BY <1>2, <2>1, <2>2
<1>7. U(n) = SidsOf(base) \cup SidsOf(list)
  BY <1>1 DEF SidsOf
<1> QED
  BY <1>2, <1>6, <1>7

\* The same of a row of a roster,
LEMMA RecordOne ==
    ASSUME NEW T, NEW m \in Seq(T), OneRow(m), NEW r \in T
    PROVE  OneRow(Record(m, r)) /\ RowIds(Record(m, r)) = RowIds(m) \cup {r.id}
<1>1. CASE \E i \in DOMAIN m : m[i].id = r.id
  <2>1. PICK x : x = Record(m, r)
    OBVIOUS
  <2>2. /\ DOMAIN x = DOMAIN m
        /\ \A i \in DOMAIN m : x[i] = IF m[i].id = r.id THEN r ELSE m[i]
    BY <1>1, <2>1 DEF Record
  <2>3. \A i \in DOMAIN m : x[i].id = m[i].id
    BY <2>2
  <2>4. OneRow(x) /\ RowIds(x) = RowIds(m) \cup {r.id}
    BY <1>1, <2>2, <2>3 DEF OneRow, RowIds
  <2> QED
    BY <2>1, <2>4
<1>2. CASE ~\E i \in DOMAIN m : m[i].id = r.id
  <2>1. PICK x : x = Record(m, r)
    OBVIOUS
  <2>2. x = Append(m, r)
    BY <1>2, <2>1 DEF Record
  <2>3. PICK n \in Nat : n = Len(m) /\ DOMAIN m = 1 .. n
    BY LenProperties
  <2>4. /\ DOMAIN x = 1 .. n + 1 /\ x[n + 1] = r /\ \A i \in 1 .. n : x[i] = m[i]
    <3>1. x \in Seq(T) /\ Len(x) = n + 1 /\ x[n + 1] = r /\ \A i \in 1 .. n : x[i] = m[i]
      BY <2>2, <2>3, AppendProperties
    <3> QED
      BY <3>1, LenProperties
  <2>5. /\ DOMAIN x = DOMAIN m \cup {n + 1} /\ n + 1 \notin DOMAIN m
        /\ \A i \in DOMAIN m : x[i] = m[i]
    BY <2>3, <2>4
  <2>6. OneRow(x) /\ RowIds(x) = RowIds(m) \cup {r.id}
    <3>1. \A i \in DOMAIN x : (i \in DOMAIN m /\ x[i] = m[i] /\ x[i].id # r.id)
                             \/ (i = n + 1 /\ x[i] = r)
      BY <1>2, <2>4, <2>5
    <3>2. OneRow(x)
      BY <2>5, <3>1 DEF OneRow
    <3>3. RowIds(x) = RowIds(m) \cup {r.id}
      <4>1. RowIds(x) \subseteq RowIds(m) \cup {r.id}
        BY <3>1 DEF RowIds
      <4>2. n + 1 \in DOMAIN x /\ x[n + 1].id = r.id
        BY <2>4, <2>5
      <4>3. RowIds(m) \cup {r.id} \subseteq RowIds(x)
        BY <2>5, <4>2 DEF RowIds
      <4> QED
        BY <4>1, <4>3
    <3> QED
      BY <3>2, <3>3
  <2> QED
    BY <2>1, <2>6
<1> QED
  BY <1>1, <1>2

\* ... and of a whole roster recorded.
LEMMA RecordAll ==
    ASSUME NEW T, NEW base \in Seq(T), OneRow(base), NEW list \in Seq(T)
    PROVE  /\ Recorded(base, list) \in Seq(T)
           /\ OneRow(Recorded(base, list))
           /\ RowIds(Recorded(base, list)) = RowIds(base) \cup RowIds(list)
<1>1. PICK n \in Nat : n = Len(list) /\ DOMAIN list = 1 .. n /\ \A i \in 1 .. n : list[i] \in T
  BY LenProperties
<1>n. n \in Nat
  BY <1>1
<1>a. PICK h : /\ h \in [0 .. Len(list) -> Seq(T)] /\ h[0] = base
               /\ \A k \in 1 .. Len(list) : h[k] = Record(h[k - 1], list[k])
               /\ Recorded(base, list) = h[Len(list)]
  BY RecordSteps
<1>2. /\ h \in [0 .. n -> Seq(T)] /\ h[0] = base
      /\ \A k \in 1 .. n : h[k] = Record(h[k - 1], list[k])
      /\ Recorded(base, list) = h[n]
  BY <1>1, <1>a
<1> DEFINE U(k) == RowIds(base) \cup {list[i].id : i \in 1 .. k}
           F == {k \in 0 .. n : OneRow(h[k]) /\ RowIds(h[k]) = U(k)}
<1>3. 0 \in F
  <2>1. U(0) = RowIds(base)
    OBVIOUS
  <2>2. h[0] = base /\ 0 \in 0 .. n
    BY <1>n, <1>2
  <2> HIDE DEF U
  <2> QED
    BY <2>1, <2>2
<1>4. ASSUME NEW k \in 1 .. n, k - 1 \in F PROVE k \in F
  <2>1. k - 1 \in 0 .. n /\ k \in 0 .. n /\ 1 .. k = (1 .. k - 1) \cup {k}
    OBVIOUS
  <2>2. U(k) = U(k - 1) \cup {list[k].id}
    BY <2>1
  <2> HIDE DEF U
  <2>3. /\ h[k - 1] \in Seq(T) /\ h[k] = Record(h[k - 1], list[k]) /\ list[k] \in T
        /\ OneRow(h[k - 1]) /\ RowIds(h[k - 1]) = U(k - 1)
    BY <1>1, <1>2, <1>4, <2>1
  <2>4. OneRow(h[k]) /\ RowIds(h[k]) = RowIds(h[k - 1]) \cup {list[k].id}
    BY <2>3, RecordOne
  <2> QED
    BY <2>1, <2>2, <2>3, <2>4
<1>5. \A k \in 0 .. n : k \in F
  <2>1. \A k \in 1 .. n : k - 1 \in F => k \in F
    BY <1>4
  <2> HIDE DEF F
  <2> QED
    BY <1>n, <1>3, <2>1, Onwards
<1>6. OneRow(h[n]) /\ RowIds(h[n]) = U(n) /\ h[n] \in Seq(T)
  <2>1. n \in 0 .. n
    BY <1>n
  <2>2. n \in F
    <3> HIDE DEF F
    <3> QED
      BY <1>5, <2>1
  <2> QED
    BY <1>2, <2>1, <2>2
<1>7. U(n) = RowIds(base) \cup RowIds(list)
  BY <1>1 DEF RowIds
<1> QED
  BY <1>2, <1>6, <1>7

\* A row held already is not added to a page; a row about nobody may be again.
LEMMA AddOne ==
    ASSUME NEW T, NEW m \in Seq(T), OneId(m), NEW r \in T
    PROVE  OneId(Add(m, r)) /\ IdsOf(Add(m, r)) = IdsOf(m) \cup ({r.id} \ {None})
<1>1. CASE Held(m, r)
  BY <1>1 DEF Add, Held, IdsOf
<1>2. CASE ~Held(m, r)
  <2>1. PICK x : x = Add(m, r)
    OBVIOUS
  <2>2. x = Append(m, r)
    BY <1>2, <2>1 DEF Add
  <2>3. PICK n \in Nat : n = Len(m) /\ DOMAIN m = 1 .. n
    BY LenProperties
  <2>4. /\ DOMAIN x = 1 .. n + 1 /\ x[n + 1] = r /\ \A i \in 1 .. n : x[i] = m[i]
    <3>1. x \in Seq(T) /\ Len(x) = n + 1 /\ x[n + 1] = r /\ \A i \in 1 .. n : x[i] = m[i]
      BY <2>2, <2>3, AppendProperties
    <3> QED
      BY <3>1, LenProperties
  <2>5. /\ DOMAIN x = DOMAIN m \cup {n + 1} /\ n + 1 \notin DOMAIN m
        /\ \A i \in DOMAIN m : x[i] = m[i]
    BY <2>3, <2>4
  <2>6. \A i \in DOMAIN m : m[i].id = r.id => r.id = None
    BY <1>2 DEF Held
  <2>7. OneId(x)
    BY <2>4, <2>5, <2>6 DEF OneId
  <2>8. IdsOf(x) = IdsOf(m) \cup ({r.id} \ {None})
    <3>1. {x[i].id : i \in DOMAIN x} \subseteq {m[i].id : i \in DOMAIN m} \cup {r.id}
      BY <2>4, <2>5
    <3>2. {m[i].id : i \in DOMAIN m} \subseteq {x[i].id : i \in DOMAIN x}
      BY <2>5
    <3>3. r.id \in {x[i].id : i \in DOMAIN x}
      BY <2>4, <2>5
    <3> QED
      BY <3>1, <3>2, <3>3 DEF IdsOf
  <2> QED
    BY <2>1, <2>7, <2>8
<1> QED
  BY <1>1, <1>2

\* So a page adds whom it lists.
LEMMA AddAll ==
    ASSUME NEW T, NEW base \in Seq(T), OneId(base), NEW list \in Seq(T)
    PROVE  /\ WithPage(base, list) \in Seq(T)
           /\ OneId(WithPage(base, list))
           /\ IdsOf(WithPage(base, list)) = IdsOf(base) \cup IdsOf(list)
<1>1. PICK n \in Nat : n = Len(list) /\ DOMAIN list = 1 .. n /\ \A i \in 1 .. n : list[i] \in T
  BY LenProperties
<1>n. n \in Nat
  BY <1>1
<1>a. PICK h : /\ h \in [0 .. Len(list) -> Seq(T)] /\ h[0] = base
               /\ \A k \in 1 .. Len(list) : h[k] = Add(h[k - 1], list[k])
               /\ WithPage(base, list) = h[Len(list)]
  BY AddSteps
<1>2. /\ h \in [0 .. n -> Seq(T)] /\ h[0] = base
      /\ \A k \in 1 .. n : h[k] = Add(h[k - 1], list[k])
      /\ WithPage(base, list) = h[n]
  BY <1>1, <1>a
<1> DEFINE U(k) == IdsOf(base) \cup ({list[i].id : i \in 1 .. k} \ {None})
           F == {k \in 0 .. n : OneId(h[k]) /\ IdsOf(h[k]) = U(k)}
<1>3. 0 \in F
  <2>1. U(0) = IdsOf(base)
    OBVIOUS
  <2>2. h[0] = base /\ 0 \in 0 .. n
    BY <1>n, <1>2
  <2> HIDE DEF U
  <2> QED
    BY <2>1, <2>2
<1>4. ASSUME NEW k \in 1 .. n, k - 1 \in F PROVE k \in F
  <2>1. k - 1 \in 0 .. n /\ k \in 0 .. n /\ 1 .. k = (1 .. k - 1) \cup {k}
    OBVIOUS
  <2>2. U(k) = U(k - 1) \cup ({list[k].id} \ {None})
    BY <2>1
  <2> HIDE DEF U
  <2>3. /\ h[k - 1] \in Seq(T) /\ h[k] = Add(h[k - 1], list[k]) /\ list[k] \in T
        /\ OneId(h[k - 1]) /\ IdsOf(h[k - 1]) = U(k - 1)
    BY <1>1, <1>2, <1>4, <2>1
  <2>4. OneId(h[k]) /\ IdsOf(h[k]) = IdsOf(h[k - 1]) \cup ({list[k].id} \ {None})
    BY <2>3, AddOne
  <2> QED
    BY <2>1, <2>2, <2>3, <2>4
<1>5. \A k \in 0 .. n : k \in F
  <2>1. \A k \in 1 .. n : k - 1 \in F => k \in F
    BY <1>4
  <2> HIDE DEF F
  <2> QED
    BY <1>n, <1>3, <2>1, Onwards
<1>6. OneId(h[n]) /\ IdsOf(h[n]) = U(n) /\ h[n] \in Seq(T)
  <2>1. n \in 0 .. n
    BY <1>n
  <2>2. n \in F
    <3> HIDE DEF F
    <3> QED
      BY <1>5, <2>1
  <2> QED
    BY <1>2, <2>1, <2>2
<1>7. U(n) = IdsOf(base) \cup IdsOf(list)
  BY <1>1 DEF IdsOf
<1> QED
  BY <1>2, <1>6, <1>7

-----------------------------------------------------------------------------
(* The pages of a roster *)

\* One more page of a roster.
PageOf(pages, k) == IF k \in DOMAIN pages THEN pages[k] ELSE <<>>
Turned(held, pages, k) ==
    IF ~held.more THEN held
    ELSE LET rows == WithPage(held.rows, PageOf(pages, k))
         IN  [rows |-> rows, more |-> k = 1 \/ Len(rows) > Len(held.rows)]
Unread == [rows |-> <<>>, more |-> TRUE]

\* Before anything is read.
LEMMA NothingRead ==
    ASSUME NEW T
    PROVE  <<>> \in Seq(T) /\ OneId(<<>>) /\ OneSid(<<>>) /\ OneRow(<<>>)
           /\ IdsOf(<<>>) = {} /\ SidsOf(<<>>) = {} /\ RowIds(<<>>) = {}
<1>1. <<>> \in Seq(T) /\ DOMAIN <<>> = {}
  BY EmptySeq
<1> QED
  BY <1>1 DEF OneId, OneSid, OneRow, IdsOf, SidsOf, RowIds

\* The pages are read one after the other.
LEMMA PagesSteps ==
    ASSUME NEW T, NEW pages \in Seq(Seq(T)), NEW pager \in Nat \cup {None}
    PROVE  \E h : /\ h \in [0 .. PageCount(pager) -> [rows : Seq(T), more : BOOLEAN]]
                  /\ h[0] = Unread
                  /\ \A k \in 1 .. PageCount(pager) : h[k] = Turned(h[k - 1], pages, k)
                  /\ RosterPages(pages, pager) = h[PageCount(pager)].rows
<1>1. PICK n \in Nat : n = PageCount(pager)
  <2>1. CASE pager = None
    BY <2>1 DEF PageCount
  <2>2. CASE pager # None
    BY <2>2, ClientAssumption DEF PageCount
  <2> QED
    BY <2>1, <2>2
<1>n. n \in Nat
  BY <1>1
<1>2. PICK X : X = [rows : Seq(T), more : BOOLEAN]
  OBVIOUS
<1>3. PICK base \in X : base = Unread
  <2>1. <<>> \in Seq(T)
    BY EmptySeq
  <2> QED
    BY <1>2, <2>1 DEF Unread
<1>4. \A k \in 1 .. n, x \in X : Turned(x, pages, k) \in X
  <2> TAKE k \in 1 .. n, x \in X
  <2>1. PageOf(pages, k) \in Seq(T)
    <3>1. DOMAIN pages = 1 .. Len(pages) /\ \A i \in DOMAIN pages : pages[i] \in Seq(T)
      BY LenProperties
    <3> QED
      BY <3>1, EmptySeq DEF PageOf
  <2>2. x.rows \in Seq(T)
    BY <1>2
  <2>3. PICK rows \in Seq(T) : rows = WithPage(x.rows, PageOf(pages, k))
    <3>1. PICK held \in Seq(T), page \in Seq(T) : held = x.rows /\ page = PageOf(pages, k)
      BY <2>1, <2>2
    <3>2. PICK h : h \in [0 .. Len(page) -> Seq(T)] /\ WithPage(held, page) = h[Len(page)]
      BY AddSteps
    <3>3. Len(page) \in 0 .. Len(page)
      BY LenProperties
    <3>4. WithPage(held, page) \in Seq(T)
      BY <3>2, <3>3
    <3> QED
      BY <3>1, <3>4
  <2>4. Turned(x, pages, k)
          = IF ~x.more THEN x ELSE [rows |-> rows, more |-> k = 1 \/ Len(rows) > Len(x.rows)]
    BY <2>3 DEF Turned
  <2>5. \A b \in BOOLEAN : [rows |-> rows, more |-> b] \in X
    BY <1>2, <2>3
  <2> QED
    BY <2>4, <2>5
<1> DEFINE St == [k \in 1 .. n |-> [x \in X |-> Turned(x, pages, k)]]
           P(f) == f = [k \in 0 .. n |-> IF k = 0 THEN Unread ELSE Turned(f[k - 1], pages, k)]
<1>5. RosterPages(pages, pager) = (CHOOSE f : P(f))[n].rows
  BY <1>1 DEF RosterPages, Turned, PageOf, Unread
<1>6. PICK h : Stepping(h, St, n, X, base)
  <2>1. Closed(St, n, X)
    BY <1>4 DEF Closed
  <2> HIDE DEF St
  <2> QED
    BY <1>n, <2>1, StepsExist
<1>7. P(h)
  <2>1. h \in [0 .. n -> X] /\ h[0] = Unread /\ \A k \in 1 .. n : h[k] = St[k][h[k - 1]]
    BY <1>3, <1>6 DEF Stepping
  <2>2. \A k \in 0 .. n : k # 0 => k \in 1 .. n /\ k - 1 \in 0 .. n
    BY <1>n
  <2>3. \A k \in 0 .. n : k # 0 => h[k] = Turned(h[k - 1], pages, k)
    BY <2>1, <2>2
  <2> HIDE DEF St
  <2> QED
    BY <2>1, <2>3
<1>8. PICK f : f = (CHOOSE g : P(g)) /\ P(f)
  <2>1. \E g : P(g)
    BY <1>7
  <2> HIDE DEF P
  <2> QED
    BY <2>1
<1>9. f[0] = Unread /\ \A k \in 1 .. n : f[k] = Turned(f[k - 1], pages, k)
  <2>1. 0 \in 0 .. n /\ \A k \in 1 .. n : k \in 0 .. n /\ k # 0
    BY <1>n
  <2> QED
    BY <1>8, <2>1
<1>10. \A k \in 0 .. n : f[k] \in X
  <2> DEFINE F == {k \in 0 .. n : f[k] \in X}
  <2>1. 0 \in F
    BY <1>n, <1>3, <1>9
  <2>2. \A k \in 1 .. n : k - 1 \in F => k \in F
    <3> TAKE k \in 1 .. n
    <3> HAVE k - 1 \in F
    <3>1. f[k - 1] \in X /\ k \in 0 .. n
      OBVIOUS
    <3> HIDE DEF P
    <3> QED
      BY <1>4, <1>9, <3>1
  <2>3. \A k \in 0 .. n : k \in F
    <3> HIDE DEF F
    <3> QED
      BY <1>n, <2>1, <2>2, Onwards
  <2> QED
    BY <2>3
<1>11. f \in [0 .. n -> X]
  <2>1. f = [k \in 0 .. n |-> f[k]]
    BY <1>8
  <2> HIDE DEF P
  <2> QED
    BY <1>10, <2>1
<1> HIDE DEF P
<1> QED
  BY <1>1, <1>2, <1>5, <1>8, <1>9, <1>11

\* What is read are rows, however many pages the pager claims.
LEMMA PagesRead ==
    ASSUME NEW T, NEW pages \in Seq(Seq(T)), NEW pager \in Nat \cup {None}
    PROVE  RosterPages(pages, pager) \in Seq(T)
<1>1. PICK h : /\ h \in [0 .. PageCount(pager) -> [rows : Seq(T), more : BOOLEAN]]
               /\ RosterPages(pages, pager) = h[PageCount(pager)].rows
  BY PagesSteps
<1>2. PageCount(pager) \in 0 .. PageCount(pager)
  <2>1. CASE pager = None
    BY <2>1 DEF PageCount
  <2>2. CASE pager # None
    BY <2>2, ClientAssumption DEF PageCount
  <2> QED
    BY <2>1, <2>2
<1>3. h[PageCount(pager)] \in [rows : Seq(T), more : BOOLEAN]
  BY <1>1, <1>2
<1> QED
  BY <1>1, <1>3

\* A roster that comes whole is the rows of its one page, a player once.
LEMMA OnePage ==
    ASSUME NEW T, NEW rows \in Seq(T)
    PROVE  RosterPages(<<rows>>, None) = WithPage(<<>>, rows)
<1>1. <<rows>> \in Seq(Seq(T)) /\ PageOf(<<rows>>, 1) = rows
  BY DEF PageOf
<1>2. PageCount(None) = 1
  BY DEF PageCount
<1>a. PICK pages \in Seq(Seq(T)), pager \in Nat \cup {None} : pages = <<rows>> /\ pager = None
  BY <1>1
<1>b. PICK h : /\ h[0] = Unread
               /\ \A k \in 1 .. PageCount(pager) : h[k] = Turned(h[k - 1], pages, k)
               /\ RosterPages(pages, pager) = h[PageCount(pager)].rows
  BY PagesSteps
<1>3. /\ h[0] = Unread /\ \A k \in 1 .. 1 : h[k] = Turned(h[k - 1], <<rows>>, k)
      /\ RosterPages(<<rows>>, None) = h[1].rows
  BY <1>2, <1>a, <1>b
<1>4. h[1] = Turned(Unread, <<rows>>, 1)
  <2>1. 1 \in 1 .. 1 /\ 1 - 1 = 0
    OBVIOUS
  <2> QED
    BY <1>3, <2>1
<1>5. Turned(Unread, <<rows>>, 1).rows = WithPage(<<>>, rows)
  BY <1>1 DEF Turned, Unread
<1> QED
  BY <1>3, <1>4, <1>5

-----------------------------------------------------------------------------
(* What is read of a roster *)

\* The rows that name a player.
LEMMA NamedIs ==
    ASSUME NEW T, NEW rows \in Seq(T)
    PROVE  /\ Named(rows) \in Seq({r \in T : r.id # None})
           /\ RowIds(Named(rows)) = IdsOf(rows)
           /\ OneId(rows) => OneRow(Named(rows))
<1> DEFINE S == {i \in DOMAIN rows : rows[i].id # None}
<1>1. Named(rows) = At(rows, S)
  BY DEF Named, Where
<1>2. S \in SUBSET DOMAIN rows
  OBVIOUS
<1>3. PICK at : /\ Enumerates(at, S) /\ At(rows, S) \in Seq(T)
                /\ DOMAIN At(rows, S) = DOMAIN at
                /\ \A i \in DOMAIN at : at[i] \in S /\ At(rows, S)[i] = rows[at[i]]
  <2> HIDE DEF S
  <2> QED
    BY <1>2, SelectionIs
<1>4. PICK x : x = Named(rows)
  OBVIOUS
<1>5. /\ x \in Seq(T) /\ DOMAIN x = DOMAIN at
      /\ \A i \in DOMAIN at : at[i] \in S /\ x[i] = rows[at[i]]
  BY <1>1, <1>3, <1>4
<1>6. x \in Seq({r \in T : r.id # None})
  <2>1. PICK n \in Nat : n = Len(x) /\ DOMAIN x = 1 .. n /\ \A i \in 1 .. n : x[i] \in T
    BY <1>5, LenProperties
  <2>2. \A i \in 1 .. n : x[i].id # None
    BY <1>5, <2>1
  <2>3. x \in [1 .. n -> {r \in T : r.id # None}]
    <3>1. x = [i \in 1 .. n |-> x[i]]
      BY <1>5, <2>1, LenProperties
    <3> QED
      BY <2>1, <2>2, <3>1
  <2> QED
    BY <2>1, <2>3, SeqDef
<1>7. RowIds(x) = IdsOf(rows)
  <2>1. RowIds(x) \subseteq IdsOf(rows)
    BY <1>5 DEF RowIds, IdsOf
  <2>2. IdsOf(rows) \subseteq RowIds(x)
    <3> SUFFICES ASSUME NEW k \in DOMAIN rows, rows[k].id # None PROVE rows[k].id \in RowIds(x)
      BY DEF IdsOf
    <3>1. PICK i \in DOMAIN at : at[i] = k
      BY <1>3 DEF Enumerates
    <3> QED
      BY <1>5, <3>1 DEF RowIds
  <2> QED
    BY <2>1, <2>2
<1>8. ASSUME OneId(rows) PROVE OneRow(x)
  <2> SUFFICES ASSUME NEW i \in DOMAIN x, NEW j \in DOMAIN x, x[i].id = x[j].id PROVE i = j
    BY DEF OneRow
  <2>1. at[i] \in S /\ at[j] \in S /\ rows[at[i]].id = rows[at[j]].id
    BY <1>5
  <2>2. at[i] = at[j]
    BY <1>8, <2>1 DEF OneId
  <2> QED
    BY <1>3, <1>5, <2>2 DEF Enumerates, Distinct
<1> QED
  BY <1>4, <1>6, <1>7, <1>8

\* A record of a roster keeps whom it had.
LEMMA RecordRosterIs ==
    ASSUME NEW T, NEW rows \in Seq(T), NEW N, N = {r \in T : r.id # None},
           NEW stored \in Seq(N), OneRow(stored)
    PROVE  /\ RecordRoster(stored, rows) \in Seq(N) /\ OneRow(RecordRoster(stored, rows))
           /\ RowIds(RecordRoster(stored, rows)) = RowIds(stored) \cup IdsOf(rows)
<1>1. RecordRoster(stored, rows) = Recorded(stored, Named(rows))
  BY DEF RecordRoster, Recorded, Record, FoldLeft
<1>2. Named(rows) \in Seq(N) /\ RowIds(Named(rows)) = IdsOf(rows)
  BY NamedIs
<1> QED
  BY <1>1, <1>2, RecordAll

\* The whole roster at once: every player on it, once.
LEMMA RosterLists ==
    ASSUME NEW T, NEW rows \in Seq(T), NEW whole, whole = RosterPages(<<rows>>, None)
    PROVE  /\ whole \in Seq(T) /\ Named(whole) \in Seq({r \in T : r.id # None})
           /\ OneRow(Named(whole)) /\ RowIds(Named(whole)) = IdsOf(rows)
<1>1. whole = WithPage(<<>>, rows)
  BY OnePage
<1>a. PICK none \in Seq(T) : none = <<>> /\ OneId(none) /\ IdsOf(none) = {}
  BY NothingRead
<1>2. whole \in Seq(T) /\ OneId(whole) /\ IdsOf(whole) = IdsOf(rows)
  <2>1. /\ WithPage(none, rows) \in Seq(T) /\ OneId(WithPage(none, rows))
        /\ IdsOf(WithPage(none, rows)) = IdsOf(none) \cup IdsOf(rows)
    <3>1. OneId(none)
      BY <1>a
    <3> QED
      BY <3>1, AddAll
  <2> QED
    BY <1>1, <1>a, <2>1
<1> QED
  BY <1>2, NamedIs

\* The players of a roster, those its rows name.
LEMMA PlayersList ==
    ASSUME NEW T, NEW whole \in Seq(T), NEW c
    PROVE  /\ GetPlayers(whole, c) \in Seq({Identity(r, c) : r \in T})
           /\ SidsOf(GetPlayers(whole, c)) = RowIds(Named(whole))
<1>1. PICK rows : rows = Named(whole)
  OBVIOUS
<1>2. rows \in Seq({r \in T : r.id # None})
  BY <1>1, NamedIs
<1>3. PICK n \in Nat : n = Len(rows) /\ DOMAIN rows = 1 .. n /\ \A i \in 1 .. n : rows[i] \in T
  BY <1>2, LenProperties
<1>4. PICK x : x = GetPlayers(whole, c)
  OBVIOUS
<1>5. x = [i \in 1 .. n |-> Identity(rows[i], c)]
  BY <1>1, <1>3, <1>4 DEF GetPlayers
<1>6. x \in [1 .. n -> {Identity(r, c) : r \in T}]
  BY <1>3, <1>5
<1>7. x \in Seq({Identity(r, c) : r \in T})
  BY <1>3, <1>6, SeqDef
<1>8. \A i \in 1 .. n : x[i].sid = rows[i].id
  BY <1>5 DEF Identity
<1>9. SidsOf(x) = RowIds(rows)
  BY <1>3, <1>5, <1>8 DEF SidsOf, RowIds
<1> QED
  BY <1>1, <1>4, <1>7, <1>9

\* The players with a record of the competition, and what is made of it.
Recordable(ids, details, c) == {p \in ids : GetPlayerStats(details[p], c) # None}
RecordOf(p, details, c) == [sid |-> p, comp |-> c, figures |-> GetPlayerStats(details[p], c)]

\* One record of each player of the roster that has one.
LEMMA StatsList ==
    ASSUME NEW T, NEW whole \in Seq(T), OneRow(Named(whole)), NEW details, NEW c
    PROVE  Enumerates(GetCompetitionStats(whole, details, c),
                      {RecordOf(p, details, c) : p \in Recordable(RowIds(Named(whole)), details, c)})
<1>1. PICK rows : rows = Named(whole)
  OBVIOUS
<1>2. rows \in Seq({r \in T : r.id # None})
  BY <1>1, NamedIs
<1> DEFINE S == {i \in DOMAIN rows : GetPlayerStats(details[rows[i].id], c) # None}
           E == {RecordOf(p, details, c) : p \in Recordable(RowIds(rows), details, c)}
<1>3. PICK at, ours : /\ Enumerates(at, S) /\ ours = At(rows, S) /\ ours \in Seq({r \in T : r.id # None})
                /\ DOMAIN ours = DOMAIN at
                /\ \A i \in DOMAIN at : at[i] \in S /\ ours[i] = rows[at[i]]
  <2>1. S \in SUBSET DOMAIN rows
    OBVIOUS
  <2> HIDE DEF S
  <2> QED
    BY <1>2, <2>1, SelectionIs
<1>4. PICK n \in Nat : n = Len(ours) /\ DOMAIN ours = 1 .. n
  BY <1>3, LenProperties
<1>5. PICK x : x = GetCompetitionStats(whole, details, c)
  OBVIOUS
<1>6. x = [i \in 1 .. n |-> [sid |-> ours[i].id, comp |-> c,
                             figures |-> GetPlayerStats(details[ours[i].id], c)]]
  BY <1>1, <1>3, <1>4, <1>5 DEF GetCompetitionStats, Where
<1>7. \A i \in 1 .. n : x[i] = RecordOf(ours[i].id, details, c)
                        /\ ours[i].id \in Recordable(RowIds(rows), details, c)
  <2> TAKE i \in 1 .. n
  <2>1. ours[i] = rows[at[i]] /\ at[i] \in S
    BY <1>3, <1>4
  <2>2. ours[i].id \in Recordable(RowIds(rows), details, c)
    BY <2>1 DEF Recordable, RowIds
  <2> QED
    BY <1>6, <2>2 DEF RecordOf
<1>8. x \in Seq(E) /\ DOMAIN x = 1 .. n
  <2>1. x \in [1 .. n -> E]
    BY <1>6, <1>7
  <2> QED
    BY <1>4, <1>6, <2>1, SeqDef
<1>9. Distinct(x)
  <2> SUFFICES ASSUME NEW i \in 1 .. n, NEW j \in 1 .. n, x[i] = x[j] PROVE i = j
    BY <1>8 DEF Distinct
  <2>0. \A p : RecordOf(p, details, c).sid = p
    BY DEF RecordOf
  <2>1. x[i].sid = ours[i].id /\ x[j].sid = ours[j].id
    BY <1>7, <2>0
  <2>2. ours[i].id = ours[j].id
    BY <2>1
  <2>3. at[i] \in DOMAIN rows /\ at[j] \in DOMAIN rows /\ rows[at[i]].id = rows[at[j]].id
    BY <1>3, <1>4, <2>2
  <2>4. at[i] = at[j]
    BY <1>1, <2>3 DEF OneRow
  <2> QED
    BY <1>3, <1>4, <2>4 DEF Enumerates, Distinct
<1>10. \A e \in E : \E i \in DOMAIN x : x[i] = e
  <2> TAKE e \in E
  <2>1. PICK k \in DOMAIN rows : e = RecordOf(rows[k].id, details, c)
                                 /\ GetPlayerStats(details[rows[k].id], c) # None
    BY DEF Recordable, RowIds
  <2>2. k \in S
    BY <2>1
  <2>3. PICK i \in DOMAIN at : at[i] = k
    BY <1>3, <2>2 DEF Enumerates
  <2>4. i \in 1 .. n /\ ours[i].id = rows[k].id
    BY <1>3, <1>4, <2>3
  <2> QED
    BY <1>7, <1>8, <2>1, <2>4
<1> QED
  BY <1>1, <1>5, <1>8, <1>9, <1>10 DEF Enumerates

-----------------------------------------------------------------------------
(* What the files hold *)

ListedRows ==
    {row \in UNION {Range(rows) : rows \in UNION {Rosters[c] : c \in Comp}} :
        row.id \in Player \cup {None}}
KnownRows == {row \in ListedRows : row.id # None}

HeaderLines == {HeaderLine(rows) : rows \in Seq(ListedRows)}
PlayerLines ==
    UNION {{[kind |-> "player", player |-> p, details |-> [c \in S |-> FiguresOf[p][c]]] :
                S \in SUBSET Comp} : p \in Player}
FileLines == HeaderLines \cup PlayerLines
Members == [closed : BOOLEAN, lines : Seq(FileLines)]

\* The open file: its lines, the places still to be fetched, the players done.
OpenTyped ==
    /\ DOMAIN run = OpenFields /\ run.comp \in Comp /\ run.todo \in Seq(Comp)
    /\ run.lines \in Seq(FileLines) /\ run.flushed \in 0 .. Len(run.lines)
    /\ run.left \in Seq(DOMAIN roster[run.comp])
    /\ run.done \subseteq RowIds(roster[run.comp])

\* The files hold rows of rosters and lines about players; nobody is done who is
\* not expected; what is finished has a file, and a generation that is complete
\* has every competition finished.
FetchTyped ==
    /\ offered \in [Comp -> Seq(ListedRows)] /\ appeared \in [Player -> SUBSET Comp]
    /\ snapshot \in [Comp -> Seq(Members)]
    /\ roster \in [Comp -> Seq(KnownRows)] /\ \A c \in Comp : OneRow(roster[c])
    /\ DOMAIN progress = Comp /\ \A c \in Comp : progress[c] \subseteq RowIds(roster[c])
    /\ finished \subseteq Comp /\ \A c \in finished : snapshot[c] # <<>>
    /\ run.at = "between" => run.todo \in Seq(Comp)
    /\ run.at = "complete" => finished = Comp
    /\ run.at = "open" => OpenTyped

\* A roster the provider offers is a list of such rows.
LEMMA RostersAreListed ==
    ASSUME NEW c \in Comp, NEW rows \in Rosters[c]
    PROVE  rows \in Seq(ListedRows)
<1>1. rows \in Seq({row \in Range(rows) : row.id \in Player \cup {None}})
  BY RosterAssumption
<1>2. {row \in Range(rows) : row.id \in Player \cup {None}} \subseteq ListedRows
  BY DEF ListedRows
<1> QED
  BY <1>1, <1>2, SeqMonotonic

\* Its pages are lists of them too, though it changes between the first and the second.
LEMMA PagedTyped ==
    ASSUME NEW T, NEW before \in Seq(T), NEW after \in Seq(T)
    PROVE  Paged(before, after) \in Seq(Seq(T)) /\ Len(Paged(before, after)) \in Nat
<1> DEFINE rows(k) == IF k = 1 THEN before ELSE after
           upto(k) == IF k * PageSize < Len(rows(k)) THEN k * PageSize ELSE Len(rows(k))
           page(k) == SubSeq(rows(k), (k - 1) * PageSize + 1, upto(k))
<1>1. PICK P : P = (Len(before) + PageSize - 1) \div PageSize
  OBVIOUS
<1>2. P \in Nat
  <2>1. Len(before) \in Nat /\ PageSize \in Nat \ {0}
    BY LenProperties, FetchAssumption
  <2>2. PICK a \in Nat, b \in Nat \ {0} : a = Len(before) + PageSize - 1 /\ b = PageSize
    BY <2>1
  <2>3. a \div b \in Nat
    BY <2>2
  <2> QED
    BY <1>1, <2>2, <2>3
<1>3. ASSUME NEW k \in 1 .. P PROVE page(k) \in Seq(T)
  <2>1. PICK x \in Seq(T) : x = rows(k)
    OBVIOUS
  <2>2. Len(x) \in Nat /\ \A i \in 1 .. Len(x) : x[i] \in T
    BY LenProperties
  <2>3. PICK a \in Nat, b \in Nat : a = (k - 1) * PageSize /\ b = k * PageSize
    <3>1. k \in Nat /\ k - 1 \in Nat /\ PageSize \in Nat
      BY FetchAssumption, <1>2
    <3> QED
      BY <3>1
  <2>4. PICK m \in Int, n \in Int : m = a + 1 /\ n = upto(k) /\ n <= Len(x)
    <3>1. upto(k) = IF b < Len(x) THEN b ELSE Len(x)
      BY <2>1, <2>3
    <3> HIDE DEF upto
    <3> QED
      BY <2>2, <2>3, <3>1
  <2>5. \A i \in m .. n : x[i] \in T
    BY <2>2, <2>4
  <2>6. SubSeq(x, m, n) \in Seq(T)
    BY <2>5, SubSeqProperties
  <2> QED
    BY <2>1, <2>3, <2>4, <2>6
<1> HIDE DEF page
<1>4. [k \in 1 .. P |-> page(k)] \in [1 .. P -> Seq(T)]
  BY <1>3
<1>5. [k \in 1 .. P |-> page(k)] \in Seq(Seq(T))
  BY <1>2, <1>4, SeqDef
<1>6. Paged(before, after) = [k \in 1 .. P |-> page(k)]
  BY <1>1 DEF Paged, page
<1> QED
  BY <1>5, <1>6, LenProperties

\* And so is what is read of the pages.
LEMMA RosterFetched ==
    ASSUME NEW T, NEW before \in Seq(T), NEW after \in Seq(T), NEW pages, pages = Paged(before, after)
    PROVE  RosterPages(pages, Len(pages)) \in Seq(T)
BY PagedTyped, PagesRead

LeftOf(merged, done) == Where([i \in DOMAIN merged |-> i], LAMBDA i : merged[i].id \notin done)

\* What is left to be fetched are places of the roster.
LEMMA PlacesLeft ==
    ASSUME NEW T, NEW merged \in Seq(T), NEW done
    PROVE  LeftOf(merged, done) \in Seq(DOMAIN merged)
<1>1. PICK places : places = [i \in DOMAIN merged |-> i]
  OBVIOUS
<1>2. places \in Seq(DOMAIN merged)
  <2>1. PICK n \in Nat : n = Len(merged) /\ DOMAIN merged = 1 .. n
    BY LenProperties
  <2>2. places \in [1 .. n -> DOMAIN merged]
    BY <1>1, <2>1
  <2> QED
    BY <2>1, <2>2, SeqDef
<1>3. \A S \in SUBSET DOMAIN places : At(places, S) \in Seq(DOMAIN merged)
  BY <1>2, SelectionHolds
<1> DEFINE S == {k \in DOMAIN places : merged[places[k]].id \notin done}
<1>4. LeftOf(merged, done) = At(places, S)
  BY <1>1 DEF Where, LeftOf
<1>5. At(places, S) \in Seq(DOMAIN merged)
  BY <1>3
<1> QED
  BY <1>1, <1>4, <1>5

\* A file opened.
LEMMA OpenIsTyped ==
    ASSUME FetchTyped, NEW c \in Comp, run.at = "between", run.todo # <<>>, c = Head(run.todo),
           NEW rows \in Seq(ListedRows), NEW listed, Open(c, rows, listed),
           UNCHANGED <<snapshot, progress, finished>>, offered' \in [Comp -> Seq(ListedRows)],
           appeared' \in [Player -> SUBSET Comp]
    PROVE  FetchTyped'
<1>1. PICK merged : merged = RecordRoster(roster[c], rows)
  OBVIOUS
<1>2. PICK header : header = IF snapshot[c] = <<>> THEN <<HeaderLine(rows)>> ELSE <<>>
  OBVIOUS
<1>3. /\ roster' = [roster EXCEPT ![c] = merged]
      /\ run' = [at |-> "open", comp |-> c, todo |-> Tail(run.todo),
                 left |-> LeftOf(merged, ReadProgress(c)),
                 done |-> ReadProgress(c), lines |-> header, flushed |-> 0, refused |-> FALSE]
  BY <1>1, <1>2 DEF Open, LeftOf
<1>4. merged \in Seq(KnownRows) /\ OneRow(merged) /\ RowIds(roster[c]) \subseteq RowIds(merged)
  <2>1. roster[c] \in Seq(KnownRows) /\ OneRow(roster[c])
    BY DEF FetchTyped
  <2>2. KnownRows = {r \in ListedRows : r.id # None}
    BY DEF KnownRows
  <2> QED
    BY <1>1, <2>1, <2>2, RecordRosterIs
<1>5. /\ roster' \in [Comp -> Seq(KnownRows)] /\ roster'[c] = merged
      /\ \A d \in Comp : d # c => roster'[d] = roster[d]
  BY <1>3, <1>4 DEF FetchTyped
<1>6. \A d \in Comp : OneRow(roster'[d]) /\ progress'[d] \subseteq RowIds(roster'[d])
  BY <1>4, <1>5 DEF FetchTyped
<1>7. header \in Seq(FileLines) /\ Len(header) \in Nat
  <2>1. HeaderLine(rows) \in FileLines
    BY DEF FileLines, HeaderLines
  <2>2. <<HeaderLine(rows)>> \in Seq(FileLines) /\ <<>> \in Seq(FileLines)
    BY <2>1, EmptySeq
  <2>3. header \in Seq(FileLines)
    BY <1>2, <2>2
  <2> QED
    BY <2>3, LenProperties
<1>8. run.todo \in Seq(Comp)
  BY DEF FetchTyped
<1>9. Tail(run.todo) \in Seq(Comp)
  BY <1>8, HeadTailProperties
<1>10. ReadProgress(c) \subseteq RowIds(merged)
  BY <1>4 DEF ReadProgress, FetchTyped
<1>11. PICK left \in Seq(DOMAIN merged) : left = LeftOf(merged, ReadProgress(c))
  BY <1>4, PlacesLeft
<1>12. run' = [at |-> "open", comp |-> c, todo |-> Tail(run.todo), left |-> left,
               done |-> ReadProgress(c), lines |-> header, flushed |-> 0, refused |-> FALSE]
  BY <1>3, <1>11
<1>13. /\ DOMAIN run' = OpenFields /\ run'.at = "open" /\ run'.comp = c
       /\ run'.todo = Tail(run.todo) /\ run'.left = left /\ run'.done = ReadProgress(c)
       /\ run'.lines = header /\ run'.flushed = 0
  BY <1>12 DEF OpenFields
<1>14. OpenTyped'
  BY <1>5, <1>7, <1>9, <1>10, <1>13 DEF OpenTyped
<1> QED
  BY <1>5, <1>6, <1>13, <1>14 DEF FetchTyped

-----------------------------------------------------------------------------
(* The files, step by step *)

\* Steps that touch neither the files nor an open run.
LEMMA AwayTyped ==
    ASSUME FetchTyped, UNCHANGED <<snapshot, progress, roster>>,
           offered' \in [Comp -> Seq(ListedRows)], appeared' \in [Player -> SUBSET Comp],
           finished' \subseteq finished,
           \/ UNCHANGED <<run, finished>>
           \/ /\ run'.at # "open" /\ (run'.at = "between" => run'.todo \in Seq(Comp))
              /\ run'.at = "complete" => finished' = Comp
    PROVE  FetchTyped'
<1>1. /\ finished' \subseteq Comp /\ \A c \in finished' : snapshot'[c] # <<>>
  BY DEF FetchTyped
<1>2. CASE UNCHANGED <<run, finished>>
  <2>1. run'.at = "open" => OpenTyped'
    BY <1>2 DEF FetchTyped, OpenTyped
  <2> QED
    BY <1>1, <1>2, <2>1 DEF FetchTyped
<1>3. CASE /\ run'.at # "open" /\ (run'.at = "between" => run'.todo \in Seq(Comp))
           /\ run'.at = "complete" => finished' = Comp
  BY <1>1, <1>3 DEF FetchTyped
<1> QED
  BY <1>2, <1>3

\* The provider has a record of whoever it lists.
LEMMA SeenTyped ==
    ASSUME FetchTyped, NEW c \in Comp, NEW now
    PROVE  [p \in Player |-> appeared[p] \cup IF p \in IdsOf(now) THEN {c} ELSE {}]
             \in [Player -> SUBSET Comp]
BY DEF FetchTyped

\* Opening a competition's file leaves it open.
LEMMA Opens ==
    ASSUME NEW c, NEW rows, NEW listed, Open(c, rows, listed)
    PROVE  run'.at = "open"
BY DEF Open

\* A competition visited: its file opened, or passed over.
LEMMA VisitTyped ==
    ASSUME FetchTyped, Visit
    PROVE  FetchTyped'
<1>1. /\ run.at = "between" /\ run.todo # <<>> /\ run.todo \in Seq(Comp)
      /\ UNCHANGED <<snapshot, progress>>
  BY DEF FetchTyped, Visit
<1>2. PICK c \in Comp : c = Head(run.todo)
  BY <1>1, HeadTailProperties
<1>3. PICK todo \in Seq(Comp) : todo = Tail(run.todo)
  BY <1>1, HeadTailProperties
<1>4. CASE \E now, listed :
            /\ now \in Rosters[c] \cup {offered[c]}
            /\ Open(c, RosterPages(Paged(offered[c], now), Len(Paged(offered[c], now))), listed)
            /\ offered' = [offered EXCEPT ![c] = now]
            /\ appeared' = [p \in Player |-> appeared[p] \cup IF p \in IdsOf(now) THEN {c} ELSE {}]
            /\ UNCHANGED finished
  <2>1. PICK now, listed, pages, rows :
            /\ now \in Rosters[c] \cup {offered[c]}
            /\ pages = Paged(offered[c], now) /\ rows = RosterPages(pages, Len(pages))
            /\ Open(c, rows, listed)
            /\ offered' = [offered EXCEPT ![c] = now]
            /\ appeared' = [p \in Player |-> appeared[p] \cup IF p \in IdsOf(now) THEN {c} ELSE {}]
            /\ UNCHANGED finished
    BY <1>4
  <2>2. PICK before \in Seq(ListedRows) : before = offered[c]
    BY <1>2 DEF FetchTyped
  <2>3. now \in Seq(ListedRows)
    BY <1>2, <2>1, <2>2, RostersAreListed
  <2>4. rows \in Seq(ListedRows)
    BY <2>1, <2>2, <2>3, RosterFetched
  <2>5. offered' \in [Comp -> Seq(ListedRows)]
    BY <2>1, <2>3 DEF FetchTyped
  <2>6. appeared' \in [Player -> SUBSET Comp]
    BY <1>2, <2>1, SeenTyped
  <2> QED
    BY <1>1, <1>2, <2>1, <2>4, <2>5, <2>6, OpenIsTyped
<1>5. CASE /\ run' = Between(todo) \/ run' = [at |-> "failed"]
           /\ finished' = Marked(c, FALSE) /\ UNCHANGED <<offered, appeared, roster>>
  <2>1. run'.at # "open" /\ run'.at # "complete" /\ (run'.at = "between" => run'.todo \in Seq(Comp))
    <3>1. CASE run' = Between(todo)
      BY <1>3, <3>1 DEF Between
    <3>2. CASE run' = [at |-> "failed"]
      BY <3>2
    <3> QED
      BY <1>5, <3>1, <3>2
  <2>2. finished' \subseteq finished
    BY <1>5 DEF Marked
  <2>3. offered' \in [Comp -> Seq(ListedRows)] /\ appeared' \in [Player -> SUBSET Comp]
    BY <1>5 DEF FetchTyped
  <2>4. UNCHANGED <<snapshot, progress, roster>>
    BY <1>1, <1>5
  <2> QED
    BY <2>1, <2>2, <2>3, <2>4, AwayTyped
<1>6. CASE run'.at = "open"
  <2>1. ~(run' = Between(Tail(run.todo))) /\ ~(run' = [at |-> "failed"])
    BY <1>6 DEF Between
  <2>2. PICK d : d = Head(run.todo)
    OBVIOUS
  <2>3. PICK now \in IF moves < MaxMoves THEN Rosters[d] ELSE {offered[d]},
             listed \in {ListedClubs[d]} \cup IF "miss" \in Faults THEN {None} ELSE {} :
            /\ Open(d, RosterPages(Paged(offered[d], now), Len(Paged(offered[d], now))), listed)
            /\ offered' = [offered EXCEPT ![d] = now]
            /\ moves' = IF now = offered[d] THEN moves ELSE moves + 1
            /\ appeared' = [p \in Player |-> appeared[p] \cup
                                IF p \in IdsOf(now) THEN {d} ELSE {}]
            /\ UNCHANGED finished
    BY <2>1, <2>2 DEF Visit
  <2>4. d = c
    BY <1>2, <2>2
  <2>5. now \in Rosters[c] \cup {offered[c]}
    BY <2>3, <2>4
  <2> QED
    BY <1>4, <2>3, <2>4, <2>5
<1>7. CASE run'.at # "open"
  <2>1. \/ /\ run' = Between(Tail(run.todo)) \/ run' = [at |-> "failed"]
          /\ finished' = Marked(Head(run.todo), FALSE) /\ UNCHANGED <<offered, appeared, roster>>
    BY <1>7, Opens DEF Visit
  <2>2. /\ run' = Between(todo) \/ run' = [at |-> "failed"]
        /\ finished' = Marked(c, FALSE) /\ UNCHANGED <<offered, appeared, roster>>
    BY <1>2, <1>3, <2>1
  <2> QED
    BY <1>5, <2>2
<1> QED
  BY <1>6, <1>7

\* A line about a player of the roster, appended to the open file.
LEMMA LineTyped ==
    ASSUME FetchTyped, NEW p \in Player
    PROVE  PlayerLine(p) \in FileLines
<1>1. PICK S \in SUBSET Comp : S = appeared[p]
  BY DEF FetchTyped
<1>2. PlayerLine(p) = [kind |-> "player", player |-> p, details |-> [c \in S |-> FiguresOf[p][c]]]
  BY <1>1 DEF PlayerLine, Details
<1> QED
  <2>1. PlayerLine(p) \in {[kind |-> "player", player |-> p, details |-> [c \in T |-> FiguresOf[p][c]]] :
                              T \in SUBSET Comp}
    BY <1>2
  <2> QED
    BY <2>1 DEF FileLines, PlayerLines

\* A player fetched, or missed.
LEMMA PlayerTyped ==
    ASSUME FetchTyped, FetchPlayer
    PROVE  FetchTyped'
<1>1. /\ run.at = "open" /\ run.left # <<>> /\ OpenTyped
      /\ UNCHANGED <<offered, appeared, snapshot, roster, finished>>
  BY DEF FetchTyped, FetchPlayer
<1>2. PICK c \in Comp : c = run.comp
  BY <1>1 DEF OpenTyped
<1>3. PICK rows \in Seq(KnownRows) : rows = roster[c]
  BY DEF FetchTyped
<1>4. PICK left \in Seq(DOMAIN rows) : left = run.left
  BY <1>1, <1>2, <1>3 DEF OpenTyped
<1>5. PICK i \in DOMAIN rows : i = Head(left)
  BY <1>1, <1>4, HeadTailProperties
<1>6. PICK p \in Player : p = rows[i].id /\ p \in RowIds(rows)
  <2>1. rows[i] \in KnownRows
    BY <1>5, LenProperties
  <2> QED
    BY <1>5, <2>1 DEF KnownRows, ListedRows, RowIds
<1>7. PICK lines \in Seq(FileLines) : lines = run.lines
  BY <1>1 DEF OpenTyped
<1>8. PICK more \in Seq(FileLines) : more = Append(lines, PlayerLine(p)) /\ Len(more) = Len(lines) + 1
  <2>1. PICK line \in FileLines : line = PlayerLine(p)
    BY LineTyped
  <2>2. Append(lines, line) \in Seq(FileLines) /\ Len(Append(lines, line)) = Len(lines) + 1
    BY AppendProperties
  <2> QED
    BY <2>1, <2>2
<1>9. Len(lines) \in Nat /\ Len(more) \in Nat
  BY <1>7, <1>8, LenProperties
<1>10. PICK later \in Seq(DOMAIN rows) : later = Tail(left)
  BY <1>1, <1>4, HeadTailProperties
<1>11. PICK done : done = run.done \cup {p} /\ done \subseteq RowIds(rows)
  BY <1>1, <1>2, <1>3, <1>6 DEF OpenTyped
<1>12. /\ DOMAIN run' = OpenFields /\ run'.at = "open" /\ run'.comp = c /\ run'.todo = run.todo
       /\ run'.left \in {left, later} /\ run'.done \in {run.done, done}
       /\ \/ run'.lines = lines /\ run'.flushed = run.flushed
          \/ run'.lines = more /\ run'.flushed \in {run.flushed, Len(more)}
  <2>1. \/ run' = [run EXCEPT !.left = later, !.done = done, !.lines = more, !.flushed = Len(more)]
        \/ run' = [run EXCEPT !.left = later, !.done = done, !.lines = more]
        \/ run' = [run EXCEPT !.left = later]
        \/ run' = [run EXCEPT !.refused = TRUE]
    <3>1. \E flush \in BOOLEAN :
              \/ run' = [run EXCEPT !.left = later, !.done = done, !.lines = more,
                                    !.flushed = IF flush THEN Len(more) ELSE @]
              \/ run' = [run EXCEPT !.left = later]
              \/ run' = [run EXCEPT !.refused = TRUE]
      BY <1>2, <1>3, <1>4, <1>5, <1>6, <1>7, <1>8, <1>10, <1>11 DEF FetchPlayer
    <3>2. DOMAIN run = OpenFields
      BY <1>1 DEF OpenTyped
    <3> QED
      BY <3>1, <3>2 DEF OpenFields
  <2>2. DOMAIN run = OpenFields
    BY <1>1 DEF OpenTyped
  <2> QED
    BY <1>1, <1>2, <1>4, <1>7, <2>1, <2>2 DEF OpenFields
<1>13. progress' = progress \/ progress' = [progress EXCEPT ![c] = done]
  BY <1>2, <1>3, <1>4, <1>5, <1>6, <1>11 DEF FetchPlayer
<1>14. DOMAIN progress' = Comp /\ \A d \in Comp : progress'[d] \subseteq RowIds(roster'[d])
  <2>1. DOMAIN progress = Comp /\ \A d \in Comp : progress[d] \subseteq RowIds(roster[d])
    BY DEF FetchTyped
  <2>2. roster' = roster
    BY <1>1
  <2>3. CASE progress' = progress
    BY <2>1, <2>2, <2>3
  <2>4. CASE progress' = [progress EXCEPT ![c] = done]
    <3>1. DOMAIN progress' = Comp
      BY <2>1, <2>4
    <3>2. \A d \in Comp : progress'[d] = IF d = c THEN done ELSE progress[d]
      BY <2>1, <2>4
    <3>3. done \subseteq RowIds(roster[c])
      BY <1>3, <1>11
    <3> QED
      BY <2>1, <2>2, <3>1, <3>2, <3>3
  <2> QED
    BY <1>13, <2>3, <2>4
<1>15. run.flushed \in 0 .. Len(lines) /\ run.todo \in Seq(Comp) /\ run.done \subseteq RowIds(rows)
  BY <1>1, <1>2, <1>3, <1>7 DEF OpenTyped
<1>16. OpenTyped'
  <2>1. run'.lines \in Seq(FileLines) /\ run'.flushed \in 0 .. Len(run'.lines)
    <3>1. PICK f \in Nat, n \in Nat : f = run.flushed /\ n = Len(lines) /\ f <= n
      BY <1>9, <1>15
    <3>2. CASE run'.lines = lines /\ run'.flushed = run.flushed
      BY <1>7, <1>15, <3>2
    <3>3. CASE run'.lines = more /\ run'.flushed \in {run.flushed, Len(more)}
      <4>1. Len(more) = n + 1 /\ run'.flushed \in {f, n + 1}
        BY <1>8, <3>1, <3>3
      <4>2. run'.flushed \in 0 .. Len(more)
        BY <3>1, <4>1
      <4> QED
        BY <1>8, <3>3, <4>2
    <3> QED
      BY <1>12, <3>2, <3>3
  <2>2. run'.left \in Seq(DOMAIN rows) /\ run'.done \subseteq RowIds(rows)
    BY <1>4, <1>10, <1>11, <1>12, <1>15
  <2>3. roster'[c] = rows
    BY <1>1, <1>3
  <2> QED
    BY <1>12, <1>15, <2>1, <2>2, <2>3 DEF OpenTyped
<1> QED
  BY <1>1, <1>12, <1>14, <1>16 DEF FetchTyped

\* A member added to a file.
LEMMA MembersTyped ==
    ASSUME FetchTyped, NEW c \in Comp, NEW closed \in BOOLEAN, NEW lines \in Seq(FileLines),
           snapshot' = [snapshot EXCEPT ![c] = Append(@, Member(closed, lines))]
    PROVE  /\ snapshot' \in [Comp -> Seq(Members)] /\ snapshot'[c] # <<>>
           /\ \A d \in Comp : d # c => snapshot'[d] = snapshot[d]
<1>1. PICK file \in Seq(Members) : file = snapshot[c]
  BY DEF FetchTyped
<1>2. PICK member \in Members : member = Member(closed, lines)
  BY DEF Member, Members
<1>3. Append(file, member) \in Seq(Members) /\ Append(file, member) # <<>>
  BY AppendProperties
<1>4. snapshot' = [snapshot EXCEPT ![c] = Append(file, member)]
  BY <1>1, <1>2
<1> QED
  BY <1>3, <1>4 DEF FetchTyped

\* A file closed: what is left out of it stays expected.
LEMMA CloseTyped ==
    ASSUME FetchTyped, Close
    PROVE  FetchTyped'
<1>1. /\ run.at = "open" /\ OpenTyped /\ UNCHANGED <<offered, appeared, roster>>
  BY DEF FetchTyped, Close
<1>2. PICK c \in Comp : c = run.comp
  BY <1>1 DEF OpenTyped
<1>3. PICK lines \in Seq(FileLines) : lines = run.lines
  BY <1>1 DEF OpenTyped
<1>4. /\ snapshot' = [snapshot EXCEPT ![c] = Append(@, Member(TRUE, lines))]
      /\ progress' = [progress EXCEPT ![c] = run.done]
      /\ \E whole : finished' = Marked(c, whole)
      /\ \/ run' = [at |-> "failed"] \/ run' = Between(run.todo) \/ run' = Between(<<>>)
  BY <1>2, <1>3 DEF Close
<1>5. /\ snapshot' \in [Comp -> Seq(Members)] /\ snapshot'[c] # <<>>
      /\ \A d \in Comp : d # c => snapshot'[d] = snapshot[d]
  <2>1. TRUE \in BOOLEAN
    OBVIOUS
  <2> QED
    BY <1>4, <2>1, MembersTyped
<1>6. finished' \subseteq Comp /\ \A d \in finished' : snapshot'[d] # <<>>
  BY <1>2, <1>4, <1>5 DEF FetchTyped, Marked
<1>7. DOMAIN progress' = Comp /\ \A d \in Comp : progress'[d] \subseteq RowIds(roster'[d])
  BY <1>1, <1>2, <1>4 DEF FetchTyped, OpenTyped
<1>8. run'.at # "open" /\ run'.at # "complete" /\ (run'.at = "between" => run'.todo \in Seq(Comp))
  <2>1. PICK none \in Seq(Comp) : none = <<>>
    BY EmptySeq
  <2>2. PICK todo \in Seq(Comp) : todo = run.todo
    BY <1>1 DEF OpenTyped
  <2>3. run' = [at |-> "failed"] \/ run' = Between(todo) \/ run' = Between(none)
    BY <1>4, <2>1, <2>2
  <2> QED
    BY <2>3 DEF Between
<1> QED
  BY <1>1, <1>5, <1>6, <1>7, <1>8 DEF FetchTyped

\* A run killed with a file open.
LEMMA KillTyped ==
    ASSUME FetchTyped, Kill
    PROVE  FetchTyped'
<1>1. /\ run.at = "open" /\ OpenTyped /\ run'.at = "idle"
      /\ UNCHANGED <<offered, appeared, progress, roster, finished>>
  BY DEF FetchTyped, Kill, Idle
<1>2. PICK c \in Comp : c = run.comp
  BY <1>1 DEF OpenTyped
<1>3. PICK lines \in Seq(FileLines) : lines = run.lines
  BY <1>1 DEF OpenTyped
<1>4. PICK n \in run.flushed .. Len(lines) :
          snapshot' = [snapshot EXCEPT ![c] = Append(@, Member(FALSE, SubSeq(lines, 1, n)))]
  BY <1>2, <1>3 DEF Kill
<1>5. n \in Int /\ n <= Len(lines) /\ Len(lines) \in Nat
  BY <1>1, <1>3, <1>4, LenProperties DEF OpenTyped
<1>6. PICK kept \in Seq(FileLines) : kept = SubSeq(lines, 1, n)
  <2>1. \A i \in 1 .. n : lines[i] \in FileLines
    BY <1>5, LenProperties
  <2>2. SubSeq(lines, 1, n) \in Seq(FileLines)
    BY <1>5, <2>1, SubSeqProperties
  <2> QED
    BY <2>2
<1>7. /\ snapshot' \in [Comp -> Seq(Members)] /\ snapshot'[c] # <<>>
      /\ \A d \in Comp : d # c => snapshot'[d] = snapshot[d]
  <2>1. FALSE \in BOOLEAN
    OBVIOUS
  <2> QED
    BY <1>4, <1>6, <2>1, MembersTyped
<1> QED
  BY <1>1, <1>7 DEF FetchTyped

\* Every step, of the fetch or of a load.
LEMMA NextTyped ==
    ASSUME FetchTyped, [Next]_vars
    PROVE  FetchTyped'
<1>1. CASE StartRun \/ EndRun \/ StopBetween
  <2>1. /\ UNCHANGED <<offered, appeared, snapshot, progress, roster, finished>>
        /\ run'.at # "open" /\ (run'.at = "between" => run'.todo \in Seq(Comp))
        /\ run'.at = "complete" => finished' = Comp
    BY <1>1, FetchAssumption DEF StartRun, EndRun, StopBetween, Idle, Between
  <2>2. offered' \in [Comp -> Seq(ListedRows)] /\ appeared' \in [Player -> SUBSET Comp]
    BY <2>1 DEF FetchTyped
  <2> QED
    BY <2>1, <2>2, AwayTyped
<1>2. CASE \E c \in Comp : Move(c)
  <2>1. PICK c \in Comp : Move(c)
    BY <1>2
  <2>2. PICK now \in Rosters[c] :
            /\ offered' = [offered EXCEPT ![c] = now]
            /\ appeared' = [p \in Player |-> appeared[p] \cup IF p \in IdsOf(now) THEN {c} ELSE {}]
    BY <2>1 DEF Move
  <2>3. now \in Seq(ListedRows)
    BY RostersAreListed
  <2>4. offered' \in [Comp -> Seq(ListedRows)]
    BY <2>2, <2>3 DEF FetchTyped
  <2>5. appeared' \in [Player -> SUBSET Comp]
    BY <2>2, SeenTyped
  <2>6. UNCHANGED <<snapshot, progress, roster, finished, run>>
    BY <2>1 DEF Move
  <2> QED
    BY <2>4, <2>5, <2>6, AwayTyped
<1>3. CASE UNCHANGED fetchVars
  <2>1. UNCHANGED <<offered, appeared, snapshot, progress, roster, finished, run>>
    BY <1>3 DEF fetchVars
  <2>2. offered' \in [Comp -> Seq(ListedRows)] /\ appeared' \in [Player -> SUBSET Comp]
    BY <2>1 DEF FetchTyped
  <2> QED
    BY <2>1, <2>2, AwayTyped
<1>4. (\E s \in Sources : Load(s)) \/ Download \/ UNCHANGED vars => UNCHANGED fetchVars
  BY DEF Load, Download, fetchVars, vars
<1>5. Visit \/ FetchPlayer \/ Close \/ Kill => FetchTyped'
  BY VisitTyped, PlayerTyped, CloseTyped, KillTyped
<1> QED
  BY <1>1, <1>2, <1>3, <1>4, <1>5 DEF Next, FetchNext

\* Before the first run.
LEMMA InitTyped ==
    ASSUME Init PROVE FetchTyped
<1>1. /\ snapshot = [c \in Comp |-> <<>>] /\ progress = [c \in Comp |-> {}]
      /\ roster = [c \in Comp |-> <<>>] /\ finished = {} /\ run.at = "idle"
      /\ appeared \in [Player -> SUBSET Comp]
      /\ DOMAIN offered = Comp /\ offered = [c \in Comp |-> offered[c]]
      /\ \A c \in Comp : offered[c] \in Rosters[c]
  BY DEF Init, FetchInit, Idle
<1>2. offered \in [Comp -> Seq(ListedRows)]
  BY <1>1, RostersAreListed
<1>3. PICK none : none = <<>> /\ none \in Seq(Members) /\ none \in Seq(KnownRows) /\ OneRow(none)
  BY NothingRead
<1>4. \A c \in Comp : snapshot[c] = none /\ roster[c] = none
  BY <1>1, <1>3
<1>5. snapshot \in [Comp -> Seq(Members)] /\ roster \in [Comp -> Seq(KnownRows)]
  BY <1>1, <1>3, <1>4
<1> QED
  BY <1>1, <1>2, <1>3, <1>4, <1>5 DEF FetchTyped

-----------------------------------------------------------------------------
(* Whom a load lists *)

\* What can be read of the files: the competitions that have one, and what their
\* lines hold.
LEMMA ScopeIs ==
    ASSUME FetchTyped
    PROVE  Enumerates(Scope, {c \in Comp : snapshot[c] # <<>>})
<1> DEFINE S == {i \in DOMAIN CompOrder : snapshot[CompOrder[i]] # <<>>}
<1>1. Scope = At(CompOrder, S)
  BY DEF Scope, Where
<1>2. CompOrder \in Seq(Comp) /\ \A c \in Comp : \E i \in DOMAIN CompOrder : CompOrder[i] = c
  BY FetchAssumption
<1>3. PICK at : /\ Enumerates(at, S) /\ At(CompOrder, S) \in Seq(Comp)
                /\ DOMAIN At(CompOrder, S) = DOMAIN at
                /\ \A i \in DOMAIN at : at[i] \in S /\ At(CompOrder, S)[i] = CompOrder[at[i]]
  <2>1. S \in SUBSET DOMAIN CompOrder
    OBVIOUS
  <2> HIDE DEF S
  <2> QED
    BY <1>2, <2>1, SelectionIs
<1>4. PICK x : x = Scope
  OBVIOUS
<1>5. /\ x \in Seq(Comp) /\ DOMAIN x = DOMAIN at
      /\ \A i \in DOMAIN at : at[i] \in S /\ x[i] = CompOrder[at[i]]
  BY <1>1, <1>3, <1>4
<1>6. PICK n \in Nat : n = Len(x) /\ DOMAIN x = 1 .. n
  BY <1>5, LenProperties
<1>7. x \in Seq({c \in Comp : snapshot[c] # <<>>})
  <2>1. \A i \in 1 .. n : x[i] \in {c \in Comp : snapshot[c] # <<>>}
    BY <1>2, <1>5, <1>6, LenProperties
  <2>2. x = [i \in 1 .. n |-> x[i]]
    BY <1>5, <1>6, LenProperties
  <2>3. x \in [1 .. n -> {c \in Comp : snapshot[c] # <<>>}]
    BY <2>1, <2>2
  <2> QED
    BY <1>6, <2>3, SeqDef
<1>8. Distinct(x)
  <2> SUFFICES ASSUME NEW i \in DOMAIN x, NEW j \in DOMAIN x, x[i] = x[j] PROVE i = j
    BY DEF Distinct
  <2>1. at[i] \in DOMAIN CompOrder /\ at[j] \in DOMAIN CompOrder /\ CompOrder[at[i]] = CompOrder[at[j]]
    BY <1>5
  <2>2. at[i] = at[j]
    BY <2>1, RosterAssumption
  <2> QED
    BY <1>3, <1>5, <2>2 DEF Enumerates, Distinct
<1>9. \A c \in {d \in Comp : snapshot[d] # <<>>} : \E i \in DOMAIN x : x[i] = c
  <2> TAKE c \in {d \in Comp : snapshot[d] # <<>>}
  <2>1. PICK k \in DOMAIN CompOrder : CompOrder[k] = c
    BY <1>2
  <2>2. k \in S
    BY <2>1
  <2>3. PICK i \in DOMAIN at : at[i] = k
    BY <1>3, <2>2 DEF Enumerates
  <2> QED
    BY <1>5, <2>1, <2>3
<1> QED
  BY <1>4, <1>7, <1>8, <1>9 DEF Enumerates

\* The lines of a file are those of its members.
LEMMA LinesTyped ==
    ASSUME FetchTyped, NEW c \in Comp
    PROVE  /\ Lines(c) \in Seq(FileLines)
           /\ Holds(Lines(c)) = UNION {Holds(snapshot[c][i].lines) : i \in DOMAIN snapshot[c]}
<1>1. PICK file \in Seq(Members) : file = snapshot[c]
  BY DEF FetchTyped
<1>2. PICK parts : parts = [i \in DOMAIN file |-> file[i].lines]
  OBVIOUS
<1>3. parts \in Seq(Seq(FileLines)) /\ DOMAIN parts = DOMAIN file
  <2>1. PICK n \in Nat : n = Len(file) /\ DOMAIN file = 1 .. n /\ \A i \in 1 .. n : file[i] \in Members
    BY LenProperties
  <2>2. parts \in [1 .. n -> Seq(FileLines)]
    BY <1>2, <2>1 DEF Members
  <2> QED
    BY <2>1, <2>2, SeqDef
<1>4. Lines(c) = FlattenSeq(parts)
  BY <1>1, <1>2 DEF Lines
<1>5. /\ FlattenSeq(parts) \in Seq(FileLines)
      /\ Holds(FlattenSeq(parts)) = UNION {Holds(parts[i]) : i \in DOMAIN parts}
  BY <1>3, FlattenHolds
<1>6. \A i \in DOMAIN parts : parts[i] = file[i].lines
  BY <1>2
<1>7. UNION {Holds(parts[i]) : i \in DOMAIN parts} = UNION {Holds(file[i].lines) : i \in DOMAIN file}
  BY <1>3, <1>6
<1> QED
  BY <1>1, <1>4, <1>5, <1>7

\* The roster of a competition is a list of rows, about players or nobody.
LEMMA RosterReadTyped ==
    ASSUME FetchTyped, NEW c \in Comp
    PROVE  RosterRead(c) \in Seq(ListedRows)
<1>1. PICK known \in Seq(KnownRows) : known = roster[c]
  BY DEF FetchTyped
<1>2. known \in Seq(ListedRows)
  <2>1. KnownRows \subseteq ListedRows
    BY DEF KnownRows
  <2> QED
    BY <2>1, SeqMonotonic
<1>3. PICK lines \in Seq(FileLines) : lines = Lines(c)
  BY LinesTyped
<1> DEFINE S == {i \in DOMAIN lines : lines[i].kind = "roster"}
<1>4. PICK headers : headers = Headers(c)
  OBVIOUS
<1>5. /\ headers \in Seq(FileLines)
      /\ \A i \in DOMAIN headers : \E k \in S : headers[i] = lines[k]
  <2>1. headers = At(lines, S)
    BY <1>3, <1>4 DEF Headers, Where
  <2>2. S \in SUBSET DOMAIN lines
    OBVIOUS
  <2> HIDE DEF S
  <2> QED
    BY <2>1, <2>2, SelectionHolds
<1>6. ASSUME headers # <<>> PROVE Last(headers).rows \in Seq(ListedRows)
  <2>1. PICK n \in Nat : n = Len(headers) /\ DOMAIN headers = 1 .. n /\ n # 0
    BY <1>5, <1>6, LenProperties, EmptySeq
  <2>2. PICK line : line = headers[n]
    OBVIOUS
  <2>3. line \in FileLines /\ line.kind = "roster"
    BY <1>5, <2>1, <2>2, LenProperties
  <2>4. line \in HeaderLines
    BY <2>3 DEF FileLines, PlayerLines
  <2>5. line.rows \in Seq(ListedRows)
    BY <2>4 DEF HeaderLines, HeaderLine
  <2> QED
    BY <2>1, <2>2, <2>5 DEF Last
<1>7. <<>> \in Seq(ListedRows)
  BY EmptySeq
<1> QED
  BY <1>1, <1>2, <1>4, <1>6, <1>7 DEF RosterRead

\* The roster that is read names each of its players once.
LEMMA RosterIs ==
    ASSUME FetchTyped, NEW c \in Comp
    PROVE  /\ Roster(c) \in Seq(ListedRows) /\ OneRow(Named(Roster(c)))
           /\ RowIds(Named(Roster(c))) = IdsOf(RosterRead(c))
<1>1. PICK rows \in Seq(ListedRows) : rows = RosterRead(c)
  BY RosterReadTyped
<1>2. Roster(c) = RosterPages(<<rows>>, None)
  BY <1>1 DEF Roster
<1> QED
  BY <1>1, <1>2, RosterLists

\* A birth supplied changes nobody.
LEMMA DescribedIs ==
    ASSUME NEW T, \A r \in T : "sid" \in DOMAIN r, NEW listed \in Seq(T)
    PROVE  Described(listed) \in Seq({Completed(r) : r \in T}) /\ SidsOf(Described(listed)) = SidsOf(listed)
<1>1. PICK n \in Nat : n = Len(listed) /\ DOMAIN listed = 1 .. n /\ \A i \in 1 .. n : listed[i] \in T
  BY LenProperties
<1>2. PICK x : x = Described(listed)
  OBVIOUS
<1>3. x = [i \in 1 .. n |-> Completed(listed[i])]
  BY <1>1, <1>2 DEF Described
<1>4. x \in [1 .. n -> {Completed(r) : r \in T}]
  BY <1>1, <1>3
<1>5. x \in Seq({Completed(r) : r \in T}) /\ DOMAIN x = 1 .. n
  BY <1>3, <1>4, SeqDef
<1>6. \A r \in T : Completed(r).sid = r.sid
  BY DEF Completed
<1>7. \A i \in 1 .. n : x[i].sid = listed[i].sid
  BY <1>1, <1>3, <1>6
<1>8. SidsOf(x) = SidsOf(listed)
  BY <1>1, <1>5, <1>7 DEF SidsOf
<1> QED
  BY <1>2, <1>5, <1>8

\* The identities of a load: each player that is listed, once.
IdentitiesOf(listed) == Merged(<<>>, Described(listed))

\* Described and merged, they are those that were listed, each once.
LEMMA IdentitiesList ==
    ASSUME NEW T, \A r \in T : "sid" \in DOMAIN r, NEW listed \in Seq(T), NEW C,
           C = {Completed(r) : r \in T}
    PROVE  /\ IdentitiesOf(listed) \in Seq(C) /\ OneSid(IdentitiesOf(listed))
           /\ SidsOf(IdentitiesOf(listed)) = SidsOf(listed)
<1>1. PICK x \in Seq(C) : x = Described(listed) /\ SidsOf(x) = SidsOf(listed)
  BY DescribedIs
<1>2. PICK none \in Seq(C) : none = <<>> /\ OneSid(none) /\ SidsOf(none) = {}
  BY NothingRead
<1>3. /\ Merged(none, x) \in Seq(C) /\ OneSid(Merged(none, x))
      /\ SidsOf(Merged(none, x)) = SidsOf(none) \cup SidsOf(x)
  <2>1. OneSid(none)
    BY <1>2
  <2> QED
    BY <2>1, MergeAll
<1> QED
  BY <1>1, <1>2, <1>3 DEF IdentitiesOf

\* Whom a source lists.
ListedBy(s) ==
    IF s = "footystats" THEN FlattenSeq([i \in DOMAIN Scope |-> GetPlayers(Roster(Scope[i]), Scope[i])])
    ELSE MarketPlayers

\* The identities of a load are those of what its source lists.
LEMMA IdentitiesAre ==
    ASSUME NEW l PROVE Identities(l) = IdentitiesOf(ListedBy(l.source))
<1>1. CASE l.source = "footystats"
  BY <1>1 DEF Identities, IdentitiesOf, ListedBy, Performance, Merged, Merge, FoldLeft
<1>2. CASE l.source # "footystats"
  BY <1>2 DEF Identities, IdentitiesOf, ListedBy, Performance, Merged, Merge, FoldLeft
<1> QED
  BY <1>1, <1>2

IdentityRows == UNION {{Identity(r, c) : r \in ListedRows} : c \in Comp}

\* The performance source lists the players of the rosters it has files of,
LEMMA PerformanceLists ==
    ASSUME FetchTyped
    PROVE  /\ ListedBy("footystats") \in Seq(IdentityRows)
           /\ SidsOf(ListedBy("footystats")) = UNION {IdsOf(RosterRead(Scope[i])) : i \in DOMAIN Scope}
<1>1. PICK scope \in Seq(Comp) : scope = Scope
  <2>1. Scope \in Seq({c \in Comp : snapshot[c] # <<>>})
    BY ScopeIs DEF Enumerates
  <2>2. {c \in Comp : snapshot[c] # <<>>} \subseteq Comp
    OBVIOUS
  <2> QED
    BY <2>1, <2>2, SeqMonotonic
<1>2. PICK n \in Nat : n = Len(scope) /\ DOMAIN scope = 1 .. n /\ \A i \in 1 .. n : scope[i] \in Comp
  BY LenProperties
<1>3. PICK parts : parts = [i \in 1 .. n |-> GetPlayers(Roster(scope[i]), scope[i])]
  OBVIOUS
<1>4. \A c \in Comp : /\ GetPlayers(Roster(c), c) \in Seq(IdentityRows)
                      /\ SidsOf(GetPlayers(Roster(c), c)) = IdsOf(RosterRead(c))
  <2> TAKE c \in Comp
  <2>1. PICK whole \in Seq(ListedRows) : whole = Roster(c) /\ RowIds(Named(whole)) = IdsOf(RosterRead(c))
    BY RosterIs
  <2>2. /\ GetPlayers(whole, c) \in Seq({Identity(r, c) : r \in ListedRows})
        /\ SidsOf(GetPlayers(whole, c)) = RowIds(Named(whole))
    BY PlayersList
  <2>3. {Identity(r, c) : r \in ListedRows} \subseteq IdentityRows
    BY DEF IdentityRows
  <2> QED
    BY <2>1, <2>2, <2>3, SeqMonotonic
<1>5. parts \in Seq(Seq(IdentityRows)) /\ DOMAIN parts = 1 .. n
  <2>1. parts \in [1 .. n -> Seq(IdentityRows)]
    BY <1>2, <1>3, <1>4
  <2> QED
    BY <1>3, <2>1, SeqDef
<1>6. PICK listed \in Seq(IdentityRows) :
          listed = FlattenSeq(parts) /\ Holds(listed) = UNION {Holds(parts[i]) : i \in DOMAIN parts}
  BY <1>5, FlattenHolds
<1>7. listed = ListedBy("footystats")
  BY <1>1, <1>2, <1>3, <1>6 DEF ListedBy
<1>8. SidsOf(listed) = {r.sid : r \in Holds(listed)}
  BY DEF SidsOf, Holds
<1>9. \A i \in 1 .. n : {r.sid : r \in Holds(parts[i])} = IdsOf(RosterRead(scope[i]))
  <2> TAKE i \in 1 .. n
  <2>1. SidsOf(parts[i]) = IdsOf(RosterRead(scope[i]))
    BY <1>2, <1>3, <1>4
  <2> QED
    BY <2>1 DEF SidsOf, Holds
<1>10. SidsOf(listed) = UNION {IdsOf(RosterRead(scope[i])) : i \in 1 .. n}
  <2>1. SidsOf(listed) = {r.sid : r \in UNION {Holds(parts[i]) : i \in 1 .. n}}
    BY <1>5, <1>6, <1>8
  <2>2. @ = UNION {{r.sid : r \in Holds(parts[i])} : i \in 1 .. n}
    OBVIOUS
  <2>3. @ = UNION {IdsOf(RosterRead(scope[i])) : i \in 1 .. n}
    BY <1>9
  <2> QED
    BY <2>1, <2>2, <2>3
<1> QED
  BY <1>1, <1>2, <1>7, <1>10

MarketRows == {MapPlayer(r) : r \in Range(market.players)}

\* ... and the market its own.
LEMMA MarketLists ==
    ASSUME market \in Markets
    PROVE  /\ ListedBy("transfermarkt") \in Seq(MarketRows)
           /\ SidsOf(ListedBy("transfermarkt")) = {market.players[i].sid : i \in DOMAIN market.players}
<1>0. PICK R : R = Range(market.players)
  OBVIOUS
<1>1. PICK rows \in Seq(R) : rows = market.players
  BY <1>0, MarketAssumption
<1>2. PICK n \in Nat : n = Len(rows) /\ DOMAIN rows = 1 .. n /\ \A i \in 1 .. n : rows[i] \in R
  BY LenProperties
<1>3. PICK x : x = ListedBy("transfermarkt")
  OBVIOUS
<1>4. x = [i \in 1 .. n |-> MapPlayer(rows[i])]
  BY <1>1, <1>2, <1>3 DEF ListedBy, MarketPlayers
<1>5. x \in [1 .. n -> MarketRows]
  BY <1>0, <1>2, <1>4 DEF MarketRows
<1>6. x \in Seq(MarketRows) /\ DOMAIN x = 1 .. n
  BY <1>4, <1>5, SeqDef
<1>7. \A i \in 1 .. n : x[i].sid = rows[i].sid
  BY <1>4 DEF MapPlayer
<1>8. SidsOf(x) = {rows[i].sid : i \in DOMAIN rows}
  BY <1>2, <1>6, <1>7 DEF SidsOf
<1> QED
  BY <1>1, <1>3, <1>6, <1>8

\* The players a load of a source is about.
PlayersOf(s) ==
    IF s = "transfermarkt" THEN {market.players[i].sid : i \in DOMAIN market.players}
    ELSE UNION {IdsOf(RosterRead(Scope[i])) : i \in DOMAIN Scope}

RowsOf(s) == {Completed(r) : r \in IF s = "footystats" THEN IdentityRows ELSE MarketRows}

\* So the identities of a load are the players of its source, each once.
LEMMA PlayersAreListed ==
    ASSUME FetchTyped, market \in Markets, NEW l, l.source \in Sources
    PROVE  /\ Identities(l) \in Seq(RowsOf(l.source)) /\ OneSid(Identities(l))
           /\ SidsOf(Identities(l)) = PlayersOf(l.source)
<1>1. PICK s \in Sources : s = l.source
  OBVIOUS
<1>2. Identities(l) = IdentitiesOf(ListedBy(s))
  BY <1>1, IdentitiesAre
<1>3. CASE s = "footystats"
  <2>1. PICK T : T = IdentityRows
    OBVIOUS
  <2>2. \A r \in T : "sid" \in DOMAIN r
    BY <2>1 DEF IdentityRows, Identity
  <2>3. PICK listed \in Seq(T) : listed = ListedBy(s) /\ SidsOf(listed) = PlayersOf(s)
    BY <1>3, <2>1, PerformanceLists DEF PlayersOf
  <2>4. RowsOf(s) = {Completed(r) : r \in T}
    BY <1>3, <2>1 DEF RowsOf
  <2> QED
    BY <1>1, <1>2, <2>2, <2>3, <2>4, IdentitiesList
<1>4. CASE s = "transfermarkt"
  <2>1. PICK T : T = MarketRows
    OBVIOUS
  <2>2. \A r \in T : "sid" \in DOMAIN r
    BY <2>1 DEF MarketRows, MapPlayer
  <2>3. PICK listed \in Seq(T) : listed = ListedBy(s) /\ SidsOf(listed) = PlayersOf(s)
    BY <1>4, <2>1, MarketLists DEF PlayersOf
  <2>4. RowsOf(s) = {Completed(r) : r \in T}
    BY <1>4, <2>1 DEF RowsOf
  <2> QED
    BY <1>1, <1>2, <2>2, <2>3, <2>4, IdentitiesList
<1> QED
  BY <1>1, <1>3, <1>4 DEF Sources

-----------------------------------------------------------------------------
(* What a load counts *)

\* A load on its way: its tables are there, the next id and the checks.
Sound(l) ==
    /\ DOMAIN l = LoadFields /\ DOMAIN l.db = Tables
    /\ l.db.next \in Nat /\ IsSeq(l.db.checks)

\* Nothing of the source is left before its rows are loaded.
Fresh(l) ==
    /\ Sound(l) /\ l.refused = 0
    /\ Of(l.db.bridge, l.source) = {} /\ Of(l.db.stats, l.source) = {}

BridgeRows(s, ids) ==
    {[source |-> s, sid |-> sid, player |-> ids[sid], method |-> "source_native_id"] : sid \in DOMAIN ids}
OneEach(ids) == \A x, y \in DOMAIN ids : ids[x] = ids[y] => x = y

\* A purge leaves nothing of its source,
LEMMA StartIsFresh ==
    ASSUME DOMAIN db = Tables, db.next \in Nat, IsSeq(db.checks), NEW s
    PROVE  Fresh(Started(s)) /\ Started(s).source = s
<1>1. /\ DOMAIN Started(s) = LoadFields /\ Started(s).db = Purge(db, s)
      /\ Started(s).refused = 0 /\ Started(s).source = s
  BY DEF Started, LoadFields
<1>2. /\ DOMAIN Purge(db, s) = Tables /\ Purge(db, s).next = db.next
      /\ Purge(db, s).checks = db.checks
      /\ Purge(db, s).bridge = {b \in db.bridge : b.source # s}
      /\ \A f \in Purge(db, s).stats : f.source # s
  BY DEF Purge, Tables, Of
<1> QED
  BY <1>1, <1>2 DEF Fresh, Sound, Of

\* ... and the competitions and the clubs add neither players nor figures.
LEMMA CompetitionsStayFresh ==
    ASSUME NEW l, Fresh(l)
    PROVE  /\ Fresh(LoadCompetitions(l)) /\ LoadCompetitions(l).source = l.source
           /\ LoadCompetitions(l).raised = l.raised
<1>1. /\ DOMAIN LoadCompetitions(l) = LoadFields /\ DOMAIN LoadCompetitions(l).db = Tables
      /\ LoadCompetitions(l).source = l.source /\ LoadCompetitions(l).refused = l.refused
      /\ LoadCompetitions(l).raised = l.raised
      /\ LoadCompetitions(l).db.next = l.db.next /\ LoadCompetitions(l).db.checks = l.db.checks
      /\ LoadCompetitions(l).db.bridge = l.db.bridge /\ LoadCompetitions(l).db.stats = l.db.stats
  BY DEF LoadCompetitions, Fresh, Sound, LoadFields, Tables
<1> QED
  BY <1>1 DEF Fresh, Sound

LEMMA ClubsStayFresh ==
    ASSUME NEW l, Fresh(l)
    PROVE  /\ Fresh(LoadClubs(l)) /\ LoadClubs(l).source = l.source
           /\ LoadClubs(l).raised = l.raised
<1>1. /\ DOMAIN LoadClubs(l) = LoadFields /\ DOMAIN LoadClubs(l).db = Tables
      /\ LoadClubs(l).source = l.source /\ LoadClubs(l).refused = l.refused
      /\ LoadClubs(l).raised = l.raised
      /\ LoadClubs(l).db.next = l.db.next /\ LoadClubs(l).db.checks = l.db.checks
      /\ LoadClubs(l).db.bridge = l.db.bridge /\ LoadClubs(l).db.stats = l.db.stats
  BY DEF LoadClubs, Fresh, Sound, LoadFields, Tables
<1> QED
  BY <1>1 DEF Fresh, Sound

\* What each step of the insertion of players writes.
LEMMA TalliedIs ==
    ASSUME NEW l, DOMAIN l = LoadFields, NEW insert
    PROVE  /\ DOMAIN Tallied(l, insert) = LoadFields /\ Tallied(l, insert).db = l.db
           /\ Tallied(l, insert).source = l.source /\ Tallied(l, insert).ids = l.ids
           /\ Tallied(l, insert).refused = l.refused + insert.refused
           /\ Tallied(l, insert).raised = (l.raised \/ insert.raised)
BY DEF Tallied, LoadFields

LEMMA BridgedIs ==
    ASSUME NEW l, DOMAIN l = LoadFields, DOMAIN l.db = Tables, NEW ids
    PROVE  LET m == PlayersBridged(l, ids) IN
           /\ DOMAIN m = LoadFields /\ DOMAIN m.db = Tables /\ m.ids = ids
           /\ m.source = l.source /\ m.refused = l.refused /\ m.raised = l.raised
           /\ m.db.next = l.db.next /\ m.db.checks = l.db.checks /\ m.db.stats = l.db.stats
           /\ m.db.players = l.db.players
           /\ m.db.bridge = l.db.bridge \cup BridgeRows(l.source, ids)
BY DEF PlayersBridged, LoadFields, Tables, BridgeRows

LEMMA ReturnedIs ==
    ASSUME NEW l, DOMAIN l = LoadFields, DOMAIN l.db = Tables, NEW ordered, NEW kept, NEW returned
    PROVE  LET m == PlayersReturned(l, ordered, kept, returned) IN
           /\ DOMAIN m = LoadFields /\ DOMAIN m.db = Tables
           /\ m.ids = IdOfEach(ordered, kept, returned)
           /\ m.source = l.source /\ m.refused = l.refused /\ m.raised = l.raised
           /\ m.db.next = l.db.next + Len(returned)
           /\ m.db.checks = l.db.checks /\ m.db.stats = l.db.stats
           /\ m.db.bridge = l.db.bridge \cup BridgeRows(l.source, m.ids)
<1>1. PICK rows : rows = {[id |-> returned[i], who |-> Keyed(l.source, ordered[kept[i]].sid),
                     club |-> Resolvable(l, ordered[kept[i]].club)] : i \in DOMAIN kept}
  OBVIOUS
<1>2. PICK ids : ids = IdOfEach(ordered, kept, returned)
  OBVIOUS
<1>3. PICK k : k = [l EXCEPT !.db.next = @ + Len(returned), !.db.players = @ \cup rows]
  OBVIOUS
<1>4. /\ DOMAIN k = LoadFields /\ DOMAIN k.db = Tables
      /\ k.source = l.source /\ k.refused = l.refused /\ k.raised = l.raised
      /\ k.db.next = l.db.next + Len(returned)
      /\ k.db.checks = l.db.checks /\ k.db.stats = l.db.stats /\ k.db.bridge = l.db.bridge
  BY <1>3 DEF LoadFields, Tables
<1>5. PlayersReturned(l, ordered, kept, returned) = PlayersBridged(k, ids)
  BY <1>1, <1>2, <1>3 DEF PlayersReturned
<1> QED
  BY <1>2, <1>4, <1>5, BridgedIs

\* A sequence counted by what it holds.
LEMMA CountBy ==
    ASSUME NEW n \in Nat, NEW z, DOMAIN z = 1 .. n, z = [i \in 1 .. n |-> z[i]], Distinct(z)
    PROVE  IsFiniteSet(Holds(z)) /\ Cardinality(Holds(z)) = n
<1>1. z \in Seq(Holds(z)) /\ Len(z) = n
  <2>1. z \in [1 .. n -> Holds(z)]
    BY DEF Holds
  <2> QED
    BY <2>1, SeqDef
<1> QED
  BY <1>1, CountDistinct

\* What is kept and what is refused is all there was, unless a row failed otherwise.
LEMMA IsolatedCounts ==
    ASSUME NEW n \in Nat, NEW v, \A i \in 1 .. n : v[i] \in Verdicts, NEW r, Isolated(r, v, 1 .. n), ~r.raised
    PROVE  /\ Len(r.kept) \in Nat /\ r.refused \in Nat /\ Len(r.kept) + r.refused = n
           /\ DOMAIN r.kept = 1 .. Len(r.kept)
<1> DEFINE St == {i \in 1 .. n : v[i] = "stored"}
           Re == {i \in 1 .. n : v[i] = "refused"}
<1>1. /\ r.kept \in Seq(St) /\ Distinct(r.kept) /\ \A x \in St : \E i \in DOMAIN r.kept : r.kept[i] = x
      /\ r.refused = Cardinality(Re)
  BY DEF Isolated, Enumerates
<1>2. \A i \in 1 .. n : v[i] # "raises"
  BY DEF Isolated
<1>3. St \cup Re = 1 .. n /\ St \cap Re = {}
  BY <1>2 DEF Verdicts
<1>4. IsFiniteSet(1 .. n) /\ Cardinality(1 .. n) = n
  BY FS_Interval
<1>5. IsFiniteSet(St) /\ IsFiniteSet(Re)
  BY <1>4, FS_Subset
<1>6. Holds(r.kept) = St /\ DOMAIN r.kept = 1 .. Len(r.kept) /\ Len(r.kept) \in Nat
  BY <1>1, LenProperties DEF Holds
<1> HIDE DEF St, Re
<1>7. Cardinality(St) = Len(r.kept)
  BY <1>1, <1>6, CountDistinct
<1>8. Cardinality(St) \in Nat /\ Cardinality(Re) \in Nat /\ Cardinality(St \cup Re) = Cardinality(St) + Cardinality(Re)
  BY <1>3, <1>5, CountBoth
<1> QED
  BY <1>1, <1>3, <1>4, <1>6, <1>7, <1>8

\* The players of a source after they are loaded: those it lists are bridged, each
\* to a player of its own, or counted as refused.
Bridged(l, P) ==
    /\ Sound(l) /\ IsFiniteSet(P) /\ DOMAIN l.ids \subseteq P /\ OneEach(l.ids)
    /\ Of(l.db.bridge, l.source) = BridgeRows(l.source, l.ids)
    /\ Of(l.db.stats, l.source) = {}
    /\ l.refused = Cardinality(P) - Cardinality(DOMAIN l.ids)

\* A bridge row is known by the player it is of.
LEMMA BridgeCounts ==
    ASSUME NEW s, NEW ids, IsFiniteSet(DOMAIN ids)
    PROVE  IsFiniteSet(BridgeRows(s, ids)) /\ Cardinality(BridgeRows(s, ids)) = Cardinality(DOMAIN ids)
<1> DEFINE Row(sid) == [source |-> s, sid |-> sid, player |-> ids[sid], method |-> "source_native_id"]
           f == [sid \in DOMAIN ids |-> Row(sid)]
<1>1. f \in Bijection(DOMAIN ids, BridgeRows(s, ids))
  <2>1. f \in [DOMAIN ids -> BridgeRows(s, ids)]
    BY DEF BridgeRows
  <2>2. \A x, y \in DOMAIN ids : f[x] = f[y] => x = y
    <3>1. \A x \in DOMAIN ids : f[x].sid = x
      OBVIOUS
    <3> HIDE DEF f
    <3> QED
      BY <3>1
  <2>3. \A b \in BridgeRows(s, ids) : \E x \in DOMAIN ids : f[x] = b
    BY DEF BridgeRows
  <2> HIDE DEF f
  <2> QED
    BY <2>1, <2>2, <2>3 DEF Bijection, Injection, Surjection, IsInjective
<1> HIDE DEF f
<1> QED
  BY <1>1, FS_Bijection DEF ExistsBijection

\* The players after their insertion: bridged or counted, whatever was halved.
LEMMA PlayersAreCounted ==
    ASSUME NEW l, Fresh(l), NEW T, NEW ordered \in Seq(T), OneSid(ordered)
    PROVE  LET m == PlayersListed(l, ordered) IN
           /\ Bridged(m, SidsOf(ordered)) /\ m.source = l.source
           /\ m.raised => l.raised
           /\ l.raised => m.raised
           /\ DOMAIN m.ids = {ordered[i].sid : i \in {k \in DOMAIN ordered : PlayerVerdict(ordered[k]) = "stored"}}
<1>1. PICK n \in Nat : n = Len(ordered) /\ DOMAIN ordered = 1 .. n
  BY LenProperties
<1>2. PICK v : v = [i \in 1 .. n |-> PlayerVerdict(ordered[i])]
  OBVIOUS
<1>3. v \in Seq(Verdicts) /\ DOMAIN v = 1 .. n /\ \A i \in 1 .. n : v[i] \in {"stored", "refused"}
  <2>1. v \in [1 .. n -> {"stored", "refused"}]
    BY <1>2 DEF PlayerVerdict
  <2>2. v \in [1 .. n -> Verdicts]
    BY <2>1 DEF Verdicts
  <2> QED
    BY <2>1, <2>2, SeqDef
<1>4. PICK r : r = InsertIsolating(v) /\ Isolated(r, v, 1 .. n)
  BY <1>3, InsertIsolates
<1>5. r.raised = FALSE
  BY <1>3, <1>4 DEF Isolated
<1> DEFINE St == {i \in 1 .. n : v[i] = "stored"}
<1>6. PICK kept \in Seq(St) : kept = r.kept /\ Distinct(kept) /\ \A x \in St : \E i \in DOMAIN kept : kept[i] = x
  BY <1>4 DEF Isolated, Enumerates
<1>7. PICK q \in Nat : q = Len(kept) /\ DOMAIN kept = 1 .. q /\ q + r.refused = n /\ r.refused \in Nat
                       /\ \A i \in 1 .. q : kept[i] \in St
  <2>1. \A i \in 1 .. n : v[i] \in Verdicts
    BY <1>3 DEF Verdicts
  <2>2. ~r.raised
    BY <1>5
  <2>3. Len(r.kept) \in Nat /\ r.refused \in Nat /\ Len(r.kept) + r.refused = n
    BY <1>4, <2>1, <2>2, IsolatedCounts
  <2>4. Len(kept) \in Nat /\ DOMAIN kept = 1 .. Len(kept) /\ \A i \in 1 .. Len(kept) : kept[i] \in St
    BY LenProperties
  <2> QED
    BY <1>6, <2>3, <2>4
<1>8. PICK returned : returned = [i \in DOMAIN kept |-> l.db.next + i - 1]
  OBVIOUS
<1>9. PICK k : k = Tallied(l, r)
  OBVIOUS
<1>10. /\ DOMAIN k = LoadFields /\ k.db = l.db /\ k.source = l.source
       /\ k.refused = r.refused /\ k.raised = (l.raised \/ FALSE)
  <2>1. DOMAIN l = LoadFields /\ DOMAIN l.db = Tables /\ l.refused = 0
    BY DEF Fresh, Sound
  <2>2. /\ DOMAIN k = LoadFields /\ k.db = l.db /\ k.source = l.source
        /\ k.refused = l.refused + r.refused /\ k.raised = (l.raised \/ r.raised)
    BY <1>9, <2>1, TalliedIs
  <2>3. k.refused = r.refused
    BY <1>7, <2>1, <2>2
  <2> QED
    BY <1>5, <2>1, <2>2, <2>3
<1>11. PICK m : m = PlayersReturned(k, ordered, kept, returned)
  OBVIOUS
<1>12. m = PlayersListed(l, ordered)
  BY <1>1, <1>2, <1>4, <1>6, <1>8, <1>9, <1>11 DEF PlayersListed, PlayersInserted
<1>13. /\ DOMAIN m = LoadFields /\ DOMAIN m.db = Tables
       /\ m.ids = IdOfEach(ordered, kept, returned)
       /\ m.source = l.source /\ m.refused = r.refused /\ m.raised = k.raised
       /\ m.db.next = l.db.next + Len(returned)
       /\ m.db.checks = l.db.checks /\ m.db.stats = l.db.stats
       /\ m.db.bridge = l.db.bridge \cup BridgeRows(l.source, m.ids)
  BY <1>10, <1>11, ReturnedIs DEF Fresh, Sound
<1>14. l.db.next \in Nat
  BY DEF Fresh, Sound
<1>15. Len(returned) = q /\ \A i \in 1 .. q : returned[i] = l.db.next + i - 1
  BY <1>7, <1>8
<1>16. Sound(m)
  BY <1>13, <1>14, <1>15 DEF Sound, Fresh
<1>17. OneEach(m.ids)
  <2> SUFFICES ASSUME NEW x \in DOMAIN m.ids, NEW y \in DOMAIN m.ids, m.ids[x] = m.ids[y] PROVE x = y
    BY DEF OneEach
  <2>1. PICK i \in 1 .. q : ordered[kept[i]].sid = x /\ m.ids[x] = returned[i]
    <3>1. m.ids = IdOfEach(ordered, kept, returned)
      BY <1>13
    <3>2. DOMAIN kept = 1 .. q
      BY <1>7
    <3>3. x \in DOMAIN IdOfEach(ordered, kept, returned)
      BY <3>1
    <3>4. PICK a \in DOMAIN kept : /\ ordered[kept[a]].sid = x
                                /\ IdOfEach(ordered, kept, returned)[x] = returned[a]
      BY <3>3, IdOfEachFollows
    <3> QED
      BY <3>1, <3>2, <3>4
  <2>2. PICK j \in 1 .. q : ordered[kept[j]].sid = y /\ m.ids[y] = returned[j]
    <3>1. m.ids = IdOfEach(ordered, kept, returned)
      BY <1>13
    <3>2. DOMAIN kept = 1 .. q
      BY <1>7
    <3>3. y \in DOMAIN IdOfEach(ordered, kept, returned)
      BY <3>1
    <3>4. PICK a \in DOMAIN kept : /\ ordered[kept[a]].sid = y
                                /\ IdOfEach(ordered, kept, returned)[y] = returned[a]
      BY <3>3, IdOfEachFollows
    <3> QED
      BY <3>1, <3>2, <3>4
  <2>3. l.db.next + i - 1 = l.db.next + j - 1
    BY <1>15, <2>1, <2>2
  <2>4. i = j
    BY <1>14, <2>3
  <2> QED
    BY <2>1, <2>2, <2>4
<1>18. DOMAIN m.ids = {ordered[kept[i]].sid : i \in 1 .. q}
  BY <1>7, <1>13 DEF IdOfEach
<1>19. DOMAIN m.ids = {ordered[i].sid : i \in St}
  <2>1. {ordered[kept[i]].sid : i \in 1 .. q} = {ordered[i].sid : i \in St}
    <3>1. (\A i \in 1 .. q : kept[i] \in St) /\ \A x \in St : \E i \in 1 .. q : kept[i] = x
      BY <1>6, <1>7
    <3> HIDE DEF St
    <3> QED
      BY <3>1
  <2> QED
    BY <1>18, <2>1
<1>20. /\ IsFiniteSet(DOMAIN m.ids) /\ Cardinality(DOMAIN m.ids) = q
  <2>1. PICK z : z = [i \in 1 .. q |-> ordered[kept[i]].sid]
    OBVIOUS
  <2>2. Distinct(z)
    <3> SUFFICES ASSUME NEW i \in 1 .. q, NEW j \in 1 .. q, z[i] = z[j] PROVE i = j
      BY <2>1 DEF Distinct
    <3>1. kept[i] = kept[j]
      BY <1>1, <1>7, <2>1 DEF OneSid
    <3> QED
      BY <1>6, <1>7, <3>1 DEF Distinct
  <2>3. Holds(z) = DOMAIN m.ids
    BY <1>18, <2>1 DEF Holds
  <2>4. DOMAIN z = 1 .. q /\ z = [i \in 1 .. q |-> z[i]]
    BY <2>1
  <2> QED
    BY <2>2, <2>3, <2>4, CountBy
<1>21. IsFiniteSet(SidsOf(ordered)) /\ Cardinality(SidsOf(ordered)) = n
  <2>1. PICK z : z = [i \in 1 .. n |-> ordered[i].sid]
    OBVIOUS
  <2>2. Distinct(z)
    BY <1>1, <2>1 DEF Distinct, OneSid
  <2>3. Holds(z) = SidsOf(ordered)
    BY <1>1, <2>1 DEF Holds, SidsOf
  <2>4. DOMAIN z = 1 .. n /\ z = [i \in 1 .. n |-> z[i]]
    BY <2>1
  <2> QED
    BY <2>2, <2>3, <2>4, CountBy
<1>22. DOMAIN m.ids \subseteq SidsOf(ordered)
  BY <1>1, <1>19 DEF SidsOf
<1>23. Of(m.db.bridge, m.source) = BridgeRows(m.source, m.ids)
  BY <1>13 DEF Fresh, Of, BridgeRows
<1>24. Of(m.db.stats, m.source) = {}
  BY <1>13 DEF Fresh, Of
<1>25. m.refused = n - q
  <2>1. PICK x \in Nat : x = r.refused /\ q + x = n
    BY <1>7
  <2>2. x = n - q
    BY <2>1
  <2> QED
    BY <1>13, <2>1, <2>2
<1>26. Bridged(m, SidsOf(ordered))
  BY <1>16, <1>17, <1>20, <1>21, <1>22, <1>23, <1>24, <1>25 DEF Bridged
<1>27. DOMAIN m.ids = {ordered[i].sid : i \in {j \in DOMAIN ordered : PlayerVerdict(ordered[j]) = "stored"}}
  <2>1. St = {j \in DOMAIN ordered : PlayerVerdict(ordered[j]) = "stored"}
    BY <1>1, <1>2
  <2> QED
    BY <1>19, <2>1
<1>28. (m.raised => l.raised) /\ (l.raised => m.raised)
  BY <1>10, <1>13
<1> QED
  BY <1>12, <1>13, <1>26, <1>27, <1>28

-----------------------------------------------------------------------------
(* What the lines tell of a player *)

AboutPlayer(line, p) == line.kind = "player" /\ line.player = p

\* The lines of a player are those about him.
LEMMA LinesOfIs ==
    ASSUME FetchTyped, NEW c \in Comp, NEW p
    PROVE  /\ LinesOf(c, p) \in Seq(FileLines)
           /\ Holds(LinesOf(c, p)) = {line \in Holds(Lines(c)) : AboutPlayer(line, p)}
<1>1. PICK lines \in Seq(FileLines) : lines = Lines(c)
  BY LinesTyped
<1> DEFINE S == {i \in DOMAIN lines : lines[i].kind = "player" /\ lines[i].player = p}
<1>2. LinesOf(c, p) = At(lines, S)
  BY <1>1 DEF LinesOf, Where
<1>3. S \in SUBSET DOMAIN lines
  OBVIOUS
<1>4. {lines[i] : i \in S} = {line \in Holds(lines) : AboutPlayer(line, p)}
  BY DEF Holds, AboutPlayer
<1> HIDE DEF S
<1>5. At(lines, S) \in Seq(FileLines) /\ Holds(At(lines, S)) = {lines[i] : i \in S}
  BY <1>3, SelectionHolds
<1> QED
  BY <1>1, <1>2, <1>4, <1>5

\* A line about a player holds figures of his.
LEMMA LineIs ==
    ASSUME FetchTyped, NEW c \in Comp, NEW p \in Player, NEW i \in DOMAIN LinesOf(c, p)
    PROVE  /\ LinesOf(c, p)[i] \in Holds(Lines(c)) /\ AboutPlayer(LinesOf(c, p)[i], p)
           /\ \E S \in SUBSET Comp : LinesOf(c, p)[i].details = [d \in S |-> FiguresOf[p][d]]
<1>1. PICK line : line = LinesOf(c, p)[i]
  OBVIOUS
<1>2. line \in Holds(LinesOf(c, p))
  BY <1>1 DEF Holds
<1>3. line \in Holds(Lines(c)) /\ AboutPlayer(line, p)
  BY <1>2, LinesOfIs
<1>4. line \in FileLines
  <2>1. PICK lines \in Seq(FileLines) : lines = Lines(c)
    BY LinesTyped
  <2>2. \A k \in DOMAIN lines : lines[k] \in FileLines
    BY LenProperties
  <2> QED
    BY <1>3, <2>1, <2>2 DEF Holds
<1>5. line \in PlayerLines
  BY <1>3, <1>4 DEF FileLines, HeaderLines, HeaderLine, AboutPlayer
<1>6. PICK q \in Player : line \in {[kind |-> "player", player |-> q, details |-> [d \in S |-> FiguresOf[q][d]]] :
                                   S \in SUBSET Comp}
  BY <1>5 DEF PlayerLines
<1>7. q = p
  BY <1>3, <1>6 DEF AboutPlayer
<1> QED
  BY <1>1, <1>3, <1>6, <1>7

\* What is read of a player is his last line in some file, or nothing where no
\* file has one.
LEMMA DetailsAre ==
    ASSUME FetchTyped, NEW p \in Player
    PROVE  \/ DetailsRead[p] = <<>> /\ \A c \in Holds(Scope) : Holds(LinesOf(c, p)) = {}
           \/ \E c \in Comp : \E i \in DOMAIN LinesOf(c, p) : DetailsRead[p] = LinesOf(c, p)[i].details
<1>1. PICK scope \in Seq(Comp) : scope = Scope
  <2>1. Scope \in Seq({c \in Comp : snapshot[c] # <<>>})
    BY ScopeIs DEF Enumerates
  <2>2. {c \in Comp : snapshot[c] # <<>>} \subseteq Comp
    OBVIOUS
  <2> QED
    BY <2>1, <2>2, SeqMonotonic
<1>2. PICK n \in Nat : n = Len(scope) /\ DOMAIN scope = 1 .. n /\ \A i \in 1 .. n : scope[i] \in Comp
  BY LenProperties
<1>3. PICK parts : parts = [i \in 1 .. n |-> LinesOf(scope[i], p)]
  OBVIOUS
<1>4. parts \in Seq(Seq(FileLines)) /\ DOMAIN parts = 1 .. n
  <2>1. parts \in [1 .. n -> Seq(FileLines)]
    BY <1>2, <1>3, LinesOfIs
  <2> QED
    BY <1>3, <2>1, SeqDef
<1>5. PICK lines \in Seq(FileLines) :
          lines = FlattenSeq(parts) /\ Holds(lines) = UNION {Holds(parts[i]) : i \in DOMAIN parts}
  BY <1>4, FlattenHolds
<1>6. DetailsRead[p] = IF lines = <<>> THEN <<>> ELSE Last(lines).details
  BY <1>1, <1>2, <1>3, <1>5 DEF DetailsRead
<1>7. CASE lines = <<>>
  <2>1. Holds(lines) = {}
    BY <1>7 DEF Holds
  <2>2. \A i \in 1 .. n : Holds(LinesOf(scope[i], p)) = {}
    <3>1. \A i \in 1 .. n : Holds(parts[i]) \subseteq Holds(lines)
      BY <1>4, <1>5
    <3>2. \A i \in 1 .. n : parts[i] = LinesOf(scope[i], p)
      BY <1>3
    <3> QED
      BY <2>1, <3>1, <3>2
  <2>3. DetailsRead[p] = <<>>
    BY <1>6, <1>7
  <2>4. ASSUME NEW c \in Holds(Scope) PROVE Holds(LinesOf(c, p)) = {}
    <3>1. PICK i \in 1 .. n : c = scope[i]
      BY <1>1, <1>2, <2>4 DEF Holds
    <3> QED
      BY <2>2, <3>1
  <2> QED
    BY <2>3, <2>4
<1>8. CASE lines # <<>>
  <2>1. PICK m \in Nat : m = Len(lines) /\ DOMAIN lines = 1 .. m /\ m # 0
    BY <1>8, LenProperties, EmptySeq
  <2>2. lines[m] \in Holds(lines)
    BY <2>1 DEF Holds
  <2>3. PICK i \in 1 .. n : lines[m] \in Holds(LinesOf(scope[i], p))
    BY <1>3, <1>4, <1>5, <2>2
  <2>4. PICK k \in DOMAIN LinesOf(scope[i], p) : LinesOf(scope[i], p)[k] = lines[m]
    BY <2>3 DEF Holds
  <2>5. DetailsRead[p] = lines[m].details
    BY <1>6, <1>8, <2>1 DEF Last
  <2> QED
    BY <1>2, <2>4, <2>5
<1> QED
  BY <1>7, <1>8

\* So it is figures of his, where there are any.
LEMMA DetailsTyped ==
    ASSUME FetchTyped, NEW p \in Player
    PROVE  \E S \in SUBSET Comp : /\ DOMAIN DetailsRead[p] \cap Comp = S
                                  /\ \A c \in S : DetailsRead[p][c] = FiguresOf[p][c]
<1>0. DOMAIN <<>> = {}
  OBVIOUS
<1>1. CASE DetailsRead[p] = <<>>
  BY <1>0, <1>1
<1>2. CASE \E c \in Comp : \E i \in DOMAIN LinesOf(c, p) : DetailsRead[p] = LinesOf(c, p)[i].details
  <2>1. PICK c \in Comp : \E i \in DOMAIN LinesOf(c, p) : DetailsRead[p] = LinesOf(c, p)[i].details
    BY <1>2
  <2>2. PICK i \in DOMAIN LinesOf(c, p) : DetailsRead[p] = LinesOf(c, p)[i].details
    BY <2>1
  <2>3. PICK S \in SUBSET Comp : LinesOf(c, p)[i].details = [d \in S |-> FiguresOf[p][d]]
    BY LineIs
  <2>4. DetailsRead[p] = [d \in S |-> FiguresOf[p][d]]
    BY <2>2, <2>3
  <2> QED
    BY <2>4
<1> QED
  BY <1>1, <1>2, DetailsAre

\* There is a record of a competition where the figures are, and only there.
LEMMA RecordsAre ==
    ASSUME FetchTyped, NEW p \in Player, NEW c \in Comp
    PROVE  /\ GetPlayerStats(DetailsRead[p], c) # None <=> c \in DOMAIN DetailsRead[p]
           /\ c \in DOMAIN DetailsRead[p] => GetPlayerStats(DetailsRead[p], c) = Stats(FiguresOf[p][c])
<1>1. c \in DOMAIN DetailsRead[p] => DetailsRead[p][c] = FiguresOf[p][c]
  BY DetailsTyped
<1>2. Stats(FiguresOf[p][c]) # None
  BY RosterAssumption
<1> QED
  BY <1>1, <1>2 DEF GetPlayerStats

-----------------------------------------------------------------------------
(* The seasons *)

\* The record of a player and a competition, and those a load reads.
Season(p, c) == RecordOf(p, DetailsRead, c)
SeasonsOf(c) == {Season(p, c) : p \in Recordable(IdsOf(RosterRead(c)), DetailsRead, c)}
Seasons == UNION {SeasonsOf(c) : c \in Holds(Scope)}
RecordsRead ==
    FlattenSeq([i \in DOMAIN Scope |-> GetCompetitionStats(Roster(Scope[i]), DetailsRead, Scope[i])])

\* What a record says.
LEMMA SeasonIs ==
    ASSUME NEW p, NEW c
    PROVE  Season(p, c).sid = p /\ Season(p, c).comp = c
           /\ Season(p, c).figures = GetPlayerStats(DetailsRead[p], c)
BY DEF Season, RecordOf

\* The records of all competitions, each once.
LEMMA RecordsReadAre ==
    ASSUME FetchTyped
    PROVE  Enumerates(RecordsRead, Seasons)
<1>1. PICK scope : scope = Scope
  OBVIOUS
<1>2. scope \in Seq({c \in Comp : snapshot[c] # <<>>}) /\ Distinct(scope)
  BY <1>1, ScopeIs DEF Enumerates
<1>3. PICK n \in Nat : n = Len(scope) /\ DOMAIN scope = 1 .. n /\ \A i \in 1 .. n : scope[i] \in Comp
  BY <1>2, LenProperties
<1>4. PICK parts : parts = [i \in 1 .. n |-> GetCompetitionStats(Roster(scope[i]), DetailsRead, scope[i])]
  OBVIOUS
<1>5. PICK S : S = [i \in 1 .. n |-> SeasonsOf(scope[i])]
  OBVIOUS
<1>6. \A c \in Comp : Enumerates(GetCompetitionStats(Roster(c), DetailsRead, c), SeasonsOf(c))
  <2> TAKE c \in Comp
  <2>1. PICK whole \in Seq(ListedRows) :
            whole = Roster(c) /\ OneRow(Named(whole)) /\ RowIds(Named(whole)) = IdsOf(RosterRead(c))
    BY RosterIs
  <2>2. PICK details : details = DetailsRead
    OBVIOUS
  <2>3. OneRow(Named(whole))
    BY <2>1
  <2>4. Enumerates(GetCompetitionStats(whole, details, c),
                   {RecordOf(p, details, c) : p \in Recordable(RowIds(Named(whole)), details, c)})
    BY <2>3, StatsList
  <2>5. SeasonsOf(c) = {RecordOf(p, details, c) : p \in Recordable(RowIds(Named(whole)), details, c)}
    BY <2>1, <2>2 DEF SeasonsOf, Season
  <2> QED
    BY <2>1, <2>2, <2>4, <2>5
<1>7. \A i \in 1 .. n : Enumerates(parts[i], S[i])
  BY <1>3, <1>4, <1>5, <1>6
<1>8. \A c \in Comp : \A x \in SeasonsOf(c) : x.comp = c
  BY SeasonIs DEF SeasonsOf
<1>9. \A i, j \in 1 .. n : i # j => S[i] \cap S[j] = {}
  <2> SUFFICES ASSUME NEW i \in 1 .. n, NEW j \in 1 .. n, i # j, NEW x, x \in S[i], x \in S[j] PROVE FALSE
    OBVIOUS
  <2>1. x.comp = scope[i] /\ x.comp = scope[j]
    BY <1>3, <1>5, <1>8
  <2> QED
    BY <1>2, <1>3, <2>1 DEF Distinct
<1>10. UNION {S[i] : i \in 1 .. n} = Seasons
  BY <1>1, <1>3, <1>5 DEF Seasons, Holds
<1>11. parts \in Seq(Seq(Seasons)) /\ DOMAIN parts = 1 .. n
  <2>1. \A i \in 1 .. n : parts[i] \in Seq(S[i]) /\ S[i] \subseteq Seasons
    BY <1>7, <1>10 DEF Enumerates
  <2>2. \A i \in 1 .. n : parts[i] \in Seq(Seasons)
    BY <2>1, SeqMonotonic
  <2>3. parts \in [1 .. n -> Seq(Seasons)]
    BY <1>4, <2>2
  <2> QED
    BY <1>4, <2>3, SeqDef
<1>12. Apart(parts, S)
  BY <1>7, <1>9, <1>11 DEF Apart
<1>13. Enumerates(FlattenSeq(parts), UNION {S[i] : i \in DOMAIN parts})
  BY <1>11, <1>12, FlattenEnumerates
<1>14. RecordsRead = FlattenSeq(parts)
  BY <1>1, <1>3, <1>4 DEF RecordsRead
<1> QED
  BY <1>10, <1>11, <1>13, <1>14

\* The records of the players that were loaded, and the row made of one.
OursOf(ids) == {x \in Seasons : x.sid \in DOMAIN ids}
RowOf(ids, s, x) ==
    [player |-> ids[x.sid], comp |-> x.comp, source |-> s, figures |-> ReconcileContradictions(x.figures)]
LoadedRecords(ids) == Where(RecordsRead, LAMBDA r : r.sid \in DOMAIN ids)

\* The records of the players that were loaded, each once.
LEMMA OursAre ==
    ASSUME FetchTyped, NEW ids
    PROVE  Enumerates(LoadedRecords(ids), OursOf(ids))
<1>1. PICK x : x = RecordsRead
  OBVIOUS
<1>2. x \in Seq(Seasons) /\ Distinct(x) /\ \A e \in Seasons : \E i \in DOMAIN x : x[i] = e
  BY <1>1, RecordsReadAre DEF Enumerates
<1> DEFINE S == {i \in DOMAIN x : x[i].sid \in DOMAIN ids}
<1>3. PICK y : y = LoadedRecords(ids)
  OBVIOUS
<1>4. y = At(x, S)
  BY <1>1, <1>3 DEF LoadedRecords, Where
<1>5. PICK at : /\ Enumerates(at, S) /\ y \in Seq(Seasons) /\ DOMAIN y = DOMAIN at
                /\ \A i \in DOMAIN at : at[i] \in S /\ y[i] = x[at[i]]
  <2>1. S \in SUBSET DOMAIN x
    OBVIOUS
  <2> HIDE DEF S
  <2> QED
    BY <1>2, <1>4, <2>1, SelectionIs
<1>6. PICK n \in Nat : n = Len(y) /\ DOMAIN y = 1 .. n /\ \A i \in 1 .. n : y[i] \in Seasons
  BY <1>5, LenProperties
<1>7. y \in Seq(OursOf(ids))
  <2>1. \A i \in 1 .. n : y[i] \in OursOf(ids)
    BY <1>5, <1>6 DEF OursOf
  <2>2. y = [i \in 1 .. n |-> y[i]]
    BY <1>5, <1>6, LenProperties
  <2>3. y \in [1 .. n -> OursOf(ids)]
    BY <2>1, <2>2
  <2> QED
    BY <1>6, <2>3, SeqDef
<1>8. Distinct(y)
  <2> SUFFICES ASSUME NEW i \in DOMAIN y, NEW j \in DOMAIN y, y[i] = y[j] PROVE i = j
    BY DEF Distinct
  <2>1. at[i] = at[j]
    BY <1>2, <1>5 DEF Distinct
  <2> QED
    BY <1>5, <2>1 DEF Enumerates, Distinct
<1>9. \A e \in OursOf(ids) : \E i \in DOMAIN y : y[i] = e
  <2> TAKE e \in OursOf(ids)
  <2>1. PICK k \in DOMAIN x : x[k] = e
    BY <1>2 DEF OursOf
  <2>2. k \in S
    BY <2>1 DEF OursOf
  <2>3. PICK i \in DOMAIN at : at[i] = k
    BY <1>5, <2>2 DEF Enumerates
  <2> QED
    BY <1>5, <2>1, <2>3
<1> QED
  BY <1>3, <1>7, <1>8, <1>9 DEF Enumerates

\* A record is known by its player and its competition.
LEMMA OneSeason ==
    ASSUME NEW x \in Seasons, NEW y \in Seasons, x.sid = y.sid, x.comp = y.comp
    PROVE  x = y
<1>1. PICK p, c : x = Season(p, c)
  BY DEF Seasons, SeasonsOf
<1>2. PICK q, d : y = Season(q, d)
  BY DEF Seasons, SeasonsOf
<1> QED
  BY <1>1, <1>2, SeasonIs

\* What the insertion of the seasons writes.
LEMMA InsertedIs ==
    ASSUME NEW l, DOMAIN l = LoadFields, DOMAIN l.db = Tables, NEW rows, NEW insert
    PROVE  LET m == SeasonsInserted(l, rows, insert) IN
           /\ DOMAIN m = LoadFields /\ DOMAIN m.db = Tables
           /\ m.ids = l.ids /\ m.source = l.source
           /\ m.refused = l.refused + insert.refused /\ m.raised = (l.raised \/ insert.raised)
           /\ m.db.next = l.db.next /\ m.db.checks = l.db.checks /\ m.db.bridge = l.db.bridge
           /\ m.db.stats = l.db.stats \cup {rows[insert.kept[i]] : i \in DOMAIN insert.kept}
<1>1. PICK k : k = Tallied(l, insert)
  OBVIOUS
<1>2. PICK kept : kept = {rows[insert.kept[i]] : i \in DOMAIN insert.kept}
  OBVIOUS
<1>3. PICK m : m = [k EXCEPT !.db.stats = @ \cup kept]
  OBVIOUS
<1>4. m = SeasonsInserted(l, rows, insert)
  BY <1>1, <1>2, <1>3 DEF SeasonsInserted
<1>5. /\ DOMAIN k = LoadFields /\ k.db = l.db /\ k.source = l.source /\ k.ids = l.ids
      /\ k.refused = l.refused + insert.refused /\ k.raised = (l.raised \/ insert.raised)
  BY <1>1, TalliedIs
<1>6. /\ DOMAIN m = LoadFields /\ DOMAIN m.db = Tables
      /\ m.ids = l.ids /\ m.source = l.source
      /\ m.refused = l.refused + insert.refused /\ m.raised = (l.raised \/ insert.raised)
      /\ m.db.next = l.db.next /\ m.db.checks = l.db.checks /\ m.db.bridge = l.db.bridge
      /\ m.db.stats = l.db.stats \cup kept
  BY <1>3, <1>5 DEF LoadFields, Tables
<1> QED
  BY <1>2, <1>4, <1>6

\* The seasons after their insertion: stored or counted, unless the load ended.
LEMMA SeasonsAreCounted ==
    ASSUME FetchTyped, NEW l, NEW P, Bridged(l, P), l.source = "footystats",
           NEW m, m = LoadSeasonStats(l), ~m.raised
    PROVE  /\ ~l.raised /\ Sound(m) /\ m.ids = l.ids /\ m.source = l.source
           /\ m.db.bridge = l.db.bridge
           /\ Cardinality(OursOf(l.ids)) \in Nat /\ Cardinality(Of(m.db.stats, "footystats")) \in Nat
           /\ m.refused = l.refused
                + (Cardinality(OursOf(l.ids)) - Cardinality(Of(m.db.stats, "footystats")))
           /\ \A x \in OursOf(l.ids) :
                    /\ StatsVerdict(RowOf(l.ids, l.source, x)) # "raises"
                    /\ StatsVerdict(RowOf(l.ids, l.source, x)) = "stored"
                            => RowOf(l.ids, l.source, x) \in m.db.stats
<1>1. PICK ids, s : ids = l.ids /\ s = l.source /\ OneEach(ids) /\ s = "footystats"
  BY DEF Bridged
<1>2. PICK ours : ours = LoadedRecords(ids)
  OBVIOUS
<1>3. /\ ours \in Seq(OursOf(ids)) /\ Distinct(ours)
      /\ \A e \in OursOf(ids) : \E i \in DOMAIN ours : ours[i] = e
  BY <1>2, OursAre DEF Enumerates
<1>4. PICK n \in Nat : n = Len(ours) /\ DOMAIN ours = 1 .. n /\ \A i \in 1 .. n : ours[i] \in OursOf(ids)
  BY <1>3, LenProperties
<1>5. PICK rows : rows = SeasonRows(l, RecordsRead)
  OBVIOUS
<1>6. rows = [i \in 1 .. n |-> RowOf(ids, s, ours[i])]
  BY <1>1, <1>2, <1>4, <1>5 DEF SeasonRows, LoadedRecords, RowOf
<1>7. \A x : RowOf(ids, s, x).player = ids[x.sid] /\ RowOf(ids, s, x).comp = x.comp
             /\ RowOf(ids, s, x).source = s
  BY DEF RowOf
<1>8. \A i, j \in 1 .. n : rows[i] = rows[j] => i = j
  <2> SUFFICES ASSUME NEW i \in 1 .. n, NEW j \in 1 .. n, rows[i] = rows[j] PROVE i = j
    OBVIOUS
  <2>1. ids[ours[i].sid] = ids[ours[j].sid] /\ ours[i].comp = ours[j].comp
    BY <1>6, <1>7
  <2>2. ours[i] \in Seasons /\ ours[j] \in Seasons /\ ours[i].sid \in DOMAIN ids /\ ours[j].sid \in DOMAIN ids
    BY <1>4 DEF OursOf
  <2>3. ours[i].sid = ours[j].sid
    BY <1>1, <2>1, <2>2 DEF OneEach
  <2>4. ours[i] = ours[j]
    BY <2>1, <2>2, <2>3, OneSeason
  <2> QED
    BY <1>3, <1>4, <2>4 DEF Distinct
<1>9. PICK v : v = [i \in 1 .. n |-> StatsVerdict(rows[i])]
  OBVIOUS
<1>10. v \in Seq(Verdicts) /\ DOMAIN v = 1 .. n /\ \A i \in 1 .. n : v[i] \in Verdicts
  <2>1. v \in [1 .. n -> Verdicts]
    BY <1>9 DEF StatsVerdict, Verdicts
  <2> QED
    BY <2>1, SeqDef
<1>11. PICK r : r = InsertIsolating(v) /\ Isolated(r, v, 1 .. n)
  BY <1>10, InsertIsolates
<1>12. m = SeasonsInserted(l, rows, r)
  <2>1. m = SeasonsListed(l, SeasonRows(l, RecordsRead))
    BY DEF LoadSeasonStats, RecordsRead, Performance
  <2>2. DOMAIN rows = 1 .. n
    BY <1>6
  <2> QED
    BY <1>5, <1>9, <1>11, <2>1, <2>2 DEF SeasonsListed
<1>13. /\ DOMAIN m = LoadFields /\ DOMAIN m.db = Tables
       /\ m.ids = l.ids /\ m.source = l.source
       /\ m.refused = l.refused + r.refused /\ m.raised = (l.raised \/ r.raised)
       /\ m.db.next = l.db.next /\ m.db.checks = l.db.checks /\ m.db.bridge = l.db.bridge
       /\ m.db.stats = l.db.stats \cup {rows[r.kept[i]] : i \in DOMAIN r.kept}
  <2>1. DOMAIN l = LoadFields /\ DOMAIN l.db = Tables
    BY DEF Bridged, Sound
  <2> QED
    BY <1>12, <2>1, InsertedIs
<1>14. ~l.raised /\ ~r.raised
  BY <1>13
<1>15. Sound(m)
  BY <1>13 DEF Bridged, Sound
<1> DEFINE St == {i \in 1 .. n : v[i] = "stored"}
<1>16. PICK kept \in Seq(St) : kept = r.kept /\ Distinct(kept) /\ \A x \in St : \E i \in DOMAIN kept : kept[i] = x
  BY <1>11 DEF Isolated, Enumerates
<1>17. PICK q \in Nat, e \in Nat : q = Len(kept) /\ e = r.refused /\ q + e = n /\ DOMAIN kept = 1 .. q
                       /\ \A i \in 1 .. q : kept[i] \in St
  <2>1. Len(r.kept) \in Nat /\ r.refused \in Nat /\ Len(r.kept) + r.refused = n
    BY <1>10, <1>11, <1>14, IsolatedCounts
  <2>2. DOMAIN kept = 1 .. Len(kept) /\ \A i \in 1 .. Len(kept) : kept[i] \in St
    BY LenProperties
  <2> QED
    BY <1>16, <2>1, <2>2
<1>18. Of(m.db.stats, s) = {rows[kept[i]] : i \in 1 .. q}
  <2>1. \A i \in 1 .. n : rows[i].source = s
    BY <1>6, <1>7
  <2>2. \A i \in 1 .. q : rows[kept[i]].source = s
    BY <1>17, <2>1
  <2>3. Of(l.db.stats, s) = {}
    BY <1>1 DEF Bridged
  <2>4. m.db.stats = l.db.stats \cup {rows[kept[i]] : i \in 1 .. q}
    BY <1>13, <1>16, <1>17
  <2> QED
    BY <2>2, <2>3, <2>4 DEF Of
<1>19. Cardinality(Of(m.db.stats, s)) = q
  <2>1. PICK z : z = [i \in 1 .. q |-> rows[kept[i]]]
    OBVIOUS
  <2>2. Distinct(z)
    <3> SUFFICES ASSUME NEW i \in 1 .. q, NEW j \in 1 .. q, z[i] = z[j] PROVE i = j
      BY <2>1 DEF Distinct
    <3>1. kept[i] = kept[j]
      BY <1>8, <1>17, <2>1
    <3> QED
      BY <1>16, <1>17, <3>1 DEF Distinct
  <2>3. Holds(z) = {rows[kept[i]] : i \in 1 .. q}
    BY <2>1 DEF Holds
  <2>4. DOMAIN z = 1 .. q /\ z = [i \in 1 .. q |-> z[i]]
    BY <2>1
  <2> QED
    BY <1>18, <2>2, <2>3, <2>4, CountBy
<1>20. Cardinality(OursOf(ids)) = n
  <2>1. Holds(ours) = OursOf(ids)
    BY <1>3, <1>4 DEF Holds
  <2> QED
    BY <1>3, <1>4, <2>1, CountDistinct
<1>21. m.refused = l.refused + (n - q)
  <2>1. n - q = e
    BY <1>17
  <2> QED
    BY <1>13, <1>17, <2>1
<1>23. \A x \in OursOf(ids) : StatsVerdict(RowOf(ids, s, x)) # "raises"
  <2> TAKE x \in OursOf(ids)
  <2>1. PICK i \in 1 .. n : ours[i] = x
    BY <1>3, <1>4
  <2>2. v[i] = StatsVerdict(RowOf(ids, s, x))
    BY <1>6, <1>9, <2>1
  <2> QED
    BY <1>11, <1>14, <2>2 DEF Isolated
<1>22. \A x \in OursOf(ids) : StatsVerdict(RowOf(ids, s, x)) = "stored" => RowOf(ids, s, x) \in m.db.stats
  <2> SUFFICES ASSUME NEW x \in OursOf(ids), StatsVerdict(RowOf(ids, s, x)) = "stored"
               PROVE  RowOf(ids, s, x) \in m.db.stats
    OBVIOUS
  <2>1. PICK i \in 1 .. n : ours[i] = x
    BY <1>3, <1>4
  <2>2. rows[i] = RowOf(ids, s, x) /\ i \in St
    BY <1>6, <1>9, <2>1
  <2>3. PICK j \in DOMAIN kept : kept[j] = i
    BY <1>16, <2>2
  <2> QED
    BY <1>13, <1>16, <2>2, <2>3
<1> QED
  BY <1>1, <1>13, <1>14, <1>15, <1>17, <1>19, <1>20, <1>21, <1>22, <1>23

\* The seasons of the players a load bridged, of the competitions where they are
\* on the roster and have figures.
SeasonsRead(ids) ==
    {x \in Player \X Comp :
        /\ x[1] \in IdsOf(RosterRead(x[2])) /\ x[2] \in DOMAIN DetailsRead[x[1]]
        /\ x[1] \in DOMAIN ids}

\* There are as many of them as records.
LEMMA SeasonsArePairs ==
    ASSUME FetchTyped, \A c \in Comp : snapshot[c] # <<>>, NEW ids
    PROVE  Cardinality(SeasonsRead(ids)) = Cardinality(OursOf(ids))
<1>1. PICK ours : ours = LoadedRecords(ids)
  OBVIOUS
<1>2. /\ ours \in Seq(OursOf(ids)) /\ Distinct(ours)
      /\ \A e \in OursOf(ids) : \E i \in DOMAIN ours : ours[i] = e
  BY <1>1, OursAre DEF Enumerates
<1>3. PICK n \in Nat : n = Len(ours) /\ DOMAIN ours = 1 .. n /\ \A i \in 1 .. n : ours[i] \in OursOf(ids)
  BY <1>2, LenProperties
<1>4. Holds(Scope) = Comp
  BY ScopeIs, LenProperties DEF Enumerates, Holds
<1>5. \A c \in Comp : IdsOf(RosterRead(c)) \subseteq Player
  <2> TAKE c \in Comp
  <2>1. PICK rows \in Seq(ListedRows) : rows = RosterRead(c)
    BY RosterReadTyped
  <2>2. \A i \in DOMAIN rows : rows[i] \in ListedRows
    BY LenProperties
  <2> QED
    BY <2>1, <2>2 DEF IdsOf, ListedRows
<1>6. \A x \in OursOf(ids) : <<x.sid, x.comp>> \in SeasonsRead(ids)
  <2> TAKE x \in OursOf(ids)
  <2>1. PICK c \in Comp : x \in SeasonsOf(c)
    BY <1>4 DEF OursOf, Seasons
  <2>2. PICK p : /\ p \in IdsOf(RosterRead(c)) /\ GetPlayerStats(DetailsRead[p], c) # None
                 /\ x = Season(p, c)
    BY <2>1 DEF SeasonsOf, Recordable
  <2>3. x.sid = p /\ x.comp = c /\ p \in Player
    BY <1>5, <2>2, SeasonIs
  <2>4. c \in DOMAIN DetailsRead[p]
    BY <2>2, <2>3, RecordsAre
  <2>5. p \in DOMAIN ids
    BY <2>3 DEF OursOf
  <2> QED
    BY <2>2, <2>3, <2>4, <2>5 DEF SeasonsRead
<1>7. \A y \in SeasonsRead(ids) : \E x \in OursOf(ids) : y = <<x.sid, x.comp>>
  <2> TAKE y \in SeasonsRead(ids)
  <2>1. PICK p \in Player, c \in Comp : y = <<p, c>> /\ p \in IdsOf(RosterRead(c))
                                        /\ c \in DOMAIN DetailsRead[p] /\ p \in DOMAIN ids
    BY DEF SeasonsRead
  <2>2. GetPlayerStats(DetailsRead[p], c) # None
    BY <2>1, RecordsAre
  <2>3. Season(p, c) \in SeasonsOf(c)
    BY <2>1, <2>2 DEF SeasonsOf, Recordable
  <2>4. Season(p, c) \in OursOf(ids)
    BY <1>4, <2>1, <2>3, SeasonIs DEF OursOf, Seasons
  <2> QED
    BY <2>1, <2>4, SeasonIs
<1>8. PICK z : z = [i \in 1 .. n |-> <<ours[i].sid, ours[i].comp>>]
  OBVIOUS
<1>9. Distinct(z)
  <2> SUFFICES ASSUME NEW i \in 1 .. n, NEW j \in 1 .. n, z[i] = z[j] PROVE i = j
    BY <1>8 DEF Distinct
  <2>1. ours[i] \in Seasons /\ ours[j] \in Seasons
    BY <1>3 DEF OursOf
  <2>2. ours[i] = ours[j]
    BY <1>8, <2>1, OneSeason
  <2> QED
    BY <1>2, <1>3, <2>2 DEF Distinct
<1>10. Holds(z) = SeasonsRead(ids)
  <2>1. Holds(z) = {<<ours[i].sid, ours[i].comp>> : i \in 1 .. n}
    BY <1>8 DEF Holds
  <2>2. Holds(z) \subseteq SeasonsRead(ids)
    BY <1>3, <1>6, <2>1
  <2>3. SeasonsRead(ids) \subseteq Holds(z)
    BY <1>2, <1>3, <1>7, <2>1
  <2> QED
    BY <2>2, <2>3
<1>11. Cardinality(SeasonsRead(ids)) = n
  <2>1. DOMAIN z = 1 .. n /\ z = [i \in 1 .. n |-> z[i]]
    BY <1>8
  <2> QED
    BY <1>9, <1>10, <2>1, CountBy
<1>12. Cardinality(OursOf(ids)) = n
  <2>1. Holds(ours) = OursOf(ids)
    BY <1>2, <1>3 DEF Holds
  <2> QED
    BY <1>2, <1>3, <2>1, CountDistinct
<1> QED
  BY <1>11, <1>12

-----------------------------------------------------------------------------
(* A load as a whole *)

\* The players of a source, loaded.
LEMMA PlayersLoaded ==
    ASSUME FetchTyped, market \in Markets, NEW l, Fresh(l), l.source \in Sources, NEW m, m = LoadPlayers(l)
    PROVE  /\ Bridged(m, PlayersOf(l.source)) /\ m.source = l.source /\ (l.raised => m.raised)
           /\ Identities(l) \in Seq(RowsOf(l.source)) /\ SidsOf(Identities(l)) = PlayersOf(l.source)
           /\ DOMAIN m.ids = {Identities(l)[i].sid :
                  i \in {j \in DOMAIN Identities(l) : PlayerVerdict(Identities(l)[j]) = "stored"}}
<1>1. PICK raised : raised = (l.raised \/ (~Performance(l) /\
                Unbuildable({market.players[i].worth : i \in DOMAIN market.players})))
  OBVIOUS
<1>2. PICK k : k = [l EXCEPT !.raised = raised]
  OBVIOUS
<1>3. /\ DOMAIN k = LoadFields /\ k.db = l.db /\ k.source = l.source /\ k.refused = l.refused
      /\ k.raised = raised
  BY <1>2 DEF Fresh, Sound, LoadFields
<1>4. Fresh(k)
  BY <1>3 DEF Fresh, Sound
<1>5. PICK s \in Sources : s = l.source
  OBVIOUS
<1>6. PICK T, ordered : T = RowsOf(s) /\ ordered = Identities(l)
  OBVIOUS
<1>7. ordered \in Seq(T) /\ OneSid(ordered) /\ SidsOf(ordered) = PlayersOf(s)
  BY <1>5, <1>6, PlayersAreListed
<1>8. m = PlayersListed(k, ordered)
  BY <1>1, <1>2, <1>6 DEF LoadPlayers
<1>9. /\ Bridged(m, SidsOf(ordered)) /\ m.source = k.source /\ (k.raised => m.raised)
      /\ DOMAIN m.ids = {ordered[i].sid : i \in {j \in DOMAIN ordered : PlayerVerdict(ordered[j]) = "stored"}}
  BY <1>4, <1>7, <1>8, PlayersAreCounted
<1> QED
  BY <1>1, <1>3, <1>5, <1>6, <1>7, <1>9

\* The facts of the market leave the players, their seasons and the count alone.
MarketLeft(l, m) ==
    /\ Sound(m) /\ m.ids = l.ids /\ m.source = l.source /\ m.refused = l.refused
    /\ m.db.bridge = l.db.bridge /\ m.db.stats = l.db.stats /\ (l.raised => m.raised)

LEMMA ValuesLeave ==
    ASSUME NEW l, Sound(l)
    PROVE  MarketLeft(l, LoadMarketValues(l))
<1>1. CASE Performance(l)
  BY <1>1 DEF LoadMarketValues, MarketLeft
<1>2. CASE ~Performance(l)
  <2>1. PICK m : m = LoadMarketValues(l)
    OBVIOUS
  <2>2. PICK raised, values : m = [l EXCEPT !.raised = @ \/ raised, !.db.values = values]
    BY <1>2, <2>1 DEF LoadMarketValues
  <2>3. DOMAIN l = LoadFields /\ DOMAIN l.db = Tables
    BY DEF Sound
  <2>4. /\ DOMAIN m = DOMAIN l /\ m.ids = l.ids /\ m.source = l.source
        /\ m.refused = l.refused /\ (l.raised => m.raised)
    BY <2>2, <2>3 DEF LoadFields
  <2>5. m.db = [l.db EXCEPT !.values = values]
    BY <2>2, <2>3 DEF LoadFields
  <2>6. /\ DOMAIN m.db = DOMAIN l.db /\ m.db.next = l.db.next /\ m.db.checks = l.db.checks
        /\ m.db.bridge = l.db.bridge /\ m.db.stats = l.db.stats
    BY <2>3, <2>5 DEF Tables
  <2> QED
    BY <2>1, <2>4, <2>6 DEF Sound, MarketLeft
<1> QED
  BY <1>1, <1>2

LEMMA TransfersLeave ==
    ASSUME NEW l, Sound(l)
    PROVE  MarketLeft(l, LoadTransfers(l))
<1>1. CASE Performance(l)
  BY <1>1 DEF LoadTransfers, MarketLeft
<1>2. CASE ~Performance(l)
  <2>1. PICK m : m = LoadTransfers(l)
    OBVIOUS
  <2>2. PICK transfers : m = [l EXCEPT !.db.transfers = transfers]
    BY <1>2, <2>1 DEF LoadTransfers
  <2>3. DOMAIN l = LoadFields /\ DOMAIN l.db = Tables
    BY DEF Sound
  <2>4. /\ DOMAIN m = DOMAIN l /\ m.ids = l.ids /\ m.source = l.source
        /\ m.refused = l.refused /\ m.raised = l.raised
    BY <2>2, <2>3 DEF LoadFields
  <2>5. m.db = [l.db EXCEPT !.transfers = transfers]
    BY <2>2, <2>3 DEF LoadFields
  <2>6. /\ DOMAIN m.db = DOMAIN l.db /\ m.db.next = l.db.next /\ m.db.checks = l.db.checks
        /\ m.db.bridge = l.db.bridge /\ m.db.stats = l.db.stats
    BY <2>3, <2>5 DEF Tables
  <2> QED
    BY <2>1, <2>4, <2>6 DEF Sound, MarketLeft
<1> QED
  BY <1>1, <1>2

\* What the check of a load should say, of the rows a schema holds after it.
SeasonsDue(d, s) ==
    IF s = "transfermarkt" THEN {}
    ELSE {x \in PlayersOf(s) \X Comp :
            /\ x[1] \in IdsOf(RosterRead(x[2])) /\ x[2] \in DOMAIN DetailsRead[x[1]]
            /\ \E b \in Of(d.bridge, s) : b.sid = x[1]}
Missing(d, s) ==
    (Cardinality(PlayersOf(s)) - Cardinality(Of(d.bridge, s)))
      + (Cardinality(SeasonsDue(d, s)) - Cardinality(Of(d.stats, s)))

\* The seasons due are those read of the players that are bridged.
LEMMA DueIsRead ==
    ASSUME FetchTyped, \A c \in Comp : snapshot[c] # <<>>, NEW d, NEW ids,
           Of(d.bridge, "footystats") = BridgeRows("footystats", ids)
    PROVE  SeasonsDue(d, "footystats") = SeasonsRead(ids)
<1>1. Holds(Scope) = Comp
  BY ScopeIs, LenProperties DEF Enumerates, Holds
<1>2. \A c \in Comp : IdsOf(RosterRead(c)) \subseteq Player
  <2> TAKE c \in Comp
  <2>1. PICK rows \in Seq(ListedRows) : rows = RosterRead(c)
    BY RosterReadTyped
  <2>2. \A i \in DOMAIN rows : rows[i] \in ListedRows
    BY LenProperties
  <2> QED
    BY <2>1, <2>2 DEF IdsOf, ListedRows
<1>3. PlayersOf("footystats") = UNION {IdsOf(RosterRead(c)) : c \in Comp}
  BY <1>1 DEF PlayersOf, Holds
<1>4. \A p : (\E b \in Of(d.bridge, "footystats") : b.sid = p) <=> p \in DOMAIN ids
  <2>1. \A b \in BridgeRows("footystats", ids) : b.sid \in DOMAIN ids
    BY DEF BridgeRows
  <2>2. \A p \in DOMAIN ids : \E b \in BridgeRows("footystats", ids) : b.sid = p
    <3> TAKE p \in DOMAIN ids
    <3>1. PICK b : b = [source |-> "footystats", sid |-> p, player |-> ids[p], method |-> "source_native_id"]
      OBVIOUS
    <3>2. b \in BridgeRows("footystats", ids) /\ b.sid = p
      BY <3>1 DEF BridgeRows
    <3> QED
      BY <3>2
  <2> QED
    BY <2>1, <2>2
<1> QED
  BY <1>2, <1>3, <1>4 DEF SeasonsDue, SeasonsRead

\* A load of the performance source that no row stopped, from its players on.
LEMMA PerformanceLoads ==
    ASSUME FetchTyped, market \in Markets, DOMAIN db = Tables, db.next \in Nat, IsSeq(db.checks),
           NEW l, l = Loaded("footystats"), ~l.raised
    PROVE  \E l1, l2, l3 :
              /\ Fresh(l1) /\ l1.source = "footystats" /\ ~Started("footystats").raised
              /\ l2 = LoadPlayers(l1) /\ l3 = LoadSeasonStats(l2) /\ ~l3.raised
              /\ Bridged(l2, PlayersOf("footystats")) /\ l2.source = "footystats"
              /\ Sound(l) /\ l.source = "footystats" /\ l.refused = l3.refused
              /\ l.db.bridge = l2.db.bridge /\ l.db.stats = l3.db.stats
<1>s. PICK s \in Sources : s = "footystats"
  BY DEF Sources
<1>0. PICK l0, l1 : l0 = Started(s) /\ l1 = LoadClubs(LoadCompetitions(l0))
  OBVIOUS
<1>1. Fresh(l1) /\ l1.source = s /\ l1.raised = l0.raised
  <2>1. Fresh(l0) /\ l0.source = s
    BY <1>0, StartIsFresh
  <2>2. PICK k : k = LoadCompetitions(l0)
    OBVIOUS
  <2>3. Fresh(k) /\ k.source = s /\ k.raised = l0.raised
    BY <2>1, <2>2, CompetitionsStayFresh
  <2> QED
    BY <1>0, <2>2, <2>3, ClubsStayFresh
<1>2. PICK l2 : l2 = LoadPlayers(l1)
  OBVIOUS
<1>3. Bridged(l2, PlayersOf(s)) /\ l2.source = s /\ (l1.raised => l2.raised)
  BY <1>1, <1>2, PlayersLoaded
<1>4. PICK l3 : l3 = LoadSeasonStats(l2)
  OBVIOUS
<1>5. Sound(l2)
  BY <1>3 DEF Bridged
<1>6. PICK rows, insert : l3 = SeasonsInserted(l2, rows, insert)
  BY <1>s, <1>3, <1>4 DEF LoadSeasonStats, Performance, SeasonsListed
<1>7. Sound(l3) /\ (l2.raised => l3.raised) /\ l3.source = s /\ l3.db.bridge = l2.db.bridge
  <2>1. DOMAIN l2 = LoadFields /\ DOMAIN l2.db = Tables
    BY <1>5 DEF Sound
  <2>2. /\ DOMAIN l3 = LoadFields /\ DOMAIN l3.db = Tables
        /\ l3.db.next = l2.db.next /\ l3.db.checks = l2.db.checks /\ l3.db.bridge = l2.db.bridge
        /\ l3.raised = (l2.raised \/ insert.raised) /\ l3.source = l2.source
    BY <1>6, <2>1, InsertedIs
  <2> QED
    BY <1>3, <1>5, <2>2 DEF Sound
<1>8. PICK l4 : l4 = LoadMarketValues(l3)
  OBVIOUS
<1>9. MarketLeft(l3, l4)
  BY <1>7, <1>8, ValuesLeave
<1>10. Sound(l4)
  BY <1>9 DEF MarketLeft
<1>11. l = LoadTransfers(l4)
  BY <1>s, <1>0, <1>2, <1>4, <1>8 DEF Loaded
<1>12. MarketLeft(l4, l)
  BY <1>10, <1>11, TransfersLeave
<1>13. /\ ~l3.raised /\ Sound(l) /\ l.source = s /\ l.refused = l3.refused
       /\ l.db.bridge = l2.db.bridge /\ l.db.stats = l3.db.stats
  BY <1>7, <1>9, <1>12 DEF MarketLeft
<1>14. ~l0.raised
  BY <1>1, <1>3, <1>7, <1>13
<1> QED
  BY <1>s, <1>0, <1>1, <1>2, <1>3, <1>4, <1>13, <1>14

\* What is bridged are as many as were not refused.
LEMMA BridgedCounts ==
    ASSUME NEW l, NEW P, Bridged(l, P)
    PROVE  /\ Cardinality(P) \in Nat /\ Cardinality(Of(l.db.bridge, l.source)) \in Nat
           /\ l.refused = Cardinality(P) - Cardinality(Of(l.db.bridge, l.source))
<1>1. IsFiniteSet(P) /\ IsFiniteSet(DOMAIN l.ids)
  BY FS_Subset DEF Bridged
<1>2. PICK ids, s : ids = l.ids /\ s = l.source
  OBVIOUS
<1>3. Cardinality(BridgeRows(s, ids)) = Cardinality(DOMAIN ids)
  BY <1>1, <1>2, BridgeCounts
<1>4. Of(l.db.bridge, s) = BridgeRows(s, ids) /\ l.refused = Cardinality(P) - Cardinality(DOMAIN ids)
  BY <1>2 DEF Bridged
<1> QED
  BY <1>1, <1>2, <1>3, <1>4, FS_CardinalityType

\* A load no row has stopped counts what is missing.
LEMMA LoadCounts ==
    ASSUME FetchTyped, market \in Markets, DOMAIN db = Tables, db.next \in Nat, IsSeq(db.checks),
           NEW s \in Sources, s = "footystats" => \A c \in Comp : snapshot[c] # <<>>,
           NEW l, l = Loaded(s), ~l.raised
    PROVE  /\ Sound(l) /\ l.source = s /\ l.refused = Missing(l.db, s)
<1>1. PICK P : P = PlayersOf(s)
  OBVIOUS
<1>2. CASE s = "footystats"
  <2>1. PICK l1, l2, l3 :
              /\ l3 = LoadSeasonStats(l2) /\ ~l3.raised
              /\ Bridged(l2, P) /\ l2.source = "footystats"
              /\ Sound(l) /\ l.source = "footystats" /\ l.refused = l3.refused
              /\ l.db.bridge = l2.db.bridge /\ l.db.stats = l3.db.stats
    BY <1>1, <1>2, PerformanceLoads
  <2>2. PICK ids : ids = l2.ids
    OBVIOUS
  <2>3. /\ Cardinality(OursOf(ids)) \in Nat /\ Cardinality(Of(l3.db.stats, s)) \in Nat
        /\ l3.refused = l2.refused + (Cardinality(OursOf(ids)) - Cardinality(Of(l3.db.stats, s)))
    BY <1>2, <2>1, <2>2, SeasonsAreCounted
  <2>4. /\ Cardinality(P) \in Nat /\ Cardinality(Of(l2.db.bridge, s)) \in Nat
        /\ l2.refused = Cardinality(P) - Cardinality(Of(l2.db.bridge, s))
    BY <1>2, <2>1, BridgedCounts
  <2>5. Of(l.db.bridge, s) = BridgeRows(s, ids)
    BY <1>2, <2>1, <2>2 DEF Bridged
  <2>6. Cardinality(SeasonsDue(l.db, s)) = Cardinality(OursOf(ids))
    BY <1>2, <2>5, DueIsRead, SeasonsArePairs
  <2> QED
    BY <1>1, <1>2, <2>1, <2>3, <2>4, <2>6 DEF Missing
<1>3. CASE s = "transfermarkt"
  <2>1. PICK l0 : l0 = Started(s)
    OBVIOUS
  <2>2. PICK l1 : l1 = LoadClubs(LoadCompetitions(l0)) /\ Fresh(l1) /\ l1.source = s
    <3>1. Fresh(l0) /\ l0.source = s
      BY <2>1, StartIsFresh
    <3>2. PICK k : k = LoadCompetitions(l0) /\ Fresh(k) /\ k.source = s
      BY <3>1, CompetitionsStayFresh
    <3> QED
      BY <3>2, ClubsStayFresh
  <2>3. PICK l2 : l2 = LoadPlayers(l1) /\ Bridged(l2, P) /\ l2.source = s
    BY <1>1, <2>2, PlayersLoaded
  <2>4. Sound(l2) /\ Of(l2.db.stats, s) = {} /\ LoadSeasonStats(l2) = l2
    BY <1>3, <2>3 DEF Bridged, LoadSeasonStats, Performance
  <2>5. PICK l4 : l4 = LoadMarketValues(l2)
    OBVIOUS
  <2>6. MarketLeft(l2, l4)
    BY <2>4, <2>5, ValuesLeave
  <2>7. l = LoadTransfers(l4)
    BY <2>1, <2>2, <2>3, <2>4, <2>5 DEF Loaded
  <2>8. MarketLeft(l4, l)
    BY <2>6, <2>7, TransfersLeave DEF MarketLeft
  <2>9. /\ Sound(l) /\ l.source = s /\ l.refused = l2.refused /\ l.db.bridge = l2.db.bridge
        /\ l.db.stats = l2.db.stats
    BY <2>3, <2>6, <2>8 DEF MarketLeft
  <2>10. Cardinality(SeasonsDue(l.db, s)) = 0 /\ Cardinality(Of(l.db.stats, s)) = 0
    BY <1>3, <2>4, <2>9, FS_EmptySet DEF SeasonsDue
  <2>11. /\ Cardinality(P) \in Nat /\ Cardinality(Of(l2.db.bridge, s)) \in Nat
         /\ l2.refused = Cardinality(P) - Cardinality(Of(l2.db.bridge, s))
    BY <2>3, BridgedCounts
  <2> QED
    BY <1>1, <2>9, <2>10, <2>11 DEF Missing
<1> QED
  BY <1>2, <1>3 DEF Sources

-----------------------------------------------------------------------------
(* The count, load after load *)

RefusalsCounted(d, s) ==
    /\ Last(d.checks).source = s
    /\ Last(d.checks).refused = Missing(d, s)

\* The check that is recorded with it says so.
LEMMA PersistedCounts ==
    ASSUME NEW l, Sound(l), NEW s, l.source = s, l.refused = Missing(l.db, s)
    PROVE  /\ DOMAIN PersistChecks(l) = Tables /\ PersistChecks(l).next \in Nat
           /\ IsSeq(PersistChecks(l).checks) /\ RefusalsCounted(PersistChecks(l), s)
<1>1. PICK d : d = PersistChecks(l)
  OBVIOUS
<1>2. PICK report : report = ReportRejectedRows(l)
  OBVIOUS
<1>3. /\ DOMAIN d = Tables /\ d.next = l.db.next /\ d.bridge = l.db.bridge /\ d.stats = l.db.stats
      /\ d.checks = Append(l.db.checks, report)
  BY <1>1, <1>2 DEF PersistChecks, Sound, Tables
<1>4. report.source = s /\ report.refused = l.refused
  BY <1>2 DEF ReportRejectedRows
<1>5. IsSeq(d.checks) /\ Last(d.checks) = report
  <2>1. PICK checks : checks = l.db.checks /\ IsSeq(checks)
    BY DEF Sound
  <2>2. IsSeq(Append(checks, report)) /\ Len(Append(checks, report)) = Len(checks) + 1
        /\ Append(checks, report)[Len(checks) + 1] = report
    BY <2>1, Appended
  <2> QED
    BY <1>3, <2>1, <2>2 DEF Last
<1>6. Missing(d, s) = Missing(l.db, s)
  BY <1>3 DEF Missing, SeasonsDue
<1> QED
  BY <1>1, <1>3, <1>4, <1>5, <1>6 DEF Sound, RefusalsCounted

LoadInv ==
    /\ FetchTyped /\ market \in Markets
    /\ DOMAIN db = Tables /\ db.next \in Nat /\ IsSeq(db.checks)
    /\ DOMAIN ended = {"loads", "source", "result"} /\ ended.source \in Sources
    /\ ended.result = "committed" =>
            /\ ended.source = "footystats" => run.at = "complete"
            /\ RefusalsCounted(db, ended.source)

\* What the files say, when they do not change.
LEMMA FilesStay ==
    ASSUME UNCHANGED <<snapshot, roster, market>>, NEW d, NEW s
    PROVE  RefusalsCounted(d, s)' = RefusalsCounted(d, s)
<1>1. Scope' = Scope
  BY DEF Scope, Where
<1>2. \A c : Lines(c)' = Lines(c)
  BY DEF Lines
<1>3. \A c : Headers(c)' = Headers(c)
  BY <1>2 DEF Headers, Where
<1>4. \A c : RosterRead(c)' = RosterRead(c)
  BY <1>3 DEF RosterRead
<1>5. \A c, p : LinesOf(c, p)' = LinesOf(c, p)
  BY <1>2 DEF LinesOf, Where
<1>6. DetailsRead' = DetailsRead
  BY <1>1, <1>5 DEF DetailsRead
<1>7. PlayersOf(s)' = PlayersOf(s)
  BY <1>1, <1>4 DEF PlayersOf
<1>8. SeasonsDue(d, s)' = SeasonsDue(d, s)
  BY <1>4, <1>6, <1>7 DEF SeasonsDue
<1> QED
  BY <1>7, <1>8 DEF RefusalsCounted, Missing

\* Nothing but a load changes what a committed load has said.
LEMMA InvNext ==
    ASSUME LoadInv, [Next]_vars
    PROVE  LoadInv'
<1>1. FetchTyped'
  BY NextTyped DEF LoadInv
<1>2. CASE \E s \in Sources : Load(s)
  <2>1. PICK s, result :
            /\ s \in Sources
            /\ s = "footystats" => run.at = "complete"
            /\ result = IF Loaded(s).raised THEN "error"
                        ELSE IF ChecksFail(Loaded(s).db) \/ SuiteFails(Loaded(s).db) THEN "failed" ELSE "committed"
            /\ db' = IF result = "committed" THEN PersistChecks(Loaded(s)) ELSE db
            /\ ended' = [loads |-> ended.loads + 1, source |-> s, result |-> result]
            /\ UNCHANGED market /\ UNCHANGED fetchVars
    BY <1>2 DEF Load
  <2>2. UNCHANGED <<snapshot, roster, market, run>>
    BY <2>1 DEF fetchVars
  <2>3. CASE result # "committed"
    BY <1>1, <2>1, <2>3 DEF LoadInv
  <2>4. CASE result = "committed"
    <3>1. PICK l : l = Loaded(s) /\ ~l.raised
      BY <2>1, <2>4
    <3>2. s = "footystats" => \A c \in Comp : snapshot[c] # <<>>
      BY <2>1 DEF LoadInv, FetchTyped
    <3>3. Sound(l) /\ l.source = s /\ l.refused = Missing(l.db, s)
      BY <2>1, <3>1, <3>2, LoadCounts DEF LoadInv
    <3>4. PICK d : d = PersistChecks(l)
      OBVIOUS
    <3>5. /\ DOMAIN d = Tables /\ d.next \in Nat /\ IsSeq(d.checks) /\ RefusalsCounted(d, s)
      BY <3>3, <3>4, PersistedCounts
    <3>6. RefusalsCounted(d, s)'
      BY <2>2, <3>5, FilesStay
    <3>7. db' = d /\ ended'.source = s /\ ended'.result = "committed" /\ DOMAIN ended' = {"loads", "source", "result"}
      BY <2>1, <2>4, <3>1, <3>4
    <3>8. RefusalsCounted(db, ended.source)'
      BY <3>6, <3>7
    <3> QED
      BY <1>1, <2>1, <2>2, <3>5, <3>7, <3>8 DEF LoadInv
  <2> QED
    BY <2>3, <2>4
<1>3. CASE Download
  BY <1>1, <1>3 DEF Download, LoadInv
<1>4. CASE UNCHANGED vars
  <2>1. UNCHANGED <<snapshot, roster, market, run, db, ended>>
    BY <1>4 DEF vars
  <2>2. RefusalsCounted(db, ended.source)' = RefusalsCounted(db, ended.source)
    BY <2>1, FilesStay
  <2> QED
    BY <1>1, <2>1, <2>2 DEF LoadInv
<1>5. CASE FetchNext /\ UNCHANGED loadVars
  <2>1. UNCHANGED <<market, db, ended>>
    BY <1>5 DEF loadVars
  <2>2. run.at # "complete"
    BY <1>5 DEF FetchNext, StartRun, Visit, FetchPlayer, Close, Kill, EndRun, StopBetween, Move, Resumable
  <2>3. CASE ended.result # "committed"
    BY <1>1, <2>1, <2>3 DEF LoadInv
  <2>4. CASE ended.result = "committed"
    <3>1. ended.source = "transfermarkt"
      BY <2>2, <2>4 DEF LoadInv, Sources
    <3>2. RefusalsCounted(db, "transfermarkt")' = RefusalsCounted(db, "transfermarkt")
      BY <2>1 DEF RefusalsCounted, Missing, SeasonsDue, PlayersOf
    <3> QED
      BY <1>1, <2>1, <2>4, <3>1, <3>2 DEF LoadInv
  <2> QED
    BY <2>3, <2>4
<1> QED
  BY <1>2, <1>3, <1>4, <1>5 DEF Next

\* Before the first load.
LEMMA LoadInit ==
    ASSUME Init PROVE LoadInv
<1>1. FetchTyped
  BY InitTyped
<1>2. market \in Markets /\ db \in Priors
  BY DEF Init
<1>3. /\ DOMAIN ended = {"loads", "source", "result"} /\ ended.source = "footystats" /\ ended.result = "none"
  BY DEF Init
<1>4. DOMAIN db = Tables /\ db.next \in Nat /\ db.checks \in Seq(Range(db.checks))
  BY <1>2, PriorAssumption DEF Tables
<1>5. IsSeq(db.checks)
  BY <1>4, SeqIsSeq
<1> QED
  BY <1>1, <1>2, <1>3, <1>4, <1>5 DEF LoadInv, Sources

\* The check recorded with a committed load counts every player and every season of
\* the source that is missing from the schema, no more and no fewer (load_providers.py
\* _report_rejected_rows): however the rosters changed while they were fetched,
\* whichever runs were killed, and however many batches were refused and halved, for
\* loads of both sources in any number and order.
THEOREM EveryRefusalCounted == Spec => []RefusalsAreCounted
<1>1. Init => LoadInv
  BY LoadInit
<1>2. LoadInv /\ [Next]_vars => LoadInv'
  BY InvNext
<1>3. LoadInv => RefusalsAreCounted
  <2> SUFFICES ASSUME LoadInv, ended.result = "committed" PROVE RefusalsAreCounted
    BY DEF RefusalsAreCounted
  <2>1. RefusalsCounted(db, ended.source)
    BY DEF LoadInv
  <2> QED
    BY <2>1 DEF RefusalsCounted, Missing, SeasonsDue, PlayersOf, RefusalsAreCounted
<1> QED
  BY <1>1, <1>2, <1>3, PTL DEF Spec

-----------------------------------------------------------------------------
(* What was fetched *)

\* Nothing the performance source tells of a player is refused.
LEMMA IdentitiesStored ==
    ASSUME NEW r \in RowsOf("footystats")
    PROVE  PlayerVerdict(r) = "stored"
<1>1. PICK c \in Comp, row \in ListedRows : r = Completed(Identity(row, c))
  BY DEF RowsOf, IdentityRows
<1>2. PICK x : x = Identity(row, c)
  OBVIOUS
<1>3. /\ DOMAIN x = {"sid", "comp", "height", "club"} /\ x.height # "impossible"
  BY <1>2, RosterAssumption DEF Identity
<1>4. r.birth = "plain" /\ r.height = x.height
  BY <1>1, <1>2, <1>3 DEF Completed
<1> QED
  BY <1>3, <1>4 DEF PlayerVerdict

\* So every player that is listed is bridged.
LEMMA EveryoneBridged ==
    ASSUME FetchTyped, market \in Markets, NEW l, Fresh(l), l.source = "footystats",
           NEW m, m = LoadPlayers(l)
    PROVE  DOMAIN m.ids = PlayersOf("footystats")
<1>1. PICK T, ordered : T = RowsOf("footystats") /\ ordered = Identities(l)
  OBVIOUS
<1>2. /\ ordered \in Seq(T) /\ SidsOf(ordered) = PlayersOf("footystats")
      /\ DOMAIN m.ids = {ordered[i].sid : i \in {j \in DOMAIN ordered : PlayerVerdict(ordered[j]) = "stored"}}
  BY <1>1, PlayersLoaded DEF Sources
<1>3. \A i \in DOMAIN ordered : PlayerVerdict(ordered[i]) = "stored"
  BY <1>1, <1>2, LenProperties, IdentitiesStored
<1> QED
  BY <1>2, <1>3 DEF SidsOf

\* A player that was recorded as done is on the roster that is read.
LEMMA DoneIsListed ==
    ASSUME FetchTyped, NEW c \in Comp, NEW p \in progress[c]
    PROVE  p \in Player /\ p \in IdsOf(RosterRead(c))
<1>1. PICK known \in Seq(KnownRows) : known = roster[c]
  BY DEF FetchTyped
<1>2. p \in RowIds(known)
  BY <1>1 DEF FetchTyped
<1>3. PICK i \in DOMAIN known : known[i].id = p
  BY <1>2 DEF RowIds
<1>4. known # <<>>
  BY <1>3
<1>5. known[i] \in KnownRows
  BY <1>3, LenProperties
<1>6. p \in Player /\ p # None
  BY <1>3, <1>5, FetchAssumption DEF KnownRows, ListedRows
<1>7. RosterRead(c) = known
  BY <1>1, <1>4 DEF RosterRead
<1> QED
  BY <1>3, <1>6, <1>7 DEF IdsOf

\* ... and a line of his can be read.
LEMMA DoneHasLine ==
    ASSUME FetchTyped, FilesInv, run.at = "complete", NEW c \in Comp, Legible(c), NEW p \in progress[c]
    PROVE  \E i \in DOMAIN LinesOf(c, p) : TRUE
<1>1. Flushed(c) = {}
  BY DEF Flushed
<1>2. p \in About(snapshot[c])
  BY <1>1 DEF FilesInv, RecordedIsWritten
<1>3. PICK i \in DOMAIN snapshot[c] : p \in PlayersIn(snapshot[c][i].lines)
  BY <1>2 DEF About
<1>4. PICK line \in Holds(snapshot[c][i].lines) : AboutPlayer(line, p)
  BY <1>3 DEF PlayersIn, Holds, AboutPlayer
<1>5. line \in Holds(Lines(c))
  BY <1>3, <1>4, LinesTyped
<1>6. line \in Holds(LinesOf(c, p))
  BY <1>4, <1>5, LinesOfIs
<1> QED
  BY <1>6 DEF Holds

\* A season all of the player's lines tell is read as it was fetched.
LEMMA SeasonIsRead ==
    ASSUME FetchTyped, FilesInv, run.at = "complete", NEW c \in Comp, Legible(c), NEW p \in progress[c],
           \A d \in Comp : \A i \in DOMAIN LinesOf(d, p) : c \in DOMAIN LinesOf(d, p)[i].details
    PROVE  Season(p, c) \in Seasons /\ Season(p, c).figures = Stats(FiguresOf[p][c])
<1>1. p \in Player /\ p \in IdsOf(RosterRead(c))
  BY DoneIsListed
<1>2. PICK k \in DOMAIN LinesOf(c, p) : TRUE
  BY DoneHasLine
<1>3. Holds(LinesOf(c, p)) # {}
  BY <1>2 DEF Holds
<1>4. Holds(Scope) = Comp
  <2>1. \A d \in Comp : snapshot[d] # <<>>
    BY DEF FetchTyped
  <2> QED
    BY <2>1, ScopeIs, LenProperties DEF Enumerates, Holds
<1>5. c \in DOMAIN DetailsRead[p]
  BY <1>1, <1>3, <1>4, DetailsAre
<1>6. GetPlayerStats(DetailsRead[p], c) # None /\ GetPlayerStats(DetailsRead[p], c) = Stats(FiguresOf[p][c])
  BY <1>1, <1>5, RecordsAre
<1>7. Season(p, c) \in SeasonsOf(c)
  BY <1>1, <1>6 DEF SeasonsOf, Recordable
<1> QED
  BY <1>4, <1>6, <1>7, SeasonIs DEF Seasons

\* What the property asks of a player and a competition, of a schema.
Kept(d, p, c) ==
    \E b \in Of(d.bridge, "footystats") :
        /\ b.sid = p
        /\ \/ FiguresOf[p][c] = "beyond"
           \/ \E e \in Comp : \E i \in DOMAIN LinesOf(e, p) : c \notin DOMAIN LinesOf(e, p)[i].details
           \/ \E f \in Of(d.stats, "footystats") :
                    f.player = b.player /\ f.comp = c /\ f.figures = Expected(FiguresOf[p][c])

\* Figures that are neither refused nor the end of the load are kept as expected.
LEMMA FiguresKept ==
    ASSUME NEW figures, figures # "beyond", NEW row,
           row.figures = ReconcileContradictions(Stats(figures)), StatsVerdict(row) # "raises"
    PROVE  row.figures = Expected(figures) /\ StatsVerdict(row) = "stored"
BY DEF ReconcileContradictions, Stats, Expected, StatsVerdict

\* A load that is not given up keeps what was fetched.
LEMMA LoadKeeps ==
    ASSUME FetchTyped, FilesInv, market \in Markets, DOMAIN db = Tables, db.next \in Nat, IsSeq(db.checks),
           run.at = "complete", NEW l, l = Loaded("footystats"), ~l.raised
    PROVE  \A c \in Comp : \A p \in progress[c] : Kept(l.db, p, c)
<1>1. PICK l1, l2, l3 :
              /\ Fresh(l1) /\ l1.source = "footystats" /\ ~Started("footystats").raised
              /\ l2 = LoadPlayers(l1) /\ l3 = LoadSeasonStats(l2) /\ ~l3.raised
              /\ Bridged(l2, PlayersOf("footystats")) /\ l2.source = "footystats"
              /\ l.db.bridge = l2.db.bridge /\ l.db.stats = l3.db.stats
  BY PerformanceLoads
<1>2. PICK ids : ids = l2.ids /\ DOMAIN ids = PlayersOf("footystats")
  BY <1>1, EveryoneBridged
<1>3. Of(l.db.bridge, "footystats") = BridgeRows("footystats", ids)
  BY <1>1, <1>2 DEF Bridged
<1>4. \A x \in OursOf(ids) :
          /\ StatsVerdict(RowOf(ids, "footystats", x)) # "raises"
          /\ StatsVerdict(RowOf(ids, "footystats", x)) = "stored"
                  => RowOf(ids, "footystats", x) \in l.db.stats
  BY <1>1, <1>2, SeasonsAreCounted
<1>5. Holds(Scope) = Comp
  <2>1. \A d \in Comp : snapshot[d] # <<>>
    BY DEF FetchTyped
  <2> QED
    BY <2>1, ScopeIs, LenProperties DEF Enumerates, Holds
<1>6. \A c \in Comp : Legible(c)
  <2>1. \A i \in DOMAIN Scope : Legible(Scope[i])
    BY <1>1 DEF Started
  <2> QED
    BY <1>5, <2>1 DEF Holds
<1>7. SUFFICES ASSUME NEW c \in Comp, NEW p \in progress[c] PROVE Kept(l.db, p, c)
  OBVIOUS
<1>8. p \in Player /\ p \in IdsOf(RosterRead(c))
  BY DoneIsListed
<1>9. p \in DOMAIN ids
  <2>1. PICK i \in DOMAIN Scope : Scope[i] = c
    BY <1>5 DEF Holds
  <2> QED
    BY <1>2, <1>8, <2>1 DEF PlayersOf
<1>10. PICK b \in Of(l.db.bridge, "footystats") : b.sid = p /\ b.player = ids[p]
  <2>1. PICK b : b = [source |-> "footystats", sid |-> p, player |-> ids[p], method |-> "source_native_id"]
    OBVIOUS
  <2>2. b \in BridgeRows("footystats", ids) /\ b.sid = p /\ b.player = ids[p]
    BY <1>9, <2>1 DEF BridgeRows
  <2> QED
    BY <1>3, <2>2
<1>11. ASSUME FiguresOf[p][c] # "beyond",
              \A d \in Comp : \A i \in DOMAIN LinesOf(d, p) : c \in DOMAIN LinesOf(d, p)[i].details
       PROVE  \E f \in Of(l.db.stats, "footystats") :
                  f.player = b.player /\ f.comp = c /\ f.figures = Expected(FiguresOf[p][c])
  <2>1. Season(p, c) \in Seasons /\ Season(p, c).figures = Stats(FiguresOf[p][c])
    BY <1>6, <1>11, SeasonIsRead
  <2>2. PICK x : x = Season(p, c) /\ x.sid = p /\ x.comp = c
    BY SeasonIs
  <2>3. x \in OursOf(ids)
    BY <1>9, <2>1, <2>2 DEF OursOf
  <2>4. PICK f : f = RowOf(ids, "footystats", x)
    OBVIOUS
  <2>5. f.player = ids[p] /\ f.comp = c /\ f.source = "footystats"
        /\ f.figures = ReconcileContradictions(Stats(FiguresOf[p][c]))
    BY <2>1, <2>2, <2>4 DEF RowOf
  <2>6. StatsVerdict(f) # "raises" /\ (StatsVerdict(f) = "stored" => f \in l.db.stats)
    BY <1>4, <2>3, <2>4
  <2>7. f.figures = Expected(FiguresOf[p][c]) /\ f \in l.db.stats
    BY <1>11, <2>5, <2>6, FiguresKept
  <2> QED
    BY <1>10, <2>5, <2>7 DEF Of
<1> QED
  BY <1>10, <1>11 DEF Kept

KeptInv ==
    ended.source = "footystats" /\ ended.result = "committed" =>
        \A c \in Comp : \A p \in progress[c] : Kept(db, p, c)

\* And it stays: a complete generation is not fetched again.
LEMMA KeptNext ==
    ASSUME LoadInv, FilesInv, KeptInv, [Next]_vars
    PROVE  KeptInv'
<1>1. CASE \E s \in Sources : Load(s)
  <2>1. PICK s, result :
            /\ s \in Sources
            /\ s = "footystats" => run.at = "complete"
            /\ result = IF Loaded(s).raised THEN "error"
                        ELSE IF ChecksFail(Loaded(s).db) \/ SuiteFails(Loaded(s).db) THEN "failed" ELSE "committed"
            /\ db' = IF result = "committed" THEN PersistChecks(Loaded(s)) ELSE db
            /\ ended' = [loads |-> ended.loads + 1, source |-> s, result |-> result]
            /\ UNCHANGED market /\ UNCHANGED fetchVars
    BY <1>1 DEF Load
  <2>2. UNCHANGED <<snapshot, progress>>
    BY <2>1 DEF fetchVars
  <2>3. SUFFICES ASSUME s = "footystats", result = "committed" PROVE KeptInv'
    BY <2>1 DEF KeptInv
  <2>4. PICK l : l = Loaded("footystats") /\ ~l.raised
    BY <2>1, <2>3
  <2>5. \A c \in Comp : \A p \in progress[c] : Kept(l.db, p, c)
    BY <2>1, <2>3, <2>4, LoadKeeps DEF LoadInv
  <2>6. db' = PersistChecks(l)
    BY <2>1, <2>3, <2>4
  <2>7. db'.bridge = l.db.bridge /\ db'.stats = l.db.stats
    <3>1. l.db = Loaded("footystats").db /\ Sound(l)
      BY <2>4, PerformanceLoads DEF LoadInv
    <3> QED
      BY <2>6, <3>1 DEF PersistChecks, Sound, Tables
  <2>8. \A c, p : LinesOf(c, p)' = LinesOf(c, p)
    <3>1. \A c : Lines(c)' = Lines(c)
      BY <2>2 DEF Lines
    <3> QED
      BY <3>1 DEF LinesOf, Where
  <2> QED
    BY <2>2, <2>5, <2>7, <2>8 DEF KeptInv, Kept
<1>2. CASE Download
  BY <1>2 DEF Download, LoadInv, KeptInv
<1>3. CASE UNCHANGED vars
  <2>1. UNCHANGED <<snapshot, progress, db, ended>>
    BY <1>3 DEF vars
  <2>2. \A c, p : LinesOf(c, p)' = LinesOf(c, p)
    <3>1. \A c : Lines(c)' = Lines(c)
      BY <2>1 DEF Lines
    <3> QED
      BY <3>1 DEF LinesOf, Where
  <2> QED
    BY <2>1, <2>2 DEF KeptInv, Kept
<1>4. CASE FetchNext /\ UNCHANGED loadVars
  <2>1. run.at # "complete"
    BY <1>4 DEF FetchNext, StartRun, Visit, FetchPlayer, Close, Kill, EndRun, StopBetween, Move, Resumable
  <2> QED
    BY <1>4, <2>1 DEF loadVars, LoadInv, KeptInv
<1> QED
  BY <1>1, <1>2, <1>3, <1>4 DEF Next

\* After a committed load every player that was ever recorded as done is bridged,
\* also those who joined the roster after the file was begun, and has the season that
\* was fetched, as it was fetched, unless a constraint refuses it or a line of his
\* lacks it (footystats_snapshot.py 84-106: "expected, fetched, and then dropped").
\* What is recorded as done is on the roster that is read, its line can be read, and
\* no row of a player of this source is refused.
THEOREM FetchedStaysLoaded == Spec => []FetchedIsLoaded
<1> DEFINE Inv == LoadInv /\ FilesInv /\ KeptInv
<1>1. Init => Inv
  <2>1. Init => LoadInv /\ FilesInv
    BY LoadInit, FilesInit
  <2>2. Init => KeptInv
    BY DEF Init, KeptInv
  <2> QED
    BY <2>1, <2>2
<1>2. Inv /\ [Next]_vars => Inv'
  BY InvNext, NextPreserves, KeptNext
<1>3. Inv => FetchedIsLoaded
  BY DEF KeptInv, Kept, FetchedIsLoaded
<1> QED
  BY <1>1, <1>2, <1>3, PTL DEF Spec

=============================================================================
