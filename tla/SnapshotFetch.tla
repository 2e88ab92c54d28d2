--------------------------- MODULE SnapshotFetch ----------------------------
(***************************************************************************)
(* The files of one refresh generation and the runs that fill them         *)
(* (pipelines/footystats/ingest.py, generations.py): for each competition  *)
(* a gzip file of lines, appended to by every run, the players that are    *)
(* done, the players that are expected, and the clubs.                     *)
(*                                                                         *)
(* A run visits the competitions in order.  It may stop at its deadline    *)
(* before any player, be refused its key, miss a player, or be killed.     *)
(* Between runs, and between two pages of one roster, the provider's       *)
(* rosters change.  What a killed run had written and not flushed may have *)
(* reached the disk or not.                                                *)
(*                                                                         *)
(* A gzip file is read member by member up to the end of the first that    *)
(* was not finished; if one was appended after that, zlib refuses it.      *)
(***************************************************************************)
EXTENDS FootyStatsClient

CONSTANTS
    Player, Comp,
    CompOrder,        \* config/competitions.yaml: the competitions, in order
    Rosters,          \* the rosters the provider can have for a competition
    FiguresOf,        \* the figures of a player in a competition
    ListedClubs,      \* the clubs /league-teams lists for a competition
    PageSize,         \* rows of one page
    CheckpointEvery,  \* CHECKPOINT_EVERY
    Faults,           \* what may go wrong: "miss", "key", "deadline", "kill"
    MaxRuns,          \* bound: runs of the fetch
    MaxMoves          \* bound: changes of a roster

ASSUME FetchAssumption ==
    /\ IsFiniteSet(Player) /\ IsFiniteSet(Comp) /\ None \notin Player
    /\ CompOrder \in Seq(Comp) /\ Comp = {CompOrder[i] : i \in DOMAIN CompOrder}
    /\ PageSize \in Nat \ {0} /\ CheckpointEvery \in Nat \ {0}
    /\ MaxRuns \in Nat /\ MaxMoves \in Nat
    /\ Faults \subseteq {"miss", "key", "deadline", "kill"}

\* A competition is configured once, a row is about a player or about nobody, and
\* what is known is not what stands for the unknown.
ASSUME RosterAssumption ==
    /\ \A i, j \in DOMAIN CompOrder : CompOrder[i] = CompOrder[j] => i = j
    /\ \A c \in Comp : \A rows \in Rosters[c] :
          rows \in Seq({row \in Range(rows) : row.id \in Player \cup {None}})
    /\ None # "impossible" /\ \A p \in Player, c \in Comp : Stats(FiguresOf[p][c]) # None

VARIABLES
    offered,    \* the provider's roster of a competition
    appeared,   \* the competitions the provider has a record of a player in
    snapshot,   \* season-N.jsonl.gz: its members, the lines of each
    progress,   \* season-N.progress.json: the players that are done
    roster,     \* season-N.roster.json: rows, in the order first seen
    clubs,      \* season-N.clubs.json, None before it is written
    finished,   \* metadata.competitions_complete
    run,        \* the run, if one is working
    runs, moves

fetchVars == <<offered, appeared, snapshot, progress, roster, clubs, finished, run, runs, moves>>

Idle == [at |-> "idle"]
Between(todo) == [at |-> "between", todo |-> todo]

Answers(fault) == IF fault \in Faults THEN Get ELSE {"answer"}

IdsOf(rows) == {rows[i].id : i \in DOMAIN rows} \ {None}

\* Everything the provider holds on a player, as one line of the snapshot keeps it.
Details(p) == [c \in appeared[p] |-> FiguresOf[p][c]]

-----------------------------------------------------------------------------
(* Files *)

\* Players newly listed are added, those listed again are described anew, and
\* those no longer listed stay.
RecordRoster(stored, rows) ==
    FoldLeft(LAMBDA merged, row :
                IF \E i \in DOMAIN merged : merged[i].id = row.id
                THEN [i \in DOMAIN merged |-> IF merged[i].id = row.id THEN row ELSE merged[i]]
                ELSE Append(merged, row),
             stored, Named(rows))

ExpectedPlayers(c) == IdsOf(roster[c])

Member(closed, lines) == [closed |-> closed, lines |-> lines]
HeaderLine(rows) == [kind |-> "roster", rows |-> rows]
PlayerLine(p) == [kind |-> "player", player |-> p, details |-> Details(p)]

\* The first member that was not finished is the last that can be read ...
Torn(c) == {i \in DOMAIN snapshot[c] : ~snapshot[c][i].closed}
\* ... and the file can be read if nothing follows it.
Legible(c) == \A i \in Torn(c) : i = Len(snapshot[c])
Lines(c) == FlattenSeq([i \in DOMAIN snapshot[c] |-> snapshot[c][i].lines])
LinesOf(c, p) == Where(Lines(c), LAMBDA line : line.kind = "player" /\ line.player = p)
PlayersIn(lines) == {lines[i].player : i \in {j \in DOMAIN lines : lines[j].kind = "player"}}
Readable(c) ==
    IF Legible(c) THEN UNION {PlayersIn(snapshot[c][i].lines) : i \in DOMAIN snapshot[c]} ELSE {}

-----------------------------------------------------------------------------
(* A run *)

\* GenerationStore.resolve: the open generation is resumed.  One that is
\* finished, or has failed, never is; what would be started is another's files.
Resumable == run.at \notin {"complete", "failed"}

StartRun ==
    /\ Resumable /\ run = Idle /\ runs < MaxRuns
    /\ run' = Between(CompOrder)
    /\ runs' = runs + 1
    /\ UNCHANGED <<offered, appeared, snapshot, progress, roster, clubs, finished, moves>>

\* Deadline.expired: at any check of it, where a run has one.
Expired == "deadline" \in Faults

\* Progress without a snapshot cannot be trusted.
ReadProgress(c) == IF snapshot[c] = <<>> THEN {} ELSE progress[c]

\* The clubs are asked for once, and going without them is not fatal.
RecordClubs(stored, listed) == IF stored = None THEN listed ELSE stored

\* CompetitionResult.complete, and what the generation is told of it.
Whole(c, done, refused) == ExpectedPlayers(c) \subseteq done /\ ~refused
Marked(c, whole) == IF whole THEN finished \cup {c} ELSE finished \ {c}

\* The first page is of the roster as it was, the others of the roster as it is.
Paged(before, after) ==
    LET rows(k) == IF k = 1 THEN before ELSE after
        upto(k) == IF k * PageSize < Len(rows(k)) THEN k * PageSize ELSE Len(rows(k))
        pages == (Len(before) + PageSize - 1) \div PageSize
    IN  [k \in 1 .. pages |-> SubSeq(rows(k), (k - 1) * PageSize + 1, upto(k))]

\* The roster is fetched, merged into what is expected, and the file opened.
Open(c, rows, listed) ==
    LET merged == RecordRoster(roster[c], rows)
        header == IF snapshot[c] = <<>> THEN <<HeaderLine(rows)>> ELSE <<>>
    IN  /\ roster' = [roster EXCEPT ![c] = merged]
        /\ clubs' = [clubs EXCEPT ![c] = RecordClubs(@, listed)]
        /\ run' = [at |-> "open", comp |-> c, todo |-> Tail(run.todo),
                   left |-> Where([i \in DOMAIN merged |-> i],
                                  LAMBDA i : merged[i].id \notin ReadProgress(c)),
                   done |-> ReadProgress(c), lines |-> header, flushed |-> 0, refused |-> FALSE]

Visit ==
    /\ run.at = "between" /\ run.todo # <<>>
    /\ LET c == Head(run.todo) IN
       \E got \in Answers("miss") :
       \/ /\ got = "answer"
          /\ \E now \in IF moves < MaxMoves THEN Rosters[c] ELSE {offered[c]},
                listed \in {ListedClubs[c]} \cup IF "miss" \in Faults THEN {None} ELSE {} :
                LET pages == Paged(offered[c], now) IN
                /\ Open(c, RosterPages(pages, Len(pages)), listed)
                /\ offered' = [offered EXCEPT ![c] = now]
                /\ moves' = IF now = offered[c] THEN moves ELSE moves + 1
                /\ appeared' = [p \in Player |-> appeared[p] \cup
                                    IF p \in IdsOf(now) THEN {c} ELSE {}]
          /\ UNCHANGED finished
       \/ /\ got \in {"failed", "not_subscribed"}
          /\ run' = Between(Tail(run.todo))
          /\ finished' = Marked(c, FALSE)
          /\ UNCHANGED <<offered, appeared, roster, clubs, moves>>
       \/ /\ got = "auth" /\ "key" \in Faults
          /\ run' = [at |-> "failed"]
          /\ finished' = Marked(c, FALSE)
          /\ UNCHANGED <<offered, appeared, roster, clubs, moves>>
    /\ UNCHANGED <<snapshot, progress, runs>>

\* Mutant of FetchPlayer: the progress is written and the file is not flushed.
FetchPlayerUnflushed ==
    /\ run.at = "open" /\ run.left # <<>> /\ ~run.refused
    /\ LET p == roster[run.comp][Head(run.left)].id
       IN  /\ run' = [run EXCEPT !.left = Tail(@), !.done = @ \cup {p},
                                 !.lines = Append(@, PlayerLine(p))]
           /\ progress' = [progress EXCEPT ![run.comp] = run.done \cup {p}]
    /\ UNCHANGED <<offered, appeared, snapshot, roster, clubs, finished, runs, moves>>

\* The next player that is not done: written down, or missed.
FetchPlayer ==
    /\ run.at = "open" /\ run.left # <<>> /\ ~run.refused
    /\ LET i == Head(run.left)
           p == roster[run.comp][i].id
           lines == Append(run.lines, PlayerLine(p))
           done == run.done \cup {p}
           flush == i % CheckpointEvery = 0
       IN  \E got \in Answers("miss") :
           \/ /\ got = "answer"
              /\ run' = [run EXCEPT !.left = Tail(@), !.done = done, !.lines = lines,
                                    !.flushed = IF flush THEN Len(lines) ELSE @]
              /\ progress' = IF flush THEN [progress EXCEPT ![run.comp] = done] ELSE progress
           \/ /\ got \in {"failed", "not_subscribed"}
              /\ run' = [run EXCEPT !.left = Tail(@)]
              /\ UNCHANGED progress
           \/ /\ got = "auth" /\ "key" \in Faults
              /\ run' = [run EXCEPT !.refused = TRUE]
              /\ UNCHANGED progress
    /\ UNCHANGED <<offered, appeared, snapshot, roster, clubs, finished, runs, moves>>

\* The file is finished and the progress written: the roster is through, the
\* deadline has passed, or the key is refused.
Close ==
    /\ run.at = "open"
    /\ run.left = <<>> \/ run.refused \/ Expired
    /\ LET c == run.comp IN
       /\ snapshot' = [snapshot EXCEPT ![c] = Append(@, Member(TRUE, run.lines))]
           /\ progress' = [progress EXCEPT ![c] = run.done]
           /\ finished' = Marked(c, Whole(c, run.done, run.refused))
           /\ run' = IF run.refused THEN [at |-> "failed"]
                     ELSE Between(IF run.left = <<>> THEN run.todo ELSE <<>>)
    /\ UNCHANGED <<offered, appeared, roster, clubs, runs, moves>>

\* The process dies with the file open: all that was flushed is on disk, and
\* perhaps more.
Kill ==
    /\ "kill" \in Faults /\ run.at = "open"
    /\ \E n \in run.flushed .. Len(run.lines) :
          snapshot' = [snapshot EXCEPT ![run.comp] = Append(@, Member(FALSE, SubSeq(run.lines, 1, n)))]
    /\ run' = Idle
    /\ UNCHANGED <<offered, appeared, progress, roster, clubs, finished, runs, moves>>

\* The generation is complete when this run saw every competition through.
EndRun ==
    /\ run.at = "between"
    /\ run.todo = <<>>
    /\ run' = IF finished = Comp THEN [at |-> "complete"] ELSE Idle
    /\ UNCHANGED <<offered, appeared, snapshot, progress, roster, clubs, finished, runs, moves>>

\* Out of time between two competitions.
StopBetween ==
    /\ Expired /\ run.at = "between" /\ run.todo # <<>>
    /\ run' = Idle
    /\ UNCHANGED <<offered, appeared, snapshot, progress, roster, clubs, finished, runs, moves>>

\* The provider lists other players.
Move(c) ==
    /\ moves < MaxMoves
    /\ run.at # "complete"
    /\ \E now \in Rosters[c] \ {offered[c]} :
          /\ offered' = [offered EXCEPT ![c] = now]
          /\ appeared' = [p \in Player |-> appeared[p] \cup IF p \in IdsOf(now) THEN {c} ELSE {}]
    /\ moves' = moves + 1
    /\ UNCHANGED <<snapshot, progress, roster, clubs, finished, run, runs>>

FetchInit ==
    /\ offered \in [Comp -> UNION {Rosters[c] : c \in Comp}]
    /\ \A c \in Comp : offered[c] \in Rosters[c]
    /\ appeared = [p \in Player |-> {c \in Comp : p \in IdsOf(offered[c])}]
    /\ snapshot = [c \in Comp |-> <<>>] /\ progress = [c \in Comp |-> {}]
    /\ roster = [c \in Comp |-> <<>>] /\ clubs = [c \in Comp |-> None]
    /\ finished = {} /\ run = Idle /\ runs = 0 /\ moves = 0

FetchNext ==
    StartRun \/ Visit \/ FetchPlayer \/ Close \/ Kill \/ EndRun \/ StopBetween
    \/ \E c \in Comp : Move(c)
=============================================================================
