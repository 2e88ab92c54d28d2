----------------------------- MODULE Shortlists -----------------------------
(***************************************************************************)
(* The shortlists of several people, changed by requests that overlap      *)
(* (services/shortlist_service.py, api/v1/shortlists.py).                  *)
(*                                                                         *)
(* A request is one transaction at READ COMMITTED.  It reads, decides, and *)
(* then flushes and commits.  The flush of every change to a list's        *)
(* players also updates the list's row (_touch), whose lock makes flush    *)
(* and commit one step for the others; what was read may be stale by then. *)
(* The constraints of models/shortlists.py are enforced at that step, and  *)
(* a request they refuse is answered 503 (core/errors.py).  The ORM writes *)
(* the columns that differ from what it loaded, and fails when the row it  *)
(* loaded is gone.                                                         *)
(*                                                                         *)
(* Abstractions: the queries a request makes before it writes are one      *)
(* step; one that is refused there changes nothing, and is no step; texts  *)
(* are numbers, 0 for an absent one; a player's status, pros, concerns and *)
(* review date are one verdict, 0 until the first; the analytical view may *)
(* resolve any of the players.  Reading a list, exporting it and comparing *)
(* its players change nothing; what a comparison shows is in Recruitment.  *)
(***************************************************************************)
EXTENDS Naturals, Sequences, FiniteSets

CONSTANTS
    User, Worker, Player,
    Name,            \* names a list can be given
    NoUser, NoPlayer, NoName,   \* absent ones
    MaxLists,        \* MAX_SHORTLISTS_PER_USER
    MaxEntries,      \* MAX_ENTRIES_PER_SHORTLIST
    MaxText,         \* bound: the texts a person may write
    Ids,             \* bound: shortlist_id
    EntryIds,        \* bound: entry_id
    MaxRequests      \* bound: the requests taken up

ASSUME LimitAssumption == MaxLists \in Nat /\ MaxEntries \in Nat
ASSUME IdAssumption == Ids \in Nat /\ EntryIds \in Nat /\ MaxText \in Nat /\ MaxRequests \in Nat
ASSUME SetAssumption == IsFiniteSet(Player) /\ IsFiniteSet(Worker) /\ Worker # {}

VARIABLES
    list,      \* shortlist, by shortlist_id
    entry,     \* shortlist_entry, by shortlist_id and player_key
    nextList, nextEntry,   \* the sequences of the two primary keys
    req,       \* what each worker is doing
    asked      \* requests so far

vars == <<list, entry, nextList, nextEntry, req, asked>>

List == 1 .. Ids
Text == 0 .. MaxText

ListRow == [exists : BOOLEAN, owner : User \cup {NoUser}, name : Name \cup {NoName}, description : Text]
NoList == [exists |-> FALSE, owner |-> NoUser, name |-> NoName, description |-> 0]

\* entry_id 0: there is no such row.
EntryRow == [id : 0 .. EntryIds, verdict : Text, note : Text]
NoEntry == [id |-> 0, verdict |-> 0, note |-> 0]

Ops == {"create", "rename", "delete", "add", "note", "assess", "remove"}
Texts == [verdict : Text, note : Text, clear : BOOLEAN]

Request ==
    [ op      : Ops, user : User \cup {NoUser},
      list    : 0 .. Ids, name : Name \cup {NoName}, player : Player \cup {NoPlayer},
      sent    : Texts,                \* what the form says of the player; of a list, the
                                      \* description is the note, with clear_description
      step    : {"idle", "writing"},
      loaded  : EntryRow, row : ListRow ]   \* the rows the ORM has in hand

Idle ==
    [ op |-> "delete", user |-> NoUser, list |-> 0, name |-> NoName, player |-> NoPlayer,
      sent |-> [verdict |-> 0, note |-> 0, clear |-> FALSE],
      step |-> "idle", loaded |-> NoEntry, row |-> NoList ]

-----------------------------------------------------------------------------
(* Data *)

At(w, op, step) == req[w].op = op /\ req[w].step = step
Owned(u) == {l \in List : list[l].exists /\ list[l].owner = u}
On(l) == {p \in Player : entry[l][p].id # 0}

\* get_shortlist: the list exists and is this person's.
Vouched(u, l) == l \in List /\ list[l].exists /\ list[l].owner = u

\* The unique constraint on owner and name, for a row to be written at l.
NameTaken(u, n, l) == \E k \in Owned(u) \ {l} : list[k].name = n

\* The row whose loaded copy the ORM writes is still there.
SameEntry(r) == r.list \in List /\ entry[r.list][r.player].id = r.loaded.id

Init ==
    /\ list = [l \in List |-> NoList]
    /\ entry = [l \in List |-> [p \in Player |-> NoEntry]]
    /\ nextList = 1 /\ nextEntry = 1
    /\ req = [w \in Worker |-> Idle]
    /\ asked = 0

-----------------------------------------------------------------------------
(* A request: what arrives, what it reads and decides *)

\* What can be asked; what an operation does not take stays absent.
Asks(f) ==
    /\ f.op = "create" => f.name # NoName
    /\ f.op \notin {"create", "rename"} => f.name = NoName
    /\ f.op = "create" <=> f.list = 0
    /\ f.op \in {"add", "note", "assess", "remove"} <=> f.player # NoPlayer
    /\ f.op \in {"delete", "remove"} => f.sent.note = 0
    /\ f.op = "assess" <=> f.sent.verdict # 0
    /\ f.op # "rename" => ~f.sent.clear

Forms ==
    { f \in [ op : Ops, list : 0 .. Ids, name : Name \cup {NoName},
              player : Player \cup {NoPlayer}, sent : Texts ] : Asks(f) }

\* The request of this form is taken up, with the rows its checks loaded.
Begin(w, u, f, loaded, row) ==
    /\ asked' = asked + 1
    /\ req' = [req EXCEPT ![w] =
         [Idle EXCEPT !.op = f.op, !.user = u, !.list = f.list, !.name = f.name, !.player = f.player,
                      !.sent = f.sent, !.step = "writing", !.loaded = loaded, !.row = row]]
    /\ UNCHANGED <<list, entry, nextList, nextEntry>>

\* Mutant of RoomFor: one more than the ceiling.
RoomAtTheTop(rows, ceiling) == Cardinality(rows) <= ceiling
\* The rows there are leave room for one more.
RoomFor(rows, ceiling) == Cardinality(rows) < ceiling

\* create_shortlist, down to the insert.
CheckCreate(w, u, f) ==
    /\ f.op = "create"
    /\ RoomFor(Owned(u), MaxLists)
    /\ ~NameTaken(u, f.name, 0)
    /\ Begin(w, u, f, NoEntry, NoList)

\* update_shortlist: a name that changes must be free.
CheckRename(w, u, f) ==
    /\ f.op = "rename" /\ Vouched(u, f.list)
    /\ ~NameTaken(u, f.name, f.list)
    /\ Begin(w, u, f, NoEntry, list[f.list])

CheckDelete(w, u, f) ==
    /\ f.op = "delete" /\ Vouched(u, f.list)
    /\ Begin(w, u, f, NoEntry, NoList)

\* add_entry, for a player the view resolves.  One who is there already is the
\* answer, and nothing is written.
CheckAdd(w, u, f) ==
    /\ f.op = "add" /\ Vouched(u, f.list)
    /\ f.player \notin On(f.list)
    /\ RoomFor(On(f.list), MaxEntries)
    /\ Begin(w, u, f, NoEntry, NoList)

\* set_note, set_assessment and remove_entry load the player's row.
CheckEntry(w, u, f) ==
    /\ f.op \in {"note", "assess", "remove"} /\ Vouched(u, f.list)
    /\ f.player \in On(f.list)
    /\ Begin(w, u, f, entry[f.list][f.player], NoList)

-----------------------------------------------------------------------------
(* A request: what it writes *)

\* The transaction of w, one of these operations, commits or is refused by the
\* database; either way it is over.
Commits(w, ops) ==
    /\ req[w].step = "writing" /\ req[w].op \in ops
    /\ req' = [req EXCEPT ![w] = Idle]

CreateList(w) ==
    /\ Commits(w, {"create"})
    /\ IF NameTaken(req[w].user, req[w].name, 0)
       THEN UNCHANGED <<list, nextList>>
       ELSE /\ nextList <= Ids
            /\ list' = [list EXCEPT ![nextList] =
                 [exists |-> TRUE, owner |-> req[w].user, name |-> req[w].name,
                  description |-> req[w].sent.note]]
            /\ nextList' = nextList + 1
    /\ UNCHANGED <<entry, nextEntry, asked>>

\* An absent description leaves the stored one alone; clear_description
\* empties it.
RenameList(w) ==
    /\ Commits(w, {"rename"})
    /\ LET r == req[w]
           renamed == r.name \notin {NoName, r.row.name}
           description == IF r.sent.clear THEN 0
                          ELSE IF r.sent.note = 0 THEN r.row.description ELSE r.sent.note
       IN IF ~list[r.list].exists \/ (renamed /\ NameTaken(r.user, r.name, r.list))
          THEN UNCHANGED list
          ELSE /\ list' = [list EXCEPT
                    ![r.list].name = IF renamed THEN r.name ELSE @,
                    ![r.list].description = IF description = r.row.description THEN @ ELSE description]
    /\ UNCHANGED <<entry, nextList, nextEntry, asked>>

\* The players go with the list (ON DELETE CASCADE); deleting a list that has
\* gone meanwhile is no error.
DeleteList(w) ==
    /\ Commits(w, {"delete"})
    /\ list' = [list EXCEPT ![req[w].list] = NoList]
    /\ entry' = [entry EXCEPT ![req[w].list] = [p \in Player |-> NoEntry]]
    /\ UNCHANGED <<nextList, nextEntry, asked>>

AddEntry(w) ==
    /\ Commits(w, {"add"})
    /\ LET l == req[w].list
           p == req[w].player
       IN IF ~list[l].exists \/ p \in On(l)     \* foreign key, unique constraint
          THEN UNCHANGED <<entry, nextEntry>>
          ELSE /\ nextEntry <= EntryIds
               /\ entry' = [entry EXCEPT ![l][p] =
                              [NoEntry EXCEPT !.id = nextEntry, !.note = req[w].sent.note]]
               /\ nextEntry' = nextEntry + 1
    /\ UNCHANGED <<list, nextList, asked>>

\* Mutant of Revised: the row is written back as it was loaded.
LoadedRow(r) ==
    [ r.loaded EXCEPT !.note = r.sent.note,
                      !.verdict = IF r.op = "note" THEN @ ELSE r.sent.verdict ]
\* The row afterwards: of the columns the operation sets, those that differ from
\* what was loaded.
Revised(r) ==
    LET set(loaded, new, current) == IF new = loaded THEN current ELSE new IN
    [ entry[r.list][r.player] EXCEPT
        !.note = set(r.loaded.note, r.sent.note, @),
        !.verdict = IF r.op = "note" THEN @ ELSE set(r.loaded.verdict, r.sent.verdict, @) ]

\* set_note and set_assessment.
ReviseEntry(w) ==
    /\ Commits(w, {"note", "assess"})
    /\ LET r == req[w] IN
       IF ~SameEntry(r)
       THEN UNCHANGED entry
       ELSE entry' = [entry EXCEPT ![r.list][r.player] = Revised(r)]
    /\ UNCHANGED <<list, nextList, nextEntry, asked>>

\* remove_entry: a row gone meanwhile is no error, a list is.
RemoveEntry(w) ==
    /\ Commits(w, {"remove"})
    /\ LET r == req[w] IN
       IF ~list[r.list].exists
       THEN UNCHANGED entry
       ELSE /\ entry' = IF SameEntry(r) THEN [entry EXCEPT ![r.list][r.player] = NoEntry] ELSE entry
    /\ UNCHANGED <<list, nextList, nextEntry, asked>>

-----------------------------------------------------------------------------

Check(w, u, f) ==
    \/ CheckCreate(w, u, f) \/ CheckRename(w, u, f) \/ CheckDelete(w, u, f)
    \/ CheckAdd(w, u, f) \/ CheckEntry(w, u, f)

\* A worker with nothing to do takes up a request of somebody.
TakeUp(w) ==
    /\ req[w].step = "idle" /\ asked < MaxRequests
    /\ \E u \in User, f \in Forms : Check(w, u, f)

Write(w) ==
    \/ CreateList(w) \/ RenameList(w) \/ DeleteList(w)
    \/ AddEntry(w) \/ ReviseEntry(w) \/ RemoveEntry(w)

Next ==
    \E w \in Worker : TakeUp(w) \/ Write(w)

Spec == Init /\ [][Next]_vars

-----------------------------------------------------------------------------
(* What is checked *)

\* The ceilings are counted before the insert, by requests that do not see each
\* other (shortlist_service.py:119, :278): they are passed by at most one row
\* for every request that ran beside the last.
CeilingsHold ==
    LET beside == Cardinality(Worker) - 1 IN
    /\ \A u \in User : Cardinality(Owned(u)) <= MaxLists + beside
    /\ \A l \in List : Cardinality(On(l)) <= MaxEntries + beside

\* A note is not a review (shortlist_service.py:312): a player's verdict
\* is changed by an assessment and by nothing else, even when a note was
\* written from a row loaded before the assessment.
NotesKeepAReview ==
    [][\A l \in List, p \in Player :
          /\ entry'[l][p].id = entry[l][p].id
          /\ entry'[l][p].verdict # entry[l][p].verdict
          => \E w \in Worker : At(w, "assess", "writing") /\ req[w].list = l /\ req[w].player = p]_vars

=============================================================================
