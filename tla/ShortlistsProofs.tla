-------------------------- MODULE ShortlistsProofs --------------------------
(***************************************************************************)
(* What the shortlists promise, for any people, players and requests: the  *)
(* ceilings are passed by at most one row for every request beside the     *)
(* last, and a note keeps a review.                                        *)
(*                                                                         *)
(* TypeOK says what a request in hand knows: the rows it loaded exist      *)
(* under an id that is never used again.  CeilingsInv counts, with the     *)
(* rows of a person or of a list, the requests that have counted them and  *)
(* not yet written.                                                        *)
(***************************************************************************)
EXTENDS Shortlists, FiniteSetTheorems, TLAPS

USE DEF List, Text

EntryOps == {"add", "note", "assess", "remove"}
LoadingOps == {"note", "assess", "remove"}

\* What a request that is going to write has checked.
Sound(r) ==
    r.step = "writing" =>
        /\ r.op # "create" => r.list \in List
        /\ r.op \in EntryOps => r.player \in Player
        /\ r.op \in LoadingOps => r.loaded.id # 0

TypeOK ==
    /\ list \in [List -> ListRow]
    /\ entry \in [List -> [Player -> EntryRow]]
    /\ nextList \in 1 .. Ids + 1 /\ nextEntry \in 1 .. EntryIds + 1
    /\ req \in [Worker -> Request]
    /\ \A w \in Worker : Sound(req[w])
    /\ \A l \in List, p \in Player : entry[l][p].id = 0 => entry[l][p] = NoEntry

-----------------------------------------------------------------------------
(* Types *)

LEMMA Absent == NoList \in ListRow /\ NoEntry \in EntryRow
BY LimitAssumption, IdAssumption DEF NoList, NoEntry, ListRow, EntryRow

LEMMA IdleRequest == Idle \in Request /\ Sound(Idle) /\ Idle.step = "idle"
<1>1. Idle \in Request
    BY Absent, IdAssumption DEF Idle, Request, Ops, Texts
<1> QED
    BY <1>1 DEF Idle, Sound

LEMMA InitType == Init => TypeOK
BY Absent, IdleRequest, IdAssumption DEF Init, TypeOK

\* Handing in a request leaves the rows alone.
LEMMA HandIn ==
    ASSUME TypeOK, NEW w \in Worker, NEW r \in Request, Sound(r),
           req' = [req EXCEPT ![w] = r], UNCHANGED <<list, entry, nextList, nextEntry>>
    PROVE  TypeOK'
<1>1. req \in [Worker -> Request] /\ \A v \in Worker : Sound(req[v])
    BY DEF TypeOK
<1>2. req' \in [Worker -> Request]
    BY <1>1
<1>3. \A v \in Worker : Sound(req'[v])
    BY <1>1
<1> QED
    BY <1>2, <1>3 DEF TypeOK

\* What is taken up is written down as it was asked.
LEMMA BeginType ==
    ASSUME TypeOK, NEW w \in Worker, NEW u \in User, NEW f \in Forms,
           NEW loaded \in EntryRow, NEW row \in ListRow, Begin(w, u, f, loaded, row),
           f.op # "create" => f.list \in List,
           f.op \in LoadingOps => loaded.id # 0
    PROVE  TypeOK'
<1> DEFINE r == [Idle EXCEPT !.op = f.op, !.user = u, !.list = f.list, !.name = f.name,
                             !.player = f.player, !.sent = f.sent, !.step = "writing",
                             !.loaded = loaded, !.row = row]
<1>1. /\ f.op \in Ops /\ f.list \in 0 .. Ids /\ f.name \in Name \cup {NoName}
      /\ f.player \in Player \cup {NoPlayer} /\ f.sent \in Texts
    BY DEF Forms
<1>2. f.op \in EntryOps => f.player \in Player
    BY <1>1 DEF Forms, Asks, EntryOps
<1>3. r \in Request
    BY <1>1, IdleRequest DEF Request
<1>4. /\ r.step = "writing" /\ r.op = f.op /\ r.list = f.list /\ r.player = f.player
      /\ r.loaded = loaded
    BY DEF Idle
<1>5. Sound(r)
    BY <1>2, <1>4 DEF Sound
<1>6. req' = [req EXCEPT ![w] = r] /\ UNCHANGED <<list, entry, nextList, nextEntry>>
    BY DEF Begin
<1> HIDE DEF r
<1> QED
    BY <1>3, <1>5, <1>6, HandIn

LEMMA CheckType ==
    ASSUME TypeOK, NEW w \in Worker, NEW u \in User, NEW f \in Forms, Check(w, u, f)
    PROVE  TypeOK'
<1>1. CASE CheckCreate(w, u, f)
    BY <1>1, BeginType, Absent DEF CheckCreate, LoadingOps
<1>2. CASE CheckRename(w, u, f)
  <2>1. f.list \in List /\ f.op = "rename"
    BY <1>2 DEF CheckRename, Vouched
  <2>2. list[f.list] \in ListRow
    BY <2>1 DEF TypeOK
  <2> QED
    BY <1>2, <2>1, <2>2, BeginType, Absent DEF CheckRename, LoadingOps
<1>3. CASE CheckDelete(w, u, f)
    BY <1>3, BeginType, Absent DEF CheckDelete, Vouched, LoadingOps
<1>4. CASE CheckAdd(w, u, f)
    BY <1>4, BeginType, Absent DEF CheckAdd, Vouched, LoadingOps
<1>5. CASE CheckEntry(w, u, f)
  <2>1. f.list \in List /\ f.player \in Player /\ entry[f.list][f.player].id # 0
    BY <1>5 DEF CheckEntry, Vouched, On
  <2>2. entry[f.list][f.player] \in EntryRow
    BY <2>1 DEF TypeOK
  <2> QED
    BY <1>5, <2>1, <2>2, BeginType, Absent DEF CheckEntry
<1> QED
    BY <1>1, <1>2, <1>3, <1>4, <1>5 DEF Check

\* A worker that is done has nothing in hand; the rows may have changed.
LEMMA Done ==
    ASSUME TypeOK, NEW w \in Worker, NEW ops, Commits(w, ops)
    PROVE  /\ req[w] \in Request /\ Sound(req[w]) /\ req[w].step = "writing" /\ req[w].op \in ops
           /\ req' \in [Worker -> Request]
           /\ req'[w].step = "idle" /\ \A v \in Worker \ {w} : req'[v] = req[v]
           /\ \A v \in Worker : Sound(req'[v])
<1>1. req \in [Worker -> Request] /\ \A v \in Worker : Sound(req[v])
    BY DEF TypeOK
<1>2. req[w].step = "writing" /\ req[w].op \in ops /\ req' = [req EXCEPT ![w] = Idle]
    BY DEF Commits
<1> QED
    BY <1>1, <1>2, IdleRequest

LEMMA CreateType ==
    ASSUME TypeOK, NEW w \in Worker, CreateList(w)
    PROVE  TypeOK'
<1>1. Commits(w, {"create"}) /\ UNCHANGED <<entry, nextEntry>>
    BY DEF CreateList
<1>2. req' \in [Worker -> Request] /\ (\A v \in Worker : Sound(req'[v])) /\ req[w] \in Request
    BY <1>1, Done
<1>3. list \in [List -> ListRow] /\ nextList \in 1 .. Ids + 1
    BY DEF TypeOK
<1>4. CASE UNCHANGED <<list, nextList>>
    BY <1>1, <1>2, <1>4 DEF TypeOK
<1>5. CASE ~UNCHANGED <<list, nextList>>
  <2> DEFINE made == [exists |-> TRUE, owner |-> req[w].user, name |-> req[w].name,
                      description |-> req[w].sent.note]
  <2>1. /\ nextList <= Ids /\ nextList' = nextList + 1
        /\ list' = [list EXCEPT ![nextList] = made]
    BY <1>5 DEF CreateList
  <2>2. /\ req[w].user \in User \cup {NoUser} /\ req[w].name \in Name \cup {NoName}
        /\ req[w].sent.note \in Text
    BY <1>2 DEF Request, Texts
  <2>3. made \in ListRow
    BY <2>2 DEF ListRow
  <2> HIDE DEF made
  <2>4. list' \in [List -> ListRow]
    BY <1>3, <2>1, <2>3
  <2>5. nextList' \in 1 .. Ids + 1
    BY <1>3, <2>1, IdAssumption
  <2> QED
    BY <1>1, <1>2, <2>4, <2>5 DEF TypeOK
<1> QED
    BY <1>4, <1>5

LEMMA RenameType ==
    ASSUME TypeOK, NEW w \in Worker, RenameList(w)
    PROVE  /\ TypeOK'
           /\ \A l \in List : list'[l].exists = list[l].exists /\ list'[l].owner = list[l].owner
<1>1. Commits(w, {"rename"}) /\ UNCHANGED <<entry, nextList, nextEntry>>
    BY DEF RenameList
<1>2. req' \in [Worker -> Request] /\ (\A v \in Worker : Sound(req'[v])) /\ req[w] \in Request
    BY <1>1, Done
<1>3. list \in [List -> ListRow]
    BY DEF TypeOK
<1>4. req[w].list \in List
    BY <1>1, Done DEF Sound
<1>5. CASE UNCHANGED list
    BY <1>1, <1>2, <1>5 DEF TypeOK
<1>6. CASE ~UNCHANGED list
  <2>1. PICK name \in Name \cup {NoName}, description \in Text :
            list' = [list EXCEPT ![req[w].list].name = name,
                                 ![req[w].list].description = description]
    <3> DEFINE r == req[w]
               renamed == r.name \notin {NoName, r.row.name}
               text == IF r.sent.clear THEN 0
                       ELSE IF r.sent.note = 0 THEN r.row.description ELSE r.sent.note
    <3>1. list' = [list EXCEPT
                      ![r.list].name = IF renamed THEN r.name ELSE @,
                      ![r.list].description = IF text = r.row.description THEN @ ELSE text]
        BY <1>6 DEF RenameList
    <3>2. list[r.list] \in ListRow
        BY <1>3, <1>4
    <3>3. /\ r.name \in Name \cup {NoName} /\ r.sent.note \in Text /\ r.row \in ListRow
        BY <1>2 DEF Request, Texts
    <3>4. text \in Text
        BY <3>3, IdAssumption DEF ListRow
    <3> DEFINE n == IF renamed THEN r.name ELSE list[r.list].name
               d == IF text = r.row.description THEN list[r.list].description ELSE text
    <3>5. n \in Name \cup {NoName} /\ d \in Text
        BY <3>2, <3>3, <3>4 DEF ListRow
    <3> HIDE DEF text, renamed
    <3>6. list' = [list EXCEPT ![r.list].name = n, ![r.list].description = d]
        BY <1>3, <1>4, <3>1, <3>2 DEF ListRow
    <3> QED
        BY <3>5, <3>6
  <2> DEFINE row == list[req[w].list]
             made == [row EXCEPT !.name = name, !.description = description]
  <2>2. row \in ListRow
    BY <1>3, <1>4
  <2>3. list' = [list EXCEPT ![req[w].list] = made]
    BY <1>3, <1>4, <2>1, <2>2 DEF ListRow
  <2> HIDE DEF row
  <2>4. made \in ListRow /\ made.exists = row.exists /\ made.owner = row.owner
    BY <2>2 DEF ListRow
  <2> HIDE DEF made
  <2>5. list' \in [List -> ListRow]
    BY <1>3, <2>3, <2>4
  <2>6. \A l \in List : list'[l].exists = list[l].exists /\ list'[l].owner = list[l].owner
    BY <1>3, <2>3, <2>4 DEF row
  <2> QED
    BY <1>1, <1>2, <2>5, <2>6 DEF TypeOK
<1> QED
    BY <1>5, <1>6

LEMMA DeleteType ==
    ASSUME TypeOK, NEW w \in Worker, DeleteList(w)
    PROVE  TypeOK'
<1>1. /\ Commits(w, {"delete"}) /\ UNCHANGED <<nextList, nextEntry>>
      /\ list' = [list EXCEPT ![req[w].list] = NoList]
      /\ entry' = [entry EXCEPT ![req[w].list] = [p \in Player |-> NoEntry]]
    BY DEF DeleteList
<1>2. req' \in [Worker -> Request] /\ (\A v \in Worker : Sound(req'[v]))
    BY <1>1, Done
<1>3. req[w].list \in List
    BY <1>1, Done DEF Sound
<1>4. list \in [List -> ListRow] /\ entry \in [List -> [Player -> EntryRow]]
    BY DEF TypeOK
<1>5. list' \in [List -> ListRow]
    BY <1>1, <1>4, Absent
<1>6. entry' \in [List -> [Player -> EntryRow]]
    BY <1>1, <1>4, Absent
<1>7. \A l \in List, p \in Player : entry'[l][p] \in {entry[l][p], NoEntry}
    BY <1>1, <1>4
<1> QED
    BY <1>1, <1>2, <1>5, <1>6, <1>7 DEF TypeOK

\* Writing one player's row.
LEMMA WriteEntry ==
    ASSUME TypeOK, NEW l \in List, NEW p \in Player, NEW row \in EntryRow,
           row.id = 0 => row = NoEntry,
           entry' = [entry EXCEPT ![l][p] = row],
           nextEntry' \in 1 .. EntryIds + 1, UNCHANGED <<list, nextList>>,
           req' \in [Worker -> Request], \A v \in Worker : Sound(req'[v])
    PROVE  TypeOK'
<1>1. entry \in [List -> [Player -> EntryRow]]
    BY DEF TypeOK
<1>2. entry' \in [List -> [Player -> EntryRow]]
    BY <1>1
<1>3. \A k \in List, q \in Player : entry'[k][q] \in {entry[k][q], row}
    BY <1>1
<1>4. \A k \in List, q \in Player : entry'[k][q].id = 0 => entry'[k][q] = NoEntry
    BY <1>3 DEF TypeOK
<1> QED
    BY <1>2, <1>4 DEF TypeOK

\* What AddEntry leaves, when it is not refused.
LEMMA Added ==
    ASSUME TypeOK, NEW w \in Worker, AddEntry(w), ~UNCHANGED <<entry, nextEntry>>
    PROVE  LET l == req[w].list
               p == req[w].player
               row == [NoEntry EXCEPT !.id = nextEntry, !.note = req[w].sent.note]
           IN /\ l \in List /\ p \in Player /\ p \notin On(l) /\ list[l].exists
              /\ row \in EntryRow /\ row.id # 0
              /\ entry' = [entry EXCEPT ![l][p] = row]
              /\ nextEntry' \in 1 .. EntryIds + 1
<1>1. Commits(w, {"add"})
    BY DEF AddEntry
<1>2. /\ req[w].list \in List /\ req[w].player \in Player /\ req[w].sent.note \in Text
    BY <1>1, Done DEF Sound, EntryOps, Request, Texts
<1>3. /\ req[w].player \notin On(req[w].list) /\ list[req[w].list].exists /\ nextEntry <= EntryIds
      /\ entry' = [entry EXCEPT ![req[w].list][req[w].player] =
                      [NoEntry EXCEPT !.id = nextEntry, !.note = req[w].sent.note]]
      /\ nextEntry' = nextEntry + 1
    BY DEF AddEntry
<1>4. nextEntry \in 1 .. EntryIds + 1
    BY DEF TypeOK
<1>5. nextEntry' \in 1 .. EntryIds + 1 /\ nextEntry \in 0 .. EntryIds /\ nextEntry # 0
    BY <1>3, <1>4, IdAssumption
<1>6. [NoEntry EXCEPT !.id = nextEntry, !.note = req[w].sent.note] \in EntryRow
    BY <1>2, <1>5, Absent DEF EntryRow
<1>7. [NoEntry EXCEPT !.id = nextEntry, !.note = req[w].sent.note].id # 0
    BY <1>5 DEF NoEntry
<1> QED
    BY <1>2, <1>3, <1>5, <1>6, <1>7

\* What ReviseEntry leaves, when it is not refused: the row it loaded, with its
\* verdict changed by an assessment only.
LEMMA RevisedRow ==
    ASSUME TypeOK, NEW w \in Worker, ReviseEntry(w), ~UNCHANGED entry
    PROVE  LET r == req[w]
               row == Revised(r)
           IN /\ r.list \in List /\ r.player \in Player
              /\ row \in EntryRow /\ row.id # 0 /\ row.id = entry[r.list][r.player].id
              /\ r.op = "note" => row.verdict = entry[r.list][r.player].verdict
              /\ entry' = [entry EXCEPT ![r.list][r.player] = row]
<1> DEFINE r == req[w]
           current == entry[r.list][r.player]
<1>1. Commits(w, {"note", "assess"})
    BY DEF ReviseEntry
<1>2. /\ r.list \in List /\ r.player \in Player /\ r \in Request /\ r.loaded.id # 0
    BY <1>1, Done DEF Sound, EntryOps, LoadingOps
<1>3. /\ r.sent.note \in Text /\ r.sent.verdict \in Text
    BY <1>2 DEF Request, Texts
<1>4. current \in EntryRow
    BY <1>2 DEF TypeOK
<1>5. entry' = [entry EXCEPT ![r.list][r.player] = Revised(r)] /\ current.id = r.loaded.id
    BY DEF ReviseEntry, SameEntry
<1>6. \E note \in Text, verdict \in Text :
        /\ Revised(r) = [current EXCEPT !.note = note, !.verdict = verdict]
        /\ r.op = "note" => verdict = current.verdict
  <2> DEFINE note == IF r.sent.note = r.loaded.note THEN current.note ELSE r.sent.note
             verdict == IF r.op = "note" THEN current.verdict
                        ELSE IF r.sent.verdict = r.loaded.verdict THEN current.verdict
                        ELSE r.sent.verdict
  <2>1. note \in Text /\ verdict \in Text
    BY <1>3, <1>4 DEF EntryRow
  <2>2. Revised(r) = [current EXCEPT !.note = note, !.verdict = verdict]
    BY <1>4 DEF Revised, EntryRow
  <2> QED
    BY <2>1, <2>2
<1>7. PICK note \in Text, verdict \in Text :
        /\ Revised(r) = [current EXCEPT !.note = note, !.verdict = verdict]
        /\ r.op = "note" => verdict = current.verdict
    BY <1>6
<1>8. /\ Revised(r) \in EntryRow /\ Revised(r).id = current.id
      /\ r.op = "note" => Revised(r).verdict = current.verdict
  <2> HIDE DEF current
  <2> QED
    BY <1>4, <1>7 DEF EntryRow
<1> QED
    BY <1>2, <1>5, <1>8

\* What RemoveEntry leaves, when it changes anything.
LEMMA Removed ==
    ASSUME TypeOK, NEW w \in Worker, RemoveEntry(w), ~UNCHANGED entry
    PROVE  LET r == req[w]
           IN /\ r.list \in List /\ r.player \in Player /\ entry[r.list][r.player].id # 0
              /\ entry' = [entry EXCEPT ![r.list][r.player] = NoEntry]
<1>1. Commits(w, {"remove"})
    BY DEF RemoveEntry
<1>2. /\ req[w].list \in List /\ req[w].player \in Player /\ req[w].loaded.id # 0
    BY <1>1, Done DEF Sound, EntryOps, LoadingOps
<1>3. /\ SameEntry(req[w])
      /\ entry' = [entry EXCEPT ![req[w].list][req[w].player] = NoEntry]
    BY DEF RemoveEntry
<1> QED
    BY <1>2, <1>3 DEF SameEntry

LEMMA EntryType ==
    ASSUME TypeOK, NEW w \in Worker, AddEntry(w) \/ ReviseEntry(w) \/ RemoveEntry(w)
    PROVE  TypeOK'
<1>1. /\ req' \in [Worker -> Request] /\ \A v \in Worker : Sound(req'[v])
      /\ UNCHANGED <<list, nextList>>
    BY Done DEF AddEntry, ReviseEntry, RemoveEntry
<1>2. nextEntry \in 1 .. EntryIds + 1
    BY DEF TypeOK
<1>3. CASE UNCHANGED <<entry, nextEntry>>
    BY <1>1, <1>3 DEF TypeOK
<1>4. CASE AddEntry(w) /\ ~UNCHANGED <<entry, nextEntry>>
    BY <1>1, <1>4, Added, WriteEntry
<1>5. CASE ReviseEntry(w) /\ ~UNCHANGED <<entry, nextEntry>>
  <2>1. nextEntry' = nextEntry
    BY <1>5 DEF ReviseEntry
  <2>2. /\ req[w].list \in List /\ req[w].player \in Player
        /\ Revised(req[w]) \in EntryRow /\ Revised(req[w]).id # 0
        /\ entry' = [entry EXCEPT ![req[w].list][req[w].player] = Revised(req[w])]
    BY <1>5, <2>1, RevisedRow
  <2> QED
    BY <1>1, <1>2, <2>1, <2>2, WriteEntry
<1>6. CASE RemoveEntry(w) /\ ~UNCHANGED <<entry, nextEntry>>
  <2>1. nextEntry' = nextEntry
    BY <1>6 DEF RemoveEntry
  <2> QED
    BY <1>1, <1>2, <1>6, <2>1, Removed, WriteEntry, Absent
<1> QED
    BY <1>3, <1>4, <1>5, <1>6

LEMMA TypeStep == TypeOK /\ [Next]_vars => TypeOK'
<1> SUFFICES ASSUME TypeOK, [Next]_vars PROVE TypeOK'
    OBVIOUS
<1>1. CASE UNCHANGED vars
    BY <1>1 DEF TypeOK, vars
<1>2. ASSUME NEW w \in Worker, TakeUp(w)
      PROVE  TypeOK'
    BY <1>2, CheckType DEF TakeUp
<1>3. ASSUME NEW w \in Worker, Write(w)
      PROVE  TypeOK'
    BY <1>3, CreateType, RenameType, DeleteType, EntryType DEF Write
<1> QED
    BY <1>1, <1>2, <1>3 DEF Next

\* Every row and every request in hand is well formed, and what a request has
\* loaded is a row with an id.
THEOREM ShortlistsTyped == Spec => []TypeOK
BY InitType, TypeStep, PTL DEF Spec

-----------------------------------------------------------------------------
(* The ceilings *)

Beside == Cardinality(Worker) - 1

\* Requests that have counted and not yet written.
Making(u) == {w \in Worker : At(w, "create", "writing") /\ req[w].user = u}
Adding(l) == {w \in Worker : At(w, "add", "writing") /\ req[w].list = l}

\* A request that counts makes one more at most; what the others were about to
\* write when it counted is what may come on top.
CeilingsInv ==
    /\ \A u \in User : Cardinality(Owned(u)) + Cardinality(Making(u)) <= MaxLists + Beside
    /\ \A l \in List : Cardinality(On(l)) + Cardinality(Adding(l)) <= MaxEntries + Beside

\* How a count S and those about to add to it, P, move to T and Q: neither
\* grows; or somebody counts less than the ceiling; or one of P writes.
Moves(S, T, P, Q, max) ==
    \/ T \subseteq S /\ Q \subseteq P
    \/ T \subseteq S /\ Cardinality(S) < max
    \/ \E w \in P : \E x : T \subseteq S \cup {x} /\ Q \subseteq P \ {w}

LEMMA CountMoves ==
    ASSUME NEW max \in Nat, NEW S, NEW T, NEW P \in SUBSET Worker, NEW Q \in SUBSET Worker,
           IsFiniteSet(S), Cardinality(S) + Cardinality(P) <= max + Beside, Moves(S, T, P, Q, max)
    PROVE  Cardinality(T) + Cardinality(Q) <= max + Beside
<1>1. /\ IsFiniteSet(P) /\ IsFiniteSet(Q) /\ Cardinality(Q) <= Cardinality(Worker)
    BY SetAssumption, FS_Subset
<1>2. /\ Cardinality(S) \in Nat /\ Cardinality(P) \in Nat
      /\ Cardinality(Q) \in Nat /\ Cardinality(Worker) \in Nat
    BY <1>1, SetAssumption, FS_CardinalityType
<1>3. ASSUME T \subseteq S
      PROVE  Cardinality(T) \in Nat /\ Cardinality(T) <= Cardinality(S)
    BY <1>3, FS_Subset, FS_CardinalityType
<1>4. CASE T \subseteq S /\ Q \subseteq P
  <2>1. Cardinality(Q) <= Cardinality(P)
    BY <1>1, <1>4, FS_Subset
  <2> QED
    BY <1>2, <1>3, <1>4, <2>1 DEF Beside
<1>5. CASE T \subseteq S /\ Cardinality(S) < max
    BY <1>1, <1>2, <1>3, <1>5 DEF Beside
<1>6. CASE \E w \in P : \E x : T \subseteq S \cup {x} /\ Q \subseteq P \ {w}
  <2>0. PICK w \in P : \E x : T \subseteq S \cup {x} /\ Q \subseteq P \ {w}
    BY <1>6
  <2>1. PICK x : T \subseteq S \cup {x} /\ Q \subseteq P \ {w}
    BY <2>0
  <2>2. IsFiniteSet(S \cup {x}) /\ Cardinality(S \cup {x}) \in {Cardinality(S), Cardinality(S) + 1}
    BY FS_AddElement
  <2>3. IsFiniteSet(T) /\ Cardinality(T) <= Cardinality(S \cup {x})
    BY <2>1, <2>2, FS_Subset
  <2>4. Cardinality(T) \in Nat
    BY <2>3, FS_CardinalityType
  <2>5. IsFiniteSet(P \ {w}) /\ Cardinality(P \ {w}) = Cardinality(P) - 1
    BY <1>1, FS_RemoveElement
  <2>6. Cardinality(Q) <= Cardinality(P \ {w})
    BY <2>1, <2>5, FS_Subset
  <2> QED
    BY <1>2, <2>2, <2>3, <2>4, <2>5, <2>6 DEF Beside
<1> QED
    BY <1>4, <1>5, <1>6 DEF Moves

\* The invariant over a step, given how each count moves in it.
LEMMA CeilingsMove ==
    ASSUME CeilingsInv,
           \A u \in User : Moves(Owned(u), Owned(u)', Making(u), Making(u)', MaxLists),
           \A l \in List : Moves(On(l), On(l)', Adding(l), Adding(l)', MaxEntries)
    PROVE  CeilingsInv'
<1>1. IsFiniteSet(List)
    BY IdAssumption, FS_Interval
<1>2. ASSUME NEW u \in User
      PROVE  (Cardinality(Owned(u)) + Cardinality(Making(u)) <= MaxLists + Beside)'
  <2>1. Making(u) \in SUBSET Worker /\ Making(u)' \in SUBSET Worker
    BY DEF Making
  <2>2. Cardinality(Owned(u)) + Cardinality(Making(u)) <= MaxLists + Beside
    BY DEF CeilingsInv
  <2>3. IsFiniteSet(Owned(u))
    BY <1>1, FS_Subset DEF Owned
  <2>4. Moves(Owned(u), Owned(u)', Making(u), Making(u)', MaxLists)
    OBVIOUS
  <2>5. Cardinality(Owned(u)') + Cardinality(Making(u)') <= MaxLists + Beside
    BY <2>1, <2>2, <2>3, <2>4, LimitAssumption, CountMoves
  <2> QED
    BY <2>5 DEF Beside
<1>3. ASSUME NEW l \in List
      PROVE  (Cardinality(On(l)) + Cardinality(Adding(l)) <= MaxEntries + Beside)'
  <2>1. Adding(l) \in SUBSET Worker /\ Adding(l)' \in SUBSET Worker
    BY DEF Adding
  <2>2. Cardinality(On(l)) + Cardinality(Adding(l)) <= MaxEntries + Beside
    BY DEF CeilingsInv
  <2>3. IsFiniteSet(On(l))
    BY SetAssumption, FS_Subset DEF On
  <2>4. Moves(On(l), On(l)', Adding(l), Adding(l)', MaxEntries)
    OBVIOUS
  <2>5. Cardinality(On(l)') + Cardinality(Adding(l)') <= MaxEntries + Beside
    BY <2>1, <2>2, <2>3, <2>4, LimitAssumption, CountMoves
  <2> QED
    BY <2>5 DEF Beside
<1> QED
    BY <1>2, <1>3 DEF CeilingsInv

LEMMA InitCeilings == Init => CeilingsInv
<1> SUFFICES ASSUME Init PROVE CeilingsInv
    OBVIOUS
<1>1. \A u \in User : Owned(u) = {} /\ Making(u) = {}
    BY IdleRequest DEF Init, Owned, Making, At, NoList
<1>2. \A l \in List : On(l) = {} /\ Adding(l) = {}
    BY IdleRequest DEF Init, On, Adding, At, NoEntry
<1>3. Cardinality(Worker) \in Nat /\ Cardinality(Worker) # 0
    BY SetAssumption, FS_CardinalityType, FS_EmptySet
<1>4. Cardinality({}) = 0
    BY FS_EmptySet
<1>5. 0 <= MaxLists + Beside /\ 0 <= MaxEntries + Beside
    BY <1>3, LimitAssumption DEF Beside
<1>6. \A u \in User : Cardinality(Owned(u)) + Cardinality(Making(u)) = 0
    BY <1>1, <1>4
<1>7. \A l \in List : Cardinality(On(l)) + Cardinality(Adding(l)) = 0
    BY <1>2, <1>4
<1> QED
    BY <1>5, <1>6, <1>7 DEF CeilingsInv

\* A request taken up joins those that will write only where it counted less
\* than the ceiling.
LEMMA CheckCeilings ==
    ASSUME CeilingsInv, TypeOK, NEW w \in Worker, NEW u \in User, NEW f \in Forms,
           req[w].step = "idle", Check(w, u, f)
    PROVE  CeilingsInv'
<1>1. req \in [Worker -> Request]
    BY DEF TypeOK
<1>2. PICK loaded, row : Begin(w, u, f, loaded, row)
    BY DEF Check, CheckCreate, CheckRename, CheckDelete, CheckAdd, CheckEntry
<1>3. UNCHANGED <<list, entry>>
    BY <1>2 DEF Begin
<1>4. /\ req'[w].op = f.op /\ req'[w].user = u /\ req'[w].list = f.list
      /\ \A v \in Worker \ {w} : req'[v] = req[v]
    BY <1>1, <1>2 DEF Begin, Idle
<1>5. f.op = "create" => Cardinality(Owned(u)) < MaxLists
    BY DEF Check, CheckCreate, CheckRename, CheckDelete, CheckAdd, CheckEntry, RoomFor
<1>6. f.op = "add" => Cardinality(On(f.list)) < MaxEntries
    BY DEF Check, CheckCreate, CheckRename, CheckDelete, CheckAdd, CheckEntry, RoomFor
<1>7. ASSUME NEW k \in User
      PROVE  Moves(Owned(k), Owned(k)', Making(k), Making(k)', MaxLists)
  <2>1. Owned(k)' = Owned(k)
    BY <1>3 DEF Owned
  <2>2. Making(k)' \subseteq Making(k) \/ (k = u /\ f.op = "create")
    BY <1>4 DEF Making, At
  <2> QED
    BY <1>5, <2>1, <2>2 DEF Moves
<1>8. ASSUME NEW l \in List
      PROVE  Moves(On(l), On(l)', Adding(l), Adding(l)', MaxEntries)
  <2>1. On(l)' = On(l)
    BY <1>3 DEF On
  <2>2. Adding(l)' \subseteq Adding(l) \/ (l = f.list /\ f.op = "add")
    BY <1>4 DEF Adding, At
  <2> QED
    BY <1>6, <2>1, <2>2 DEF Moves
<1> QED
    BY <1>7, <1>8, CeilingsMove

\* A request that writes is no longer among those that will.
LEMMA DoneCeilings ==
    ASSUME TypeOK, NEW w \in Worker, NEW ops, Commits(w, ops)
    PROVE  /\ \A u \in User : Making(u)' \subseteq Making(u) \ {w}
           /\ \A l \in List : Adding(l)' \subseteq Adding(l) \ {w}
BY Done DEF Making, Adding, At

LEMMA WriteCeilings ==
    ASSUME CeilingsInv, TypeOK, NEW w \in Worker, Write(w)
    PROVE  CeilingsInv'
<1>1. list \in [List -> ListRow] /\ entry \in [List -> [Player -> EntryRow]]
    BY DEF TypeOK
<1>2. /\ \A u \in User : Making(u)' \subseteq Making(u) \ {w}
      /\ \A l \in List : Adding(l)' \subseteq Adding(l) \ {w}
    BY DoneCeilings DEF Write, CreateList, RenameList, DeleteList, AddEntry, ReviseEntry, RemoveEntry
<1>3. CASE CreateList(w)
  <2>1. /\ req[w].step = "writing" /\ req[w].op = "create" /\ UNCHANGED entry
    BY <1>3 DEF CreateList, Commits
  <2>2. \A l \in List : On(l)' = On(l)
    BY <2>1 DEF On
  <2>3. ASSUME NEW u \in User
        PROVE  Moves(Owned(u), Owned(u)', Making(u), Making(u)', MaxLists)
    <3>1. CASE UNCHANGED list
      <4>1. Owned(u)' = Owned(u)
        BY <3>1 DEF Owned
      <4> QED
        BY <1>2, <4>1 DEF Moves
    <3>2. CASE ~UNCHANGED list
      <4>1. list' = [list EXCEPT ![nextList] =
                 [exists |-> TRUE, owner |-> req[w].user, name |-> req[w].name,
                  description |-> req[w].sent.note]]
        BY <1>3, <3>2 DEF CreateList
      <4>2. \A l \in List : l # nextList => list'[l] = list[l]
        BY <1>1, <4>1
      <4>3. nextList \in List => list'[nextList].owner = req[w].user
        BY <1>1, <4>1
      <4>4. Owned(u)' \subseteq Owned(u) \cup {nextList}
        BY <4>2 DEF Owned
      <4>5. CASE req[w].user = u
        <5>1. w \in Making(u)
          BY <2>1, <4>5 DEF Making, At
        <5> QED
          BY <1>2, <4>4, <5>1 DEF Moves
      <4>6. CASE req[w].user # u
        <5>1. Owned(u)' \subseteq Owned(u)
          BY <4>2, <4>3, <4>6 DEF Owned
        <5> QED
          BY <1>2, <5>1 DEF Moves
      <4> QED
        BY <4>5, <4>6
    <3> QED
      BY <3>1, <3>2
  <2> QED
    BY <1>2, <2>2, <2>3, CeilingsMove DEF Moves
<1>4. CASE RenameList(w)
  <2>1. \A u \in User : Owned(u)' = Owned(u)
    BY <1>4, RenameType DEF Owned
  <2>2. \A l \in List : On(l)' = On(l)
    BY <1>4 DEF RenameList, On
  <2> QED
    BY <1>2, <2>1, <2>2, CeilingsMove DEF Moves
<1>5. CASE DeleteList(w)
  <2>1. /\ list' = [list EXCEPT ![req[w].list] = NoList]
        /\ entry' = [entry EXCEPT ![req[w].list] = [p \in Player |-> NoEntry]]
    BY <1>5 DEF DeleteList
  <2>2. \A l \in List : list'[l] = list[l] \/ ~list'[l].exists
    BY <1>1, <2>1 DEF NoList
  <2>3. \A l \in List, p \in Player : entry'[l][p] = entry[l][p] \/ entry'[l][p].id = 0
    BY <1>1, <2>1 DEF NoEntry
  <2>4. \A u \in User : Owned(u)' \subseteq Owned(u)
    BY <2>2 DEF Owned
  <2>5. \A l \in List : On(l)' \subseteq On(l)
    BY <2>3 DEF On
  <2> QED
    BY <1>2, <2>4, <2>5, CeilingsMove DEF Moves
<1>6. CASE AddEntry(w)
  <2>1. /\ req[w].step = "writing" /\ req[w].op = "add" /\ UNCHANGED list
    BY <1>6 DEF AddEntry, Commits
  <2>2. \A u \in User : Owned(u)' = Owned(u)
    BY <2>1 DEF Owned
  <2>3. ASSUME NEW l \in List
        PROVE  Moves(On(l), On(l)', Adding(l), Adding(l)', MaxEntries)
    <3>1. CASE UNCHANGED entry
      <4>1. On(l)' = On(l)
        BY <3>1 DEF On
      <4> QED
        BY <1>2, <4>1 DEF Moves
    <3>2. CASE ~UNCHANGED entry
      <4>1. PICK row : entry' = [entry EXCEPT ![req[w].list][req[w].player] = row]
        BY <1>6, <3>2 DEF AddEntry
      <4>2. CASE req[w].list = l
        <5>1. On(l)' \subseteq On(l) \cup {req[w].player}
          BY <1>1, <4>1 DEF On
        <5>2. w \in Adding(l)
          BY <2>1, <4>2 DEF Adding, At
        <5> QED
          BY <1>2, <5>1, <5>2 DEF Moves
      <4>3. CASE req[w].list # l
        <5>1. On(l)' = On(l)
          BY <1>1, <4>1, <4>3 DEF On
        <5> QED
          BY <1>2, <5>1 DEF Moves
      <4> QED
        BY <4>2, <4>3
    <3> QED
      BY <3>1, <3>2
  <2> QED
    BY <1>2, <2>2, <2>3, CeilingsMove DEF Moves
<1>7. CASE ReviseEntry(w) \/ RemoveEntry(w)
  <2>1. UNCHANGED list
    BY <1>7 DEF ReviseEntry, RemoveEntry
  <2>2. \A u \in User : Owned(u)' = Owned(u)
    BY <2>1 DEF Owned
  <2>3. \A l \in List, p \in Player : entry'[l][p].id \in {entry[l][p].id, 0}
    <3>1. CASE UNCHANGED entry
      BY <3>1
    <3>2. CASE ReviseEntry(w) /\ ~UNCHANGED entry
      <4>1. /\ req[w].list \in List /\ req[w].player \in Player
            /\ Revised(req[w]).id = entry[req[w].list][req[w].player].id
            /\ entry' = [entry EXCEPT ![req[w].list][req[w].player] = Revised(req[w])]
        BY <3>2, RevisedRow
      <4> QED
        BY <1>1, <4>1
    <3>3. CASE RemoveEntry(w) /\ ~UNCHANGED entry
      <4>1. entry' = [entry EXCEPT ![req[w].list][req[w].player] = NoEntry]
        BY <3>3, Removed
      <4> QED
        BY <1>1, <4>1 DEF NoEntry
    <3> QED
      BY <1>7, <3>1, <3>2, <3>3
  <2>4. \A l \in List : On(l)' \subseteq On(l)
    BY <2>3 DEF On
  <2> QED
    BY <1>2, <2>2, <2>4, CeilingsMove DEF Moves
<1> QED
    BY <1>3, <1>4, <1>5, <1>6, <1>7 DEF Write

LEMMA CeilingsStep == CeilingsInv /\ TypeOK /\ [Next]_vars => CeilingsInv'
<1> SUFFICES ASSUME CeilingsInv, TypeOK, [Next]_vars PROVE CeilingsInv'
    OBVIOUS
<1>0. req \in [Worker -> Request]
    BY DEF TypeOK
<1>1. CASE UNCHANGED vars
    BY <1>1 DEF vars, CeilingsInv, Owned, On, Making, Adding, At, Beside
<1>2. ASSUME NEW w \in Worker, NEW u \in User, NEW f \in Forms, req[w].step = "idle", Check(w, u, f)
      PROVE  CeilingsInv'
    BY <1>2, CheckCeilings
<1>3. ASSUME NEW w \in Worker, Write(w)
      PROVE  CeilingsInv'
    BY <1>3, WriteCeilings
<1> QED
    BY <1>1, <1>2, <1>3 DEF Next, TakeUp

\* The ceilings are counted before the insert, by requests that do not see each
\* other (shortlist_service.py:119, :278): for any number of workers they are
\* passed by at most one row for every request that ran beside the last.
THEOREM CeilingsAreHeld == Spec => []CeilingsHold
<1>1. CeilingsInv => CeilingsHold
  <2> SUFFICES ASSUME CeilingsInv PROVE CeilingsHold
      OBVIOUS
  <2>1. IsFiniteSet(List)
      BY IdAssumption, FS_Interval
  <2>2. /\ \A u \in User : IsFiniteSet(Owned(u)) /\ IsFiniteSet(Making(u))
      BY <2>1, SetAssumption, FS_Subset DEF Owned, Making
  <2>3. /\ \A l \in List : IsFiniteSet(On(l)) /\ IsFiniteSet(Adding(l))
      BY SetAssumption, FS_Subset DEF On, Adding
  <2>4. /\ \A u \in User : Cardinality(Owned(u)) \in Nat /\ Cardinality(Making(u)) \in Nat
      BY <2>2, FS_CardinalityType
  <2>5. /\ \A l \in List : Cardinality(On(l)) \in Nat /\ Cardinality(Adding(l)) \in Nat
      BY <2>3, FS_CardinalityType
  <2>6. Beside \in Int
      BY SetAssumption, FS_CardinalityType DEF Beside
  <2>7. /\ \A u \in User : Cardinality(Owned(u)) <= MaxLists + Beside
        /\ \A l \in List : Cardinality(On(l)) <= MaxEntries + Beside
      BY <2>4, <2>5, <2>6, LimitAssumption DEF CeilingsInv
  <2> QED
      BY <2>7 DEF CeilingsHold, Beside
<1> QED
    BY <1>1, InitType, TypeStep, InitCeilings, CeilingsStep, PTL DEF Spec

-----------------------------------------------------------------------------
(* A note keeps a review *)

LEMMA NoteStep ==
    ASSUME TypeOK, Next
    PROVE  \A l \in List, p \in Player :
             /\ entry'[l][p].id = entry[l][p].id
             /\ entry'[l][p].verdict # entry[l][p].verdict
             => \E w \in Worker : At(w, "assess", "writing") /\ req[w].list = l /\ req[w].player = p
<1> SUFFICES ASSUME NEW l \in List, NEW p \in Player, entry'[l][p].id = entry[l][p].id,
                    entry'[l][p].verdict # entry[l][p].verdict
             PROVE  \E w \in Worker : At(w, "assess", "writing") /\ req[w].list = l /\ req[w].player = p
    OBVIOUS
<1>1. /\ entry \in [List -> [Player -> EntryRow]]
      /\ entry[l][p].id = 0 => entry[l][p] = NoEntry
    BY DEF TypeOK
<1>2. ~UNCHANGED entry
    OBVIOUS
<1>3. PICK w \in Worker : Write(w)
  <2>1. ASSUME NEW w \in Worker, NEW u \in User, NEW f \in Forms, Check(w, u, f)
        PROVE  UNCHANGED entry
    BY <2>1 DEF Check, CheckCreate, CheckRename, CheckDelete, CheckAdd, CheckEntry, Begin
  <2>2. ASSUME NEW w \in Worker, TakeUp(w)
        PROVE  UNCHANGED entry
    BY <2>1, <2>2 DEF TakeUp
  <2> QED
    BY <1>2, <2>2 DEF Next
<1>4. DeleteList(w) \/ AddEntry(w) \/ ReviseEntry(w) \/ RemoveEntry(w)
    BY <1>2, <1>3 DEF Write, CreateList, RenameList
<1>5. CASE DeleteList(w)
  <2>1. entry' = [entry EXCEPT ![req[w].list] = [q \in Player |-> NoEntry]]
    BY <1>5 DEF DeleteList
  <2>2. entry'[l][p] = NoEntry
    BY <1>1, <2>1
  <2> QED
    BY <1>1, <2>2 DEF NoEntry
<1>6. CASE AddEntry(w)
  <2> DEFINE k == req[w].list
             q == req[w].player
             row == [NoEntry EXCEPT !.id = nextEntry, !.note = req[w].sent.note]
  <2>1. /\ k \in List /\ q \in Player /\ q \notin On(k) /\ row.id # 0
        /\ entry' = [entry EXCEPT ![k][q] = row]
    BY <1>2, <1>6, Added
  <2>2. entry[k][q].id = 0
    BY <2>1 DEF On
  <2> HIDE DEF row
  <2>3. entry'[k][q].id # entry[k][q].id
    BY <1>1, <2>1, <2>2
  <2>4. l # k \/ p # q => entry'[l][p] = entry[l][p]
    BY <1>1, <2>1
  <2> QED
    BY <2>3, <2>4
<1>7. CASE ReviseEntry(w)
  <2> DEFINE r == req[w]
  <2>1. /\ r.list \in List /\ r.player \in Player
        /\ r.op = "note" => Revised(r).verdict = entry[r.list][r.player].verdict
        /\ entry' = [entry EXCEPT ![r.list][r.player] = Revised(r)]
    BY <1>2, <1>7, RevisedRow
  <2>2. r.step = "writing" /\ r.op \in {"note", "assess"}
    BY <1>7 DEF ReviseEntry, Commits
  <2>3. l = r.list /\ p = r.player
    BY <1>1, <2>1
  <2>4. entry'[l][p] = Revised(r)
    BY <1>1, <2>1, <2>3
  <2>5. r.op = "assess"
    BY <2>1, <2>2, <2>3, <2>4
  <2> QED
    BY <2>2, <2>3, <2>5 DEF At
<1>8. CASE RemoveEntry(w)
  <2>1. /\ req[w].list \in List /\ req[w].player \in Player
        /\ entry[req[w].list][req[w].player].id # 0
        /\ entry' = [entry EXCEPT ![req[w].list][req[w].player] = NoEntry]
    BY <1>2, <1>8, Removed
  <2>2. l = req[w].list /\ p = req[w].player
    BY <1>1, <2>1
  <2>3. entry'[l][p] = NoEntry /\ entry[l][p].id # 0
    BY <1>1, <2>1, <2>2
  <2>4. NoEntry.id = 0
    BY DEF NoEntry
  <2> QED
    BY <2>3, <2>4
<1> QED
    BY <1>4, <1>5, <1>6, <1>7, <1>8

\* A note is not a review (shortlist_service.py:312): however requests overlap,
\* only an assessment changes a player's verdict.
THEOREM NotesKeepTheReview == Spec => NotesKeepAReview
<1>1. TypeOK /\ [Next]_vars =>
        [\A l \in List, p \in Player :
           /\ entry'[l][p].id = entry[l][p].id
           /\ entry'[l][p].verdict # entry[l][p].verdict
           => \E w \in Worker : At(w, "assess", "writing") /\ req[w].list = l /\ req[w].player = p]_vars
    BY NoteStep
<1> QED
    BY <1>1, ShortlistsTyped, PTL DEF Spec, NotesKeepAReview

=============================================================================
