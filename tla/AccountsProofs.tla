---------------------------- MODULE AccountsProofs ----------------------------
(***************************************************************************)
(* What the accounts promise, for any browsers, workers and bounds: what   *)
(* was ended is ended when the answer says so, a password change leaves    *)
(* only the sessions of sign-ins that ran beside it, an older password     *)
(* comes back only by a rehash, and only sweeps wait for each other.       *)
(*                                                                         *)
(* AccountsInv says what a transaction may hold at each of its steps, and  *)
(* follows what it knows of the sessions and the password from its SELECT  *)
(* to its COMMIT.  RoomLeft counts the requests that may still issue a     *)
(* session or a password: there is one left for each of them.              *)
(***************************************************************************)
EXTENDS Accounts, FiniteSetTheorems, TLAPS

USE DEF NoToken, NoPassword, AccountRow, SignsIn, SignsOut, Sweeps, Choosing

-----------------------------------------------------------------------------
(* The invariant *)

\* What a transaction holds at each of its steps.  Only a sweep has written a
\* row while it has others to write.
Shape(r) ==
    /\ r.step \in {"idle", "arrived", "ok", "refused"} =>
         r.todo = {} /\ r.locks = {} /\ r.revoking = {}
    /\ r.step = "arrived" /\ r.op = "login" => r.typed # NoPassword
    /\ r.step \in {"sliding", "resolved"} =>
         r.op \notin SignsIn /\ r.op # "logout" /\ r.revoking = {}
    /\ r.step = "sliding" => r.locks = {} /\ r.todo \subseteq {r.token}
    /\ r.step = "resolved" => r.todo = {}
    /\ r.step = "flushing" =>
         /\ r.op \in SignsIn \cup SignsOut \cup {"change"}
         /\ r.revoking \subseteq r.todo \cup r.locks
         /\ r.op \in SignsIn \cup {"change"} => AccountRow \in r.todo \cup r.locks
         /\ r.op \in SignsIn => r.todo \subseteq {AccountRow}
         /\ r.op = "logout" => r.todo \subseteq {r.token}
         /\ r.op \notin Sweeps => r.todo = {} \/ r.locks = {}
    /\ r.rehash => r.op = "login" /\ r.step = "flushing"

\* A session that a password change has to end.
Survives(t) == t \in Rows /\ ~session[t].revoked /\ ~session[t].missed

Ends(r) == r.op \in SignsOut \cup {"change"}
Flushing(r, ops) == r.op \in ops /\ r.step = "flushing"

\* The sessions a request is about: its cookie's own, and those it is to end.
About(r) == {r.token} \cup r.ending

\* What a request knows of the rows: the sessions it is about exist; one that it
\* ends is in hand until it has ended; a sweep has in hand whatever it must end.
KnowsRows(r) ==
    /\ r.step # "idle" /\ (r.op \notin SignsIn \/ r.step = "ok") => r.token \in Rows
    /\ r.ending \subseteq Rows
    /\ Ends(r) /\ r.step = "flushing" =>
         \A t \in About(r) : session[t].revoked \/ t \in r.revoking
    /\ Ends(r) /\ r.step = "ok" => \A t \in About(r) : session[t].revoked
    /\ Flushing(r, Sweeps) => \A t \in Token : Survives(t) => t \in r.revoking
    /\ r.rehash => \A t \in Token : Survives(t) => session[t].under >= r.hash

\* What a request knows of the password: there is one, or its own is the first.
KnowsPassword(r) ==
    /\ Flushing(r, {"login"}) => password # NoPassword /\ r.hash \in 1 .. nextPassword - 1
    /\ r.op = "register" /\ AccountRow \in r.locks => password = NoPassword

Typed ==
    /\ now \in Time /\ password \in Password /\ nextPassword \in 1 .. MaxPassword + 1
    /\ outdated \in BOOLEAN /\ session \in [Token -> SessionRow]
    /\ jar \in [Browser -> [token : Token \cup {NoToken}, until : Nat]]
    /\ req \in [Worker -> Request] /\ faults \in Nat

\* A row is written by one transaction at a time.
LocksApart == \A v, w \in Worker : v # w => req[v].locks \cap req[w].locks = {}

PasswordsInOrder ==
    /\ password < nextPassword
    /\ \A t \in Rows : session[t].under < nextPassword
    /\ password = NoPassword => Rows = {}
    /\ \A t \in Token : Survives(t) => session[t].under >= password

AccountsInv ==
    /\ Typed /\ LocksApart /\ PasswordsInOrder
    /\ \A b \in Browser : jar[b].token \in Rows \cup {NoToken}
    /\ \A w \in Worker : Shape(req[w]) /\ KnowsRows(req[w]) /\ KnowsPassword(req[w])

\* A session and a password are left for everybody who may still issue one.
Choosers == {w \in Busy : req[w].op \in Choosing /\ req[w].step \notin {"ok", "refused"}}

RoomLeft ==
    /\ Cardinality(SigningIn) <= Cardinality(Unused)
    /\ nextPassword + Cardinality(Choosers) <= MaxPassword + 1

-----------------------------------------------------------------------------
(* Data *)

\* A set of numbers has a least one, < being well founded.
LEMMA LeastNumber ==
    ASSUME NEW S \in SUBSET Nat, S # {}, NEW Less, IsWellFoundedOn(Less, Nat),
           \A m, n \in Nat : m < n => <<m, n>> \in Less
    PROVE  \E n \in S : \A s \in S : n <= s
<1>1. S \subseteq Nat /\ S # {} /\ IsWellFoundedOn(Less, Nat)
    OBVIOUS
<1>2. \E n \in S : \A s \in S : ~(<<s, n>> \in Less)
    BY ONLY <1>1, WFMin
<1>3. PICK n \in S : \A s \in S : ~(<<s, n>> \in Less)
    BY <1>2
<1>4. \A s \in S : ~(s < n)
    BY <1>1, <1>3
<1>5. \A s \in S : n <= s
    BY <1>1, <1>4
<1> QED
    BY <1>5

\* The first of some rows is one of them.
LEMMA FirstIsOne ==
    ASSUME NEW S \in SUBSET Nat, S # {}
    PROVE  First(S) \in S /\ \A s \in S : First(S) <= s
<1>1. \A m, n \in Nat : m < n => <<m, n>> \in OpToRel(<, Nat)
    BY DEF OpToRel
<1>2. \E n \in S : \A s \in S : n <= s
    BY <1>1, NatLessThanWellFounded, LeastNumber
<1> QED
    BY <1>2 DEF First

LEMMA RowsAreNumbers == Token \subseteq Row /\ Row \subseteq Nat /\ IsFiniteSet(Token)
BY BoundAssumption, FS_Interval DEF Token, Row

LEMMA Absent == NoRow \in SessionRow /\ Idle \in Request /\ Shape(Idle) /\ Idle.step = "idle"
<1>1. NoRow \in SessionRow
    BY BoundAssumption DEF NoRow, SessionRow, Time, Password
<1>2. Idle \in Request
    BY BoundAssumption DEF Idle, Request, Ops, Steps, Time, Password
<1>3. Idle.step = "idle" /\ Idle.todo = {} /\ Idle.locks = {} /\ Idle.revoking = {} /\ ~Idle.rehash
    BY DEF Idle
<1> QED
    BY <1>1, <1>2, <1>3 DEF Shape

\* What is left of a request whose transaction is over.
LEMMA ClosedRequest ==
    ASSUME NEW r \in Request, NEW step \in {"ok", "refused"}
    PROVE  LET c == Closed(r, step) IN
           /\ c \in Request /\ Shape(c) /\ c.step = step /\ ~c.rehash
           /\ c.todo = {} /\ c.locks = {} /\ c.revoking = {}
           /\ c.op = r.op /\ c.token = r.token /\ c.browser = r.browser
           /\ c.ending \subseteq r.ending
<1> DEFINE c == Closed(r, step)
<1>1. NoPassword \in Password
    BY BoundAssumption DEF Password
<1>2. /\ c.step = step /\ ~c.rehash /\ c.todo = {} /\ c.locks = {} /\ c.revoking = {}
      /\ c.op = r.op /\ c.token = r.token /\ c.browser = r.browser
    BY DEF Closed, Request
<1>3. c.ending = IF step = "ok" THEN r.ending ELSE {}
    BY DEF Closed, Request
<1>4. c \in Request
    BY <1>1 DEF Closed, Request, Steps
<1>5. Shape(c)
    BY <1>2 DEF Shape
<1> QED
    BY <1>2, <1>3, <1>4, <1>5

\* A refused request knows what it knew of its session.
LEMMA RefusedKnows ==
    ASSUME NEW r \in Request, KnowsRows(r), r.step # "idle"
    PROVE  LET c == Closed(r, "refused") IN KnowsRows(c) /\ KnowsPassword(c)
<1> DEFINE c == Closed(r, "refused")
<1>1. /\ c.step = "refused" /\ c.op = r.op /\ c.token = r.token /\ ~c.rehash /\ c.locks = {}
      /\ c.ending \subseteq r.ending
    BY ClosedRequest
<1>2. (c.op \notin SignsIn => c.token \in Rows) /\ c.ending \subseteq Rows
    BY <1>1 DEF KnowsRows
<1> SUFFICES KnowsRows(c) /\ KnowsPassword(c)
    OBVIOUS
<1> HIDE DEF c
<1> QED
    BY <1>1, <1>2 DEF KnowsRows, KnowsPassword, Flushing

\* The session rows are the same to those who ask which were issued, when, and
\* whether they were revoked.
SameRows ==
    \A t \in Token :
        /\ session'[t].issued = session[t].issued /\ session'[t].revoked = session[t].revoked
        /\ session'[t].under = session[t].under /\ session'[t].missed = session[t].missed

\* A step of one request that decides nothing for the others.
LEMMA RequestStep ==
    ASSUME AccountsInv, NEW w \in Worker, NEW r \in Request,
           Shape(r), KnowsRows(r), KnowsPassword(r),
           \A v \in Worker \ {w} : r.locks \cap req[v].locks = {},
           req' = [req EXCEPT ![w] = r], UNCHANGED <<password, nextPassword>>,
           now' \in Time, outdated' \in BOOLEAN, faults' \in Nat,
           session' \in [Token -> SessionRow], SameRows,
           jar' \in [Browser -> [token : Token \cup {NoToken}, until : Nat]],
           \A b \in Browser : jar'[b].token \in Rows \cup {NoToken}
    PROVE  AccountsInv'
<1>1. req \in [Worker -> Request]
    BY DEF AccountsInv, Typed
<1>2. req' \in [Worker -> Request] /\ req'[w] = r /\ \A v \in Worker \ {w} : req'[v] = req[v]
    BY <1>1
<1>3. Typed'
    BY <1>2 DEF AccountsInv, Typed
<1>4. LocksApart'
    BY <1>2 DEF AccountsInv, LocksApart
<1>5. Rows' = Rows /\ \A t \in Token : Survives(t)' = Survives(t)
    BY DEF SameRows, Rows, Survives
<1>6. PasswordsInOrder'
  <2>1. Rows \subseteq Token
    BY DEF Rows
  <2> QED
    BY <1>5, <2>1 DEF AccountsInv, PasswordsInOrder, SameRows
<1>7. ASSUME NEW q \in Request, KnowsRows(q), KnowsPassword(q)
      PROVE  KnowsRows(q)' /\ KnowsPassword(q)'
  <2>1. \A t \in Rows : session'[t].revoked = session[t].revoked
    BY DEF SameRows, Rows
  <2>2. Ends(q) /\ q.step \in {"flushing", "ok"} => About(q) \subseteq Rows
    BY <1>7 DEF KnowsRows, Ends, About
  <2>3. \A t \in Token : session'[t].under = session[t].under
    BY DEF SameRows
  <2>4. KnowsRows(q)'
    <3>1. /\ q.step # "idle" /\ (q.op \notin SignsIn \/ q.step = "ok") => q.token \in Rows'
          /\ q.ending \subseteq Rows'
      BY <1>5, <1>7 DEF KnowsRows
    <3>2. /\ Ends(q) /\ q.step = "flushing" =>
               \A t \in About(q) : session'[t].revoked \/ t \in q.revoking
          /\ Ends(q) /\ q.step = "ok" => \A t \in About(q) : session'[t].revoked
      BY <1>7, <2>1, <2>2 DEF KnowsRows
    <3>3. Flushing(q, Sweeps) => \A t \in Token : Survives(t)' => t \in q.revoking
      BY <1>5, <1>7 DEF KnowsRows
    <3>4. q.rehash => \A t \in Token : Survives(t)' => session'[t].under >= q.hash
      BY <1>5, <1>7, <2>3 DEF KnowsRows
    <3> QED
      BY <3>1, <3>2, <3>3, <3>4 DEF KnowsRows, Ends, Flushing, About
  <2> QED
    BY <1>7, <2>4 DEF KnowsPassword, Flushing
<1>8. \A v \in Worker : Shape(req[v]) /\ KnowsRows(req[v]) /\ KnowsPassword(req[v])
    BY DEF AccountsInv
<1>9. ASSUME NEW v \in Worker
      PROVE  (Shape(req[v]) /\ KnowsRows(req[v]) /\ KnowsPassword(req[v]))'
  <2>1. PICK q \in Request : q = req'[v] /\ Shape(q) /\ KnowsRows(q) /\ KnowsPassword(q)
    BY <1>1, <1>2, <1>8
  <2>2. KnowsRows(q)' /\ KnowsPassword(q)'
    BY <1>7, <2>1
  <2>3. Shape(req[v])'
    BY <2>1 DEF Shape
  <2>4. KnowsRows(req[v])'
    BY <2>1, <2>2 DEF KnowsRows
  <2>5. KnowsPassword(req[v])'
    BY <2>1, <2>2 DEF KnowsPassword
  <2> QED
    BY <2>3, <2>4, <2>5
<1> QED
    BY <1>3, <1>4, <1>5, <1>6, <1>9 DEF AccountsInv

\* A step of a worker that only its own request remembers.
LEMMA WorkStep ==
    ASSUME AccountsInv, NEW w \in Worker, NEW r \in Request,
           Shape(r), KnowsRows(r), KnowsPassword(r),
           \A v \in Worker \ {w} : r.locks \cap req[v].locks = {},
           req' = [req EXCEPT ![w] = r],
           UNCHANGED <<now, password, nextPassword, outdated, session, jar, faults>>
    PROVE  AccountsInv'
<1>1. Typed /\ \A b \in Browser : jar[b].token \in Rows \cup {NoToken}
    BY DEF AccountsInv
<1>2. /\ now' \in Time /\ outdated' \in BOOLEAN /\ faults' \in Nat
      /\ session' \in [Token -> SessionRow]
      /\ jar' \in [Browser -> [token : Token \cup {NoToken}, until : Nat]]
    BY <1>1 DEF Typed
<1>3. SameRows
    BY DEF SameRows
<1> QED
    BY <1>1, <1>2, <1>3, RequestStep

\* What the invariant says of one request.
LEMMA Known ==
    ASSUME AccountsInv, NEW w \in Worker
    PROVE  /\ req[w] \in Request /\ Shape(req[w]) /\ KnowsRows(req[w]) /\ KnowsPassword(req[w])
           /\ \A v \in Worker \ {w} : req[w].locks \cap req[v].locks = {}
           /\ password \in Password /\ password \in Nat /\ nextPassword \in Nat
           /\ now \in Time
BY BoundAssumption DEF AccountsInv, Typed, LocksApart, Password

\* A request that is refused gives up what it held.
LEMMA RefusedStep ==
    ASSUME AccountsInv, NEW w \in Worker, req[w].step # "idle",
           req' = [req EXCEPT ![w] = Closed(req[w], "refused")],
           UNCHANGED <<now, password, nextPassword, outdated, session, jar, faults>>
    PROVE  AccountsInv'
<1> DEFINE c == Closed(req[w], "refused")
<1>1. req[w] \in Request /\ KnowsRows(req[w])
    BY Known
<1>2. c \in Request /\ Shape(c) /\ c.locks = {}
    BY <1>1, ClosedRequest
<1>3. KnowsRows(c) /\ KnowsPassword(c)
    BY <1>1, RefusedKnows
<1>4. req' = [req EXCEPT ![w] = c]
    OBVIOUS
<1> HIDE DEF c
<1> QED
    BY <1>2, <1>3, <1>4, WorkStep

\* A request without locks is apart from all others.
LEMMA RegisterStep ==
    ASSUME AccountsInv, NEW w \in Worker, Register(w)
    PROVE  AccountsInv'
<1>1. /\ req[w].step = "arrived" /\ req[w].op = "register"
      /\ UNCHANGED <<now, password, nextPassword, outdated, session, jar, faults>>
    BY DEF Register
<1>2. /\ req[w] \in Request /\ Shape(req[w]) /\ KnowsRows(req[w]) /\ now \in Time
    BY Known
<1>3. CASE password # NoPassword
    BY <1>1, <1>3, RefusedStep DEF Register
<1>4. CASE password = NoPassword
  <2> DEFINE r == [req[w] EXCEPT !.step = "flushing", !.todo = {AccountRow}, !.at = now]
  <2>1. req' = [req EXCEPT ![w] = r]
    BY <1>4 DEF Register
  <2>2. r \in Request
    BY <1>2 DEF Request, Steps, Row
  <2>3. /\ r.step = "flushing" /\ r.todo = {AccountRow} /\ r.op = "register" /\ r.locks = {}
        /\ r.revoking = {} /\ ~r.rehash /\ r.ending \subseteq Rows
    BY <1>1, <1>2 DEF Request, Shape, KnowsRows
  <2> HIDE DEF r
  <2>4. Shape(r)
    BY <2>3 DEF Shape
  <2>5. KnowsRows(r) /\ KnowsPassword(r)
    BY <2>3 DEF KnowsRows, KnowsPassword, Ends, Flushing
  <2> QED
    BY <1>1, <2>1, <2>2, <2>3, <2>4, <2>5, WorkStep
<1> QED
    BY <1>3, <1>4

LEMMA AuthenticateStep ==
    ASSUME AccountsInv, NEW w \in Worker, Authenticate(w)
    PROVE  AccountsInv'
<1>1. /\ req[w].step = "arrived" /\ req[w].op = "login"
      /\ UNCHANGED <<now, password, nextPassword, outdated, session, jar, faults>>
    BY DEF Authenticate
<1>2. /\ req[w] \in Request /\ Shape(req[w]) /\ KnowsRows(req[w])
      /\ now \in Time /\ password \in Password
      /\ password \in Nat /\ nextPassword \in Nat /\ outdated \in BOOLEAN
    BY Known DEF AccountsInv, Typed
<1>3. CASE req[w].typed # password
    BY <1>1, <1>3, RefusedStep DEF Authenticate
<1>4. CASE req[w].typed = password
  <2> DEFINE r == [req[w] EXCEPT !.step = "flushing", !.hash = password, !.rehash = outdated,
                                 !.todo = {AccountRow}, !.at = now]
  <2>1. req' = [req EXCEPT ![w] = r]
    BY <1>4 DEF Authenticate
  <2>2. r \in Request
    BY <1>2 DEF Request, Steps, Row
  <2>3. /\ r.step = "flushing" /\ r.todo = {AccountRow} /\ r.op = "login" /\ r.locks = {}
        /\ r.revoking = {} /\ r.hash = password /\ r.ending \subseteq Rows
    BY <1>1, <1>2 DEF Request, Shape, KnowsRows
  <2> HIDE DEF r
  <2>4. Shape(r)
    BY <2>3 DEF Shape
  <2>5. password # NoPassword
    BY <1>1, <1>2, <1>4 DEF Shape
  <2>6. password < nextPassword /\ \A t \in Token : Survives(t) => session[t].under >= password
    BY DEF AccountsInv, PasswordsInOrder
  <2>7. KnowsRows(r)
    BY <2>3, <2>6 DEF KnowsRows, Ends, Flushing
  <2>8. KnowsPassword(r)
    BY <1>2, <2>3, <2>5, <2>6 DEF KnowsPassword, Flushing
  <2> QED
    BY <1>1, <2>1, <2>2, <2>3, <2>4, <2>7, <2>8, WorkStep
<1> QED
    BY <1>3, <1>4

LEMMA ResolveStep ==
    ASSUME AccountsInv, NEW w \in Worker, Resolve(w)
    PROVE  AccountsInv'
<1>1. /\ req[w].step = "arrived" /\ req[w].op \in {"me", "write", "everywhere", "change"}
      /\ UNCHANGED <<now, password, nextPassword, outdated, session, jar, faults>>
    BY DEF Resolve
<1>2. /\ req[w] \in Request /\ Shape(req[w]) /\ KnowsRows(req[w]) /\ now \in Time
      /\ password \in Password
    BY Known
<1>3. CASE ~Live(req[w].token)
    BY <1>1, <1>3, RefusedStep DEF Resolve
<1>4. CASE Live(req[w].token)
  <2>1. PICK slides \in BOOLEAN, hash \in Password :
          req' = [req EXCEPT ![w] =
            [req[w] EXCEPT !.hash = hash, !.at = now,
                           !.step = IF slides THEN "sliding" ELSE "resolved",
                           !.slid = slides,
                           !.todo = IF slides THEN {req[w].token} ELSE {}]]
    <3> DEFINE slides == session[req[w].token].seen < now
               hash == IF req[w].op = "change" THEN password ELSE req[w].hash
    <3>1. slides \in BOOLEAN /\ hash \in Password
      BY <1>2 DEF Request
    <3>2. req' = [req EXCEPT ![w] =
            [req[w] EXCEPT !.hash = hash, !.at = now,
                           !.step = IF slides THEN "sliding" ELSE "resolved",
                           !.slid = slides,
                           !.todo = IF slides THEN {req[w].token} ELSE {}]]
      BY <1>2, <1>4 DEF Resolve, Request
    <3> QED
      BY <3>1, <3>2
  <2> DEFINE r == [req[w] EXCEPT !.hash = hash, !.at = now,
                                 !.step = IF slides THEN "sliding" ELSE "resolved",
                                 !.slid = slides,
                                 !.todo = IF slides THEN {req[w].token} ELSE {}]
  <2>2. {req[w].token} \in SUBSET Row
    BY <1>4 DEF Live, Rows, Row
  <2>3. r \in Request
    BY <1>2, <2>2 DEF Request, Steps
  <2>4. /\ r.step \in {"sliding", "resolved"} /\ r.op = req[w].op /\ r.locks = {}
        /\ r.revoking = {} /\ ~r.rehash /\ r.token = req[w].token
        /\ r.step = "resolved" => r.todo = {}
        /\ r.todo \subseteq {r.token} /\ r.ending = req[w].ending
    BY <1>1, <1>2 DEF Request, Shape
  <2>8. req' = [req EXCEPT ![w] = r]
    BY <2>1
  <2> HIDE DEF r
  <2>5. Shape(r)
    BY <1>1, <2>4 DEF Shape
  <2>6. r.token \in Rows /\ r.ending \subseteq Rows
    BY <1>2, <1>4, <2>4 DEF Live, KnowsRows
  <2>7. KnowsRows(r) /\ KnowsPassword(r)
    BY <2>4, <2>6 DEF KnowsRows, KnowsPassword, Flushing
  <2> QED
    BY <1>1, <2>3, <2>4, <2>5, <2>7, <2>8, WorkStep
<1> QED
    BY <1>3, <1>4

LEMMA SelectOwnStep ==
    ASSUME AccountsInv, NEW w \in Worker, SelectOwn(w)
    PROVE  AccountsInv'
<1> DEFINE own == {req[w].token} \cap Unrevoked
           ending == Usable \cap {req[w].token}
           r == [req[w] EXCEPT !.step = "flushing", !.revoking = own, !.todo = own,
                               !.ending = ending]
<1>1. /\ req[w].step = "arrived" /\ req[w].op = "logout" /\ req' = [req EXCEPT ![w] = r]
      /\ UNCHANGED <<now, password, nextPassword, outdated, session, jar, faults>>
    BY DEF SelectOwn
<1>2. /\ req[w] \in Request /\ Shape(req[w]) /\ KnowsRows(req[w])
    BY Known
<1>3. own \in SUBSET Token /\ own \in SUBSET Row /\ ending \in SUBSET Token
    BY DEF Unrevoked, Rows, Row, Usable
<1>4. r \in Request
    BY <1>2, <1>3 DEF Request, Steps
<1>5. /\ r.step = "flushing" /\ r.op = "logout" /\ r.locks = {} /\ r.token = req[w].token
      /\ r.revoking = own /\ r.todo = own /\ r.ending = ending /\ ~r.rehash
    BY <1>1, <1>2 DEF Request, Shape
<1>6. r.token \in Rows /\ r.ending \subseteq {r.token}
    BY <1>1, <1>2, <1>5 DEF KnowsRows
<1> HIDE DEF r
<1>7. Shape(r)
    BY <1>5 DEF Shape
<1>8. \A t \in About(r) : session[t].revoked \/ t \in r.revoking
  <2>1. session[r.token].revoked \/ r.token \in r.revoking
    BY <1>5, <1>6 DEF Unrevoked
  <2> QED
    BY <1>6, <2>1 DEF About
<1>9. KnowsRows(r) /\ KnowsPassword(r)
    BY <1>5, <1>6, <1>8 DEF KnowsRows, KnowsPassword, Flushing
<1> QED
    BY <1>1, <1>4, <1>5, <1>7, <1>9, WorkStep

LEMMA SelectAllStep ==
    ASSUME AccountsInv, NEW w \in Worker, SelectAll(w)
    PROVE  AccountsInv'
<1>1. /\ req[w].step = "resolved" /\ req[w].op \in Sweeps
      /\ UNCHANGED <<now, password, nextPassword, outdated, session, jar, faults>>
    BY DEF SelectAll
<1>2. /\ req[w] \in Request /\ Shape(req[w]) /\ KnowsRows(req[w])
      /\ \A v \in Worker \ {w} : req[w].locks \cap req[v].locks = {}
    BY Known
<1>3. CASE req[w].op = "change" /\ req[w].typed # req[w].hash
    BY <1>1, <1>3, RefusedStep DEF SelectAll
<1>4. CASE ~(req[w].op = "change" /\ req[w].typed # req[w].hash)
  <2> DEFINE todo == (IF req[w].op = "change" THEN {AccountRow} ELSE {})
                       \cup (Unrevoked \ req[w].locks)
             r == [req[w] EXCEPT !.step = "flushing", !.revoking = Unrevoked, !.ending = Usable,
                                 !.todo = todo]
  <2>1. req' = [req EXCEPT ![w] = r]
    BY <1>4 DEF SelectAll
  <2>2. Unrevoked \in SUBSET Token /\ todo \in SUBSET Row /\ Usable \in SUBSET Token
    BY DEF Unrevoked, Rows, Row, Usable
  <2>3. r \in Request
    BY <1>2, <2>2 DEF Request, Steps
  <2>4. /\ r.step = "flushing" /\ r.op = req[w].op /\ r.locks = req[w].locks
        /\ r.token = req[w].token /\ r.revoking = Unrevoked /\ r.todo = todo /\ ~r.rehash
        /\ r.ending = Usable
    BY <1>1, <1>2 DEF Request, Shape
  <2>5. About(r) \subseteq Rows
    BY <1>1, <1>2, <2>4 DEF KnowsRows, About, Usable, Live
  <2> HIDE DEF r
  <2>6. Shape(r)
    BY <1>1, <2>4 DEF Shape
  <2>7. \A t \in About(r) : session[t].revoked \/ t \in r.revoking
    BY <2>4, <2>5 DEF Unrevoked
  <2>8. \A t \in Token : Survives(t) => t \in r.revoking
    BY <2>4 DEF Survives, Unrevoked
  <2>9. KnowsRows(r) /\ KnowsPassword(r)
    BY <1>1, <2>4, <2>5, <2>7, <2>8 DEF KnowsRows, KnowsPassword, Flushing, About
  <2> QED
    BY <1>1, <1>2, <2>1, <2>3, <2>4, <2>6, <2>9, WorkStep
<1> QED
    BY <1>3, <1>4

LEMMA WriteRowStep ==
    ASSUME AccountsInv, NEW w \in Worker, WriteRow(w)
    PROVE  AccountsInv'
<1> DEFINE row == First(req[w].todo)
<1>1. /\ req[w].step \in {"sliding", "flushing"} /\ req[w].todo # {} /\ ~Locked(w, row)
      /\ UNCHANGED <<now, password, nextPassword, outdated, session, jar, faults>>
    BY DEF WriteRow, Waiting
<1>2. /\ req[w] \in Request /\ Shape(req[w]) /\ KnowsRows(req[w]) /\ KnowsPassword(req[w])
      /\ \A v \in Worker \ {w} : req[w].locks \cap req[v].locks = {}
    BY Known
<1>3. row \in req[w].todo /\ row \in Row
  <2>1. req[w].todo \in SUBSET Row /\ req[w].todo \in SUBSET Nat
    BY <1>2, RowsAreNumbers DEF Request
  <2> QED
    BY <1>1, <2>1, FirstIsOne
<1>4. CASE req[w].op = "register" /\ password # NoPassword
    BY <1>1, <1>4, RefusedStep DEF WriteRow
<1>5. CASE ~(req[w].op = "register" /\ password # NoPassword)
  <2> DEFINE step == IF req[w].step = "sliding" THEN "resolved" ELSE req[w].step
             r == [req[w] EXCEPT !.todo = req[w].todo \ {row}, !.locks = req[w].locks \cup {row},
                                 !.step = step]
  <2>1. req' = [req EXCEPT ![w] = r]
    BY <1>2, <1>5 DEF WriteRow, Request
  <2>2. r \in Request
    BY <1>2, <1>3 DEF Request, Steps
  <2>3. /\ r.step = step /\ r.op = req[w].op /\ r.locks = req[w].locks \cup {row}
        /\ r.token = req[w].token /\ r.revoking = req[w].revoking
        /\ r.todo = req[w].todo \ {row} /\ r.rehash = req[w].rehash /\ r.hash = req[w].hash
        /\ r.ending = req[w].ending
    BY <1>2 DEF Request
  <2> HIDE DEF r, row
  <2>4. \A v \in Worker \ {w} : r.locks \cap req[v].locks = {}
    <3> SUFFICES ASSUME NEW v \in Worker \ {w}
                 PROVE  row \notin req[v].locks
      BY <1>2, <2>3
    <3>1. v \notin Busy => req[v].locks = {}
      BY Known DEF Busy, Shape
    <3> QED
      BY <1>1, <3>1 DEF Locked
  <2>5. Shape(r)
    <3>1. CASE req[w].step = "sliding"
      BY <1>2, <1>3, <2>3, <3>1 DEF Shape
    <3>2. CASE req[w].step = "flushing"
      BY <1>2, <1>3, <2>3, <3>2 DEF Shape
    <3> QED
      BY <1>1, <3>1, <3>2
  <2>6. KnowsRows(r)
    <3>1. (req[w].op \notin SignsIn => r.token \in Rows) /\ r.ending \subseteq Rows
      BY <1>1, <1>2, <2>3 DEF KnowsRows
    <3>2. CASE req[w].step = "sliding"
      BY <1>2, <2>3, <3>1, <3>2 DEF KnowsRows, Shape, Ends, Flushing
    <3>3. CASE req[w].step = "flushing"
      BY <1>2, <2>3, <3>1, <3>3 DEF KnowsRows, Ends, Flushing, About
    <3> QED
      BY <1>1, <3>2, <3>3
  <2>7. KnowsPassword(r)
    BY <1>2, <1>5, <2>3 DEF KnowsPassword, Flushing
  <2> QED
    BY <1>1, <2>1, <2>2, <2>4, <2>5, <2>6, <2>7, WorkStep
<1> QED
    BY <1>4, <1>5

LEMMA VictimStep ==
    ASSUME AccountsInv, NEW w \in Worker, Victim(w)
    PROVE  AccountsInv'
<1>1. PICK S \in SUBSET Worker : w \in S /\ Deadlocked(S)
    BY DEF Victim
<1>2. req[w].step # "idle"
    BY <1>1 DEF Deadlocked, WaitsFor, Waiting, Busy
<1> QED
    BY <1>2, RefusedStep DEF Victim

\* A request read its session and that is all.
LEMMA ReadStep ==
    ASSUME AccountsInv, NEW w \in Worker, Read(w)
    PROVE  AccountsInv'
<1> DEFINE c == Closed(req[w], "ok")
<1>1. /\ req[w].step = "resolved" /\ req[w].op = "me" /\ req' = [req EXCEPT ![w] = c]
      /\ session' = [session EXCEPT ![req[w].token].used = req[w].at]
      /\ UNCHANGED <<now, password, nextPassword, outdated, jar, faults>>
    BY DEF Read
<1>2. /\ req[w] \in Request /\ KnowsRows(req[w])
    BY Known
<1>3. /\ c \in Request /\ Shape(c) /\ c.step = "ok" /\ c.op = "me" /\ c.token = req[w].token
      /\ c.locks = {} /\ ~c.rehash /\ c.ending \subseteq req[w].ending
    BY <1>1, <1>2, ClosedRequest
<1> HIDE DEF c
<1>4. c.token \in Rows /\ c.ending \subseteq Rows
    BY <1>1, <1>2, <1>3 DEF KnowsRows
<1>5. KnowsRows(c) /\ KnowsPassword(c)
    BY <1>3, <1>4 DEF KnowsRows, KnowsPassword, Ends, Flushing
<1>6. session \in [Token -> SessionRow] /\ req[w].token \in Token /\ req[w].at \in Time
    BY <1>2, <1>3, <1>4 DEF AccountsInv, Typed, Rows, Request
<1> DEFINE row == [session[req[w].token] EXCEPT !.used = req[w].at]
<1>7. session' = [session EXCEPT ![req[w].token] = row]
    BY <1>1, <1>6 DEF SessionRow
<1>8. /\ row \in SessionRow /\ row.issued = session[req[w].token].issued
      /\ row.revoked = session[req[w].token].revoked /\ row.under = session[req[w].token].under
      /\ row.missed = session[req[w].token].missed
    BY <1>6 DEF SessionRow
<1> HIDE DEF row
<1>9. session' \in [Token -> SessionRow] /\ SameRows
    BY <1>6, <1>7, <1>8 DEF SameRows
<1>10. /\ now' \in Time /\ outdated' \in BOOLEAN /\ faults' \in Nat
       /\ jar' \in [Browser -> [token : Token \cup {NoToken}, until : Nat]]
       /\ \A b \in Browser : jar'[b].token \in Rows \cup {NoToken}
    BY <1>1 DEF AccountsInv, Typed
<1> QED
    BY <1>1, <1>3, <1>5, <1>9, <1>10, RequestStep

\* A cookie that is set is of a session that was issued, and a browser without
\* one has none.
LEMMA JarStep ==
    ASSUME AccountsInv, NEW w \in Worker, req[w].step # "idle",
           \/ jar' = jar
           \/ jar' = OnFailure(req[w].browser, req[w].op)
           \/ req[w].step = "ok" /\ jar' = OnSuccess(req[w].browser, req[w].op, req[w].token)
    PROVE  /\ jar' \in [Browser -> [token : Token \cup {NoToken}, until : Nat]]
           /\ \A b \in Browser : jar'[b].token \in Rows \cup {NoToken}
<1>1. /\ jar \in [Browser -> [token : Token \cup {NoToken}, until : Nat]]
      /\ \A b \in Browser : jar[b].token \in Rows \cup {NoToken}
    BY DEF AccountsInv, Typed
<1>2. Rows \subseteq Token
    BY DEF Rows
<1>3. now + Lifetime \in Nat
    BY Known, BoundAssumption, TimeoutAssumption DEF Time
<1>4. ASSUME NEW token \in Rows \cup {NoToken}, NEW until \in Nat,
             jar' = [jar EXCEPT ![req[w].browser] = [token |-> token, until |-> until]]
      PROVE  /\ jar' \in [Browser -> [token : Token \cup {NoToken}, until : Nat]]
             /\ \A b \in Browser : jar'[b].token \in Rows \cup {NoToken}
    BY <1>1, <1>2, <1>4
<1>5. CASE jar' = jar
    BY <1>1, <1>5
<1>6. CASE jar' = Cleared(req[w].browser)
    BY <1>4, <1>6 DEF Cleared
<1>7. CASE /\ req[w].step = "ok"
           /\ jar' = [jar EXCEPT ![req[w].browser] = [token |-> req[w].token, until |-> now + Lifetime]]
  <2>1. req[w].token \in Rows
    BY <1>7, Known DEF KnowsRows
  <2> QED
    BY <1>3, <1>4, <1>7, <2>1
<1> QED
    BY <1>5, <1>6, <1>7 DEF OnFailure, OnSuccess

LEMMA AnswerStep ==
    ASSUME AccountsInv, NEW w \in Worker, Answer(w)
    PROVE  AccountsInv'
<1>1. /\ req[w].step \in {"ok", "refused"} /\ req' = [req EXCEPT ![w] = Idle]
      /\ UNCHANGED <<now, password, nextPassword, outdated, session, faults>>
    BY DEF Answer
<1>2. \/ jar' = jar
      \/ jar' = OnFailure(req[w].browser, req[w].op)
      \/ req[w].step = "ok" /\ jar' = OnSuccess(req[w].browser, req[w].op, req[w].token)
  <2>1. jar' = CASE ~req[w].awaited -> jar
                 [] req[w].step = "ok" -> OnSuccess(req[w].browser, req[w].op, req[w].token)
                 [] OTHER -> OnFailure(req[w].browser, req[w].op)
    BY DEF Answer
  <2>2. req[w].step = "refused" => req[w].step # "ok"
    OBVIOUS
  <2> QED
    BY <1>1, <2>1, <2>2
<1>3. /\ jar' \in [Browser -> [token : Token \cup {NoToken}, until : Nat]]
      /\ \A b \in Browser : jar'[b].token \in Rows \cup {NoToken}
    BY <1>1, <1>2, JarStep
<1>4. Idle \in Request /\ Shape(Idle) /\ Idle.locks = {}
    BY Absent DEF Idle
<1>5. KnowsRows(Idle) /\ KnowsPassword(Idle)
    BY DEF KnowsRows, KnowsPassword, Ends, Flushing, Idle
<1>6. /\ now' \in Time /\ outdated' \in BOOLEAN /\ faults' \in Nat
      /\ session' \in [Token -> SessionRow] /\ SameRows
    BY <1>1 DEF AccountsInv, Typed, SameRows
<1> QED
    BY <1>1, <1>3, <1>4, <1>5, <1>6, RequestStep

LEMMA GiveUpStep ==
    ASSUME AccountsInv, NEW w \in Worker, GiveUp(w)
    PROVE  AccountsInv'
<1> DEFINE r == [req[w] EXCEPT !.awaited = FALSE]
<1>1. /\ req[w].step # "idle" /\ req' = [req EXCEPT ![w] = r]
      /\ jar' = OnFailure(req[w].browser, req[w].op) /\ faults' = faults + 1
      /\ UNCHANGED <<now, password, nextPassword, outdated, session>>
  <2>1. req \in [Worker -> Request]
    BY DEF AccountsInv, Typed
  <2> QED
    BY <2>1 DEF GiveUp, Busy, Request
<1>2. /\ jar' \in [Browser -> [token : Token \cup {NoToken}, until : Nat]]
      /\ \A b \in Browser : jar'[b].token \in Rows \cup {NoToken}
    BY <1>1, JarStep
<1>3. /\ req[w] \in Request /\ Shape(req[w]) /\ KnowsRows(req[w]) /\ KnowsPassword(req[w])
      /\ \A v \in Worker \ {w} : req[w].locks \cap req[v].locks = {}
    BY Known
<1>4. /\ r \in Request /\ r.step = req[w].step /\ r.op = req[w].op /\ r.token = req[w].token
      /\ r.typed = req[w].typed /\ r.hash = req[w].hash /\ r.rehash = req[w].rehash
      /\ r.revoking = req[w].revoking /\ r.todo = req[w].todo /\ r.locks = req[w].locks
      /\ r.ending = req[w].ending
    BY <1>3 DEF Request
<1> HIDE DEF r
<1>5. Shape(r)
    BY <1>3, <1>4 DEF Shape
<1>6. KnowsRows(r) /\ KnowsPassword(r)
    BY <1>3, <1>4 DEF KnowsRows, KnowsPassword, Ends, Flushing, About
<1>7. /\ now' \in Time /\ outdated' \in BOOLEAN /\ faults' \in Nat
      /\ session' \in [Token -> SessionRow] /\ SameRows
    BY <1>1 DEF AccountsInv, Typed, SameRows
<1> QED
    BY <1>1, <1>2, <1>3, <1>4, <1>5, <1>6, <1>7, RequestStep

LEMMA SubmitStep ==
    ASSUME AccountsInv, NEW w \in Worker, NEW b \in Browser, NEW op \in Ops,
           NEW typed \in Password, Submit(b, w, op, typed)
    PROVE  AccountsInv'
<1> DEFINE token == IF op \in SignsIn THEN NoToken ELSE Cookie(b)
           r == [ op |-> op, browser |-> b, awaited |-> TRUE, token |-> token,
                  typed |-> typed, hash |-> NoPassword, at |-> now, step |-> "arrived",
                  slid |-> FALSE, rehash |-> FALSE, revoking |-> {}, ending |-> {},
                  todo |-> {}, locks |-> {} ]
<1>1. /\ req' = [req EXCEPT ![w] = r]
      /\ UNCHANGED <<now, password, nextPassword, outdated, session, jar, faults>>
    BY DEF Submit
<1>2. op \notin SignsIn => token \in Rows
  <2>1. jar[b].token \in Rows \cup {NoToken}
    BY DEF AccountsInv
  <2> QED
    BY <2>1 DEF Submit, Cookie
<1>3. token \in Token \cup {NoToken}
    BY <1>2 DEF Rows
<1> HIDE DEF token
<1>4. op = "login" => typed # NoPassword
    BY Known DEF Submit
<1>5. now \in Time /\ NoPassword \in Password
    BY Known, BoundAssumption DEF Password
<1>6. r \in Request
    BY <1>3, <1>5 DEF Request, Steps
<1>7. /\ r.step = "arrived" /\ r.op = op /\ r.token = token /\ r.typed = typed
      /\ r.revoking = {} /\ r.ending = {} /\ r.todo = {} /\ r.locks = {} /\ ~r.rehash
    OBVIOUS
<1> HIDE DEF r
<1>8. Shape(r)
    BY <1>4, <1>7 DEF Shape
<1>9. KnowsRows(r) /\ KnowsPassword(r)
    BY <1>2, <1>7 DEF KnowsRows, KnowsPassword, Ends, Flushing
<1> QED
    BY <1>1, <1>6, <1>7, <1>8, <1>9, WorkStep

\* Time and releases are nothing to the sessions and requests.
LEMMA SurroundingsStep ==
    ASSUME AccountsInv, now' \in Time, outdated' \in BOOLEAN, faults' \in Nat,
           UNCHANGED <<password, nextPassword, session, jar, req>>
    PROVE  AccountsInv'
<1>1. Typed' /\ LocksApart'
    BY DEF AccountsInv, Typed, LocksApart
<1>2. PasswordsInOrder'
    BY DEF AccountsInv, PasswordsInOrder, Rows, Survives
<1>3. \A b \in Browser : jar'[b].token \in Rows' \cup {NoToken}
    BY DEF AccountsInv, Rows
<1>4. ASSUME NEW w \in Worker
      PROVE  (Shape(req[w]) /\ KnowsRows(req[w]) /\ KnowsPassword(req[w]))'
  <2>1. Shape(req[w]) /\ KnowsRows(req[w]) /\ KnowsPassword(req[w]) /\ req'[w] = req[w]
    BY Known
  <2>2. Shape(req[w])'
    BY <2>1 DEF Shape
  <2>3. KnowsRows(req[w])'
    BY <2>1 DEF KnowsRows, Rows, Survives, Ends, Flushing, About
  <2>4. KnowsPassword(req[w])'
    BY <2>1 DEF KnowsPassword, Flushing
  <2> QED
    BY <2>2, <2>3, <2>4
<1> QED
    BY <1>1, <1>2, <1>3, <1>4 DEF AccountsInv

-----------------------------------------------------------------------------
(* The commit *)

\* What a transaction holds when it commits: a sign-in and a password change
\* the account's row, whoever revokes the rows it revokes.
LEMMA Committing ==
    ASSUME AccountsInv, NEW w \in Worker, Commit(w)
    PROVE  /\ w \in Busy /\ req[w].todo = {}
           /\ req[w].step = "flushing" \/ req[w].op = "write"
           /\ req[w].step = "flushing" => req[w].revoking \subseteq req[w].locks
           /\ req[w].op \in SignsIn \cup {"change"} =>
                req[w].step = "flushing" /\ AccountRow \in req[w].locks
           /\ req[w].rehash => req[w].op = "login"
BY Known DEF Commit, Shape, Flushing

\* The new row of a sign-in is one nobody has been issued.
LEMMA IssuesUnused ==
    ASSUME AccountsInv, RoomLeft, NEW w \in Worker, w \in SigningIn
    PROVE  First(Unused) \in Token /\ First(Unused) \notin Rows
<1>1. IsFiniteSet(Unused) /\ Unused \in SUBSET Nat
    BY RowsAreNumbers, FS_Subset DEF Unused
<1>2. IsFiniteSet(SigningIn)
    BY WorkerAssumption, FS_Subset DEF SigningIn, Busy
<1>3. Cardinality(SigningIn) \in Nat /\ Cardinality(SigningIn) # 0
    BY <1>2, FS_CardinalityType, FS_EmptySet
<1>4. Unused # {}
    BY <1>1, <1>3, FS_EmptySet DEF RoomLeft
<1>5. First(Unused) \in Unused
    BY <1>1, <1>4, FirstIsOne
<1> QED
    BY <1>5 DEF Unused, Rows

\* The password that is chosen is one of those a person may choose.
LEMMA ChoosesLeft ==
    ASSUME AccountsInv, RoomLeft, NEW w \in Worker, w \in Choosers
    PROVE  nextPassword \in 1 .. MaxPassword
<1>1. IsFiniteSet(Choosers)
    BY WorkerAssumption, FS_Subset DEF Choosers, Busy
<1>2. Cardinality(Choosers) \in Nat /\ Cardinality(Choosers) # 0
    BY <1>1, FS_CardinalityType, FS_EmptySet
<1>3. nextPassword \in 1 .. MaxPassword + 1
    BY DEF AccountsInv, Typed
<1> QED
    BY <1>2, <1>3, BoundAssumption DEF RoomLeft

\* The sessions after a commit: those this transaction revoked are, the others
\* stay as they were, and a sign-in has its own.
LEMMA CommitRows ==
    ASSUME AccountsInv, RoomLeft, NEW w \in Worker, Commit(w)
    PROVE  /\ session' \in [Token -> SessionRow]
           /\ \A t \in Rows :
                /\ session'[t].issued /\ session'[t].under = session[t].under
                /\ session'[t].missed = session[t].missed
                /\ session'[t].revoked =
                     (session[t].revoked \/ (t \in req[w].locks /\ t \in req[w].revoking))
           /\ req[w].op \in SignsIn =>
                LET new == session'[First(Unused)] IN
                /\ First(Unused) \in Token \ Rows
                /\ new.issued /\ ~new.revoked /\ new.missed = Missed(w)
                /\ new.under = IF req[w].op = "login" THEN req[w].hash ELSE nextPassword
           /\ \A t \in Token \ Rows :
                (req[w].op \in SignsIn /\ t = First(Unused)) \/ session'[t] = session[t]
<1> DEFINE issued == First(Unused)
           under == IF req[w].op = "login" THEN req[w].hash ELSE nextPassword
           new == [ issued |-> TRUE, expires |-> req[w].at + Lifetime, seen |-> req[w].at,
                    revoked |-> FALSE, used |-> req[w].at, missed |-> Missed(w), under |-> under ]
<1>1. session' = [t \in Token |->
                    IF t \in Rows /\ t \in req[w].locks THEN Written(w, t)
                    ELSE IF req[w].op \in SignsIn /\ t = issued THEN new
                    ELSE session[t]]
    BY DEF Commit
<1>2. /\ req[w] \in Request /\ session \in [Token -> SessionRow] /\ Rows \subseteq Token
    BY Known DEF AccountsInv, Typed, Rows
<1>3. req[w].op \in SignsIn => issued \in Token \ Rows
  <2>1. req[w].op \in SignsIn => w \in SigningIn
    BY Committing DEF SigningIn
  <2> QED
    BY <2>1, IssuesUnused
<1>4. req[w].op \in SignsIn => new \in SessionRow
  <2>1. req[w].op = "register" => under \in Password
    <3>1. req[w].op = "register" => w \in Choosers
      BY Committing DEF Choosers
    <3>2. req[w].op = "register" => nextPassword \in 1 .. MaxPassword
      BY <3>1, ChoosesLeft
    <3> QED
      BY <3>2, BoundAssumption DEF Password
  <2>2. req[w].op = "login" => under \in Password
    BY <1>2 DEF Request
  <2>3. req[w].at \in Time /\ req[w].at + Lifetime \in Nat
    BY <1>2, BoundAssumption, TimeoutAssumption DEF Request, Time
  <2>4. Missed(w) \in BOOLEAN
    BY DEF Missed
  <2> HIDE DEF under
  <2> QED
    BY <2>1, <2>2, <2>3, <2>4 DEF SessionRow
<1>5. ASSUME NEW t \in Rows
      PROVE  LET row == Written(w, t) IN
             /\ row \in SessionRow /\ row.issued = session[t].issued
             /\ row.under = session[t].under /\ row.missed = session[t].missed
             /\ row.revoked = (session[t].revoked \/ t \in req[w].revoking)
  <2>1. session[t] \in SessionRow /\ req[w].at \in Time
    BY <1>2 DEF Request
  <2> DEFINE revoked == session[t].revoked \/ t \in req[w].revoking
             seen == IF req[w].slid /\ t = req[w].token THEN req[w].at ELSE session[t].seen
             used == IF t = req[w].token THEN req[w].at ELSE session[t].used
  <2>2. revoked \in BOOLEAN /\ seen \in Time /\ used \in Time
    BY <2>1 DEF SessionRow
  <2>3. Written(w, t) = [session[t] EXCEPT !.revoked = revoked, !.seen = seen, !.used = used]
    BY <2>1 DEF Written, SessionRow
  <2> HIDE DEF seen, used
  <2> QED
    BY <2>1, <2>2, <2>3 DEF SessionRow
<1>6. \A t \in Rows : session[t].issued
    BY DEF Rows
<1>7. Missed(w) \in BOOLEAN /\ \A t \in Rows : session[t].revoked \in BOOLEAN
    BY <1>2 DEF Missed, SessionRow
<1>8. /\ new.issued /\ ~new.revoked /\ new.missed = Missed(w) /\ new.under = under
    BY <1>7
<1> HIDE DEF new, under, issued
<1>9. session' \in [Token -> SessionRow]
    BY <1>1, <1>2, <1>4, <1>5
<1>10. ASSUME NEW t \in Rows
       PROVE  /\ session'[t].issued /\ session'[t].under = session[t].under
              /\ session'[t].missed = session[t].missed
              /\ session'[t].revoked =
                   (session[t].revoked \/ (t \in req[w].locks /\ t \in req[w].revoking))
  <2>1. CASE t \in req[w].locks
    <3>1. session'[t] = Written(w, t)
      BY <1>1, <1>2, <2>1
    <3> QED
      BY <1>5, <1>6, <2>1, <3>1
  <2>2. CASE t \notin req[w].locks
    <3>1. session'[t] = session[t]
      BY <1>1, <1>2, <1>3, <2>2
    <3> QED
      BY <1>6, <1>7, <2>2, <3>1
  <2> QED
    BY <2>1, <2>2
<1>11. ASSUME req[w].op \in SignsIn
       PROVE  session'[issued] = new
    BY <1>1, <1>3, <1>11
<1>12. \A t \in Token \ Rows :
           (req[w].op \in SignsIn /\ t = issued) \/ session'[t] = session[t]
    BY <1>1
<1> QED
    BY <1>3, <1>8, <1>9, <1>10, <1>11, <1>12 DEF issued, under

\* The sessions that a password change would have to end, after a commit: some
\* of those before it, and the new one of a sign-in that missed nothing.
LEMMA CommitSurvivors ==
    ASSUME AccountsInv, RoomLeft, NEW w \in Worker, Commit(w), NEW t \in Token, Survives(t)'
    PROVE  \/ /\ Survives(t) /\ session'[t].under = session[t].under
              /\ ~(t \in req[w].locks /\ t \in req[w].revoking)
           \/ /\ req[w].op = "login" /\ session'[t].under = req[w].hash /\ req[w].hash = password
              /\ \A v \in Busy \ {w} : req[v].rehash => ~(req[v].hash > password)
              /\ \A v \in Busy \ {w} : ~Flushing(req[v], Sweeps)
           \/ /\ req[w].op = "register" /\ session'[t].under = nextPassword
              /\ \A v \in Busy \ {w} : ~Flushing(req[v], Sweeps)
<1>1. session'[t].issued /\ ~session'[t].revoked /\ ~session'[t].missed
    BY DEF Survives, Rows
<1>2. CASE t \in Rows
  <2>1. Survives(t) /\ session'[t].under = session[t].under
        /\ ~(t \in req[w].locks /\ t \in req[w].revoking)
    BY <1>1, <1>2, CommitRows DEF Survives
  <2> QED
    BY <2>1
<1>3. CASE t \notin Rows
  <2>1. session'[t] # session[t]
    BY <1>1, <1>3 DEF Rows
  <2>2. req[w].op \in SignsIn /\ t = First(Unused)
    BY <1>3, <2>1, CommitRows
  <2>3. /\ session'[t].missed = Missed(w)
        /\ session'[t].under = IF req[w].op = "login" THEN req[w].hash ELSE nextPassword
    BY <2>2, CommitRows
  <2>4. ~Missed(w)
    BY <1>1, <2>3
  <2>5. /\ \A v \in Busy \ {w} : ~(req[v].op \in Sweeps /\ req[v].step = "flushing")
        /\ \A v \in Busy \ {w} : ~(req[v].rehash /\ req[v].hash > password)
        /\ req[w].op = "login" => req[w].hash = password
    BY <2>4 DEF Missed
  <2> QED
    BY <2>2, <2>3, <2>5 DEF Flushing
<1> QED
    BY <1>2, <1>3

\* The password after a commit.
LEMMA CommitPassword ==
    ASSUME AccountsInv, RoomLeft, NEW w \in Worker, Commit(w)
    PROVE  \/ /\ req[w].op \in Choosing /\ AccountRow \in req[w].locks
              /\ nextPassword \in 1 .. MaxPassword
              /\ password' = nextPassword /\ nextPassword' = nextPassword + 1
           \/ /\ req[w].rehash /\ req[w].op = "login" /\ AccountRow \in req[w].locks
              /\ req[w].hash \in 1 .. nextPassword - 1
              /\ password' = req[w].hash /\ nextPassword' = nextPassword
           \/ /\ req[w].op \notin Choosing /\ ~req[w].rehash
              /\ password' = password /\ nextPassword' = nextPassword
<1>1. /\ password' = NewPassword(w)
      /\ nextPassword' = IF req[w].op \in Choosing THEN nextPassword + 1 ELSE nextPassword
    BY DEF Commit
<1>2. CASE req[w].op \in Choosing
  <2>1. w \in Busy /\ req[w].step = "flushing" /\ AccountRow \in req[w].locks
    BY <1>2, Committing
  <2>2. w \in Choosers
    BY <1>2, <2>1 DEF Choosers
  <2>3. nextPassword \in 1 .. MaxPassword
    BY <2>2, ChoosesLeft
  <2>4. password' = nextPassword
    <3>1. ~req[w].rehash
      BY <1>2, Committing
    <3> QED
      BY <1>1, <1>2, <3>1 DEF NewPassword
  <2> QED
    BY <1>1, <1>2, <2>1, <2>3, <2>4
<1>3. CASE req[w].op \notin Choosing /\ req[w].rehash
  <2>1. req[w].op = "login"
    BY <1>3, Committing
  <2>2. req[w].step = "flushing" /\ AccountRow \in req[w].locks
    BY <2>1, Committing
  <2>3. req[w].hash \in 1 .. nextPassword - 1
    BY <2>1, <2>2, Known DEF KnowsPassword, Flushing
  <2>4. password' = req[w].hash
    BY <1>1, <1>3 DEF NewPassword
  <2> QED
    BY <1>1, <1>3, <2>1, <2>2, <2>3, <2>4
<1>4. CASE req[w].op \notin Choosing /\ ~req[w].rehash
  <2>1. password' = password
    BY <1>1, <1>4 DEF NewPassword
  <2> QED
    BY <1>1, <1>4, <2>1
<1> QED
    BY <1>2, <1>3, <1>4

LEMMA CommitStep ==
    ASSUME AccountsInv, RoomLeft, NEW w \in Worker, Commit(w)
    PROVE  AccountsInv'
<1> DEFINE token == IF req[w].op \in SignsIn THEN First(Unused) ELSE req[w].token
           r == [Closed(req[w], "ok") EXCEPT !.token = token]
<1>1. /\ req' = [req EXCEPT ![w] = r] /\ UNCHANGED <<now, jar, faults>>
      /\ outdated' \in BOOLEAN
  <2>1. Closed(req[w], "ok") \in Request /\ Closed(req[w], "ok").token = req[w].token
    BY Known, ClosedRequest
  <2> QED
    BY <2>1 DEF Commit, Request
<1>2. /\ req[w] \in Request /\ Shape(req[w]) /\ KnowsRows(req[w]) /\ KnowsPassword(req[w])
      /\ req \in [Worker -> Request] /\ password \in Nat /\ nextPassword \in Nat
      /\ password < nextPassword
    BY Known DEF AccountsInv, Typed, PasswordsInOrder
<1>3. /\ Rows \subseteq Token /\ Rows \subseteq Rows' /\ Rows' \subseteq Token
      /\ req[w].op \in SignsIn => First(Unused) \in Rows'
    BY CommitRows DEF Rows
<1>4. token \in Rows'
    BY <1>2, <1>3, Committing DEF KnowsRows, Busy
<1> HIDE DEF token
<1>5. /\ r \in Request /\ Shape(r) /\ r.step = "ok" /\ ~r.rehash /\ r.locks = {}
      /\ r.op = req[w].op /\ r.token = token /\ r.ending \subseteq req[w].ending
  <2> DEFINE c == Closed(req[w], "ok")
  <2>1. /\ c \in Request /\ c.step = "ok" /\ ~c.rehash /\ c.todo = {} /\ c.locks = {}
        /\ c.revoking = {} /\ c.op = req[w].op /\ c.ending \subseteq req[w].ending
    BY <1>2, ClosedRequest
  <2> HIDE DEF c
  <2>2. [c EXCEPT !.token = token] \in Request
    BY <1>3, <1>4, <2>1 DEF Request
  <2>3. LET q == [c EXCEPT !.token = token] IN
        /\ q.step = "ok" /\ ~q.rehash /\ q.todo = {} /\ q.locks = {} /\ q.revoking = {}
        /\ q.op = req[w].op /\ q.token = token /\ q.ending \subseteq req[w].ending
    BY <2>1 DEF Request
  <2>4. Shape([c EXCEPT !.token = token])
    BY <2>3 DEF Shape
  <2> QED
    BY <2>2, <2>3, <2>4 DEF c
<1> HIDE DEF r
<1>6. req' \in [Worker -> Request] /\ req'[w] = r /\ \A v \in Worker \ {w} : req'[v] = req[v]
    BY <1>1, <1>2, <1>5
<1>7. Typed'
  <2>1. password' \in Password /\ nextPassword' \in 1 .. MaxPassword + 1
    <3>1. password \in Password /\ nextPassword \in 1 .. MaxPassword + 1 /\ req[w].hash \in Password
      BY <1>2 DEF AccountsInv, Typed, Request
    <3> QED
      BY <3>1, CommitPassword, BoundAssumption DEF Password
  <2> QED
    BY <1>1, <1>6, <2>1, CommitRows DEF AccountsInv, Typed
<1>8. LocksApart'
    BY <1>5, <1>6 DEF AccountsInv, LocksApart
<1>9. \A b \in Browser : jar'[b].token \in Rows' \cup {NoToken}
    BY <1>1, <1>3 DEF AccountsInv
<1>10. PasswordsInOrder'
  <2>1. password' < nextPassword' /\ nextPassword <= nextPassword' /\ password' \in Nat
        /\ nextPassword' \in Nat
    BY <1>2, CommitPassword
  <2>2. ASSUME NEW t \in Rows'
        PROVE  session'[t].under < nextPassword'
    <3>1. CASE t \in Rows
      <4>1. session[t].under < nextPassword /\ session'[t].under = session[t].under
        BY <3>1, CommitRows DEF AccountsInv, PasswordsInOrder
      <4>2. session[t].under \in Nat
        BY <1>3, <3>1, BoundAssumption DEF AccountsInv, Typed, SessionRow, Password
      <4> QED
        BY <1>2, <2>1, <4>1, <4>2
    <3>2. CASE t \notin Rows
      <4>1. session'[t] # session[t]
        BY <1>3, <3>2 DEF Rows
      <4>2. req[w].op \in SignsIn /\ t = First(Unused)
        BY <1>3, <3>2, <4>1, CommitRows
      <4>3. session'[t].under = IF req[w].op = "login" THEN req[w].hash ELSE nextPassword
        BY <4>2, CommitRows
      <4>4. req[w].op = "login" => req[w].hash \in 1 .. nextPassword - 1
        BY <1>2, Committing DEF KnowsPassword, Flushing
      <4>5. req[w].op = "register" => nextPassword' = nextPassword + 1
        BY CommitPassword, Committing
      <4> QED
        BY <1>2, <2>1, <4>2, <4>3, <4>4, <4>5
    <3> QED
      BY <3>1, <3>2
  <2>3. password' = NoPassword => Rows' = {}
    <3> SUFFICES ASSUME password' = NoPassword PROVE Rows' = {}
      OBVIOUS
    <3>1. password = NoPassword /\ req[w].op \notin Choosing
      BY <1>2, CommitPassword
    <3>2. Rows = {}
      BY <3>1 DEF AccountsInv, PasswordsInOrder
    <3>3. req[w].op # "login"
      BY <1>2, <3>1, Committing DEF KnowsPassword, Flushing
    <3>4. \A t \in Token : session'[t] = session[t]
      BY <3>1, <3>2, <3>3, CommitRows
    <3> QED
      BY <1>3, <3>2, <3>4 DEF Rows
  <2>4. ASSUME NEW t \in Token, Survives(t)'
        PROVE  session'[t].under >= password'
    <3>1. Survives(t) => session[t].under >= password
      BY DEF AccountsInv, PasswordsInOrder
    <3>2. CASE req[w].op = "change"
      <4>1. Survives(t) /\ ~(t \in req[w].locks /\ t \in req[w].revoking)
        BY <2>4, <3>2, CommitSurvivors
      <4>2. req[w].step = "flushing" /\ req[w].revoking \subseteq req[w].locks
        BY <3>2, Committing
      <4>3. t \in req[w].revoking
        BY <1>2, <3>2, <4>1, <4>2 DEF KnowsRows, Flushing
      <4> QED
        BY <4>1, <4>2, <4>3
    <3>3. CASE req[w].op = "register"
      <4>1. AccountRow \in req[w].locks /\ password' = nextPassword
        BY <3>3, CommitPassword, Committing
      <4>2. Rows = {}
        BY <1>2, <3>3, <4>1 DEF KnowsPassword, AccountsInv, PasswordsInOrder
      <4>3. session'[t].under = nextPassword
        BY <2>4, <3>3, <4>2, CommitSurvivors DEF Survives
      <4> QED
        BY <1>2, <4>1, <4>3
    <3>4. CASE req[w].op \notin Choosing
      <4>1. CASE Survives(t) /\ session'[t].under = session[t].under
        <5>1. req[w].rehash => session[t].under >= req[w].hash
          BY <1>2, <4>1 DEF KnowsRows
        <5> QED
          BY <3>1, <3>4, <4>1, <5>1, CommitPassword
      <4>2. CASE session'[t].under = req[w].hash /\ req[w].hash = password
        <5>1. password' = password
          BY <3>4, <4>2, CommitPassword
        <5> QED
          BY <1>2, <4>2, <5>1
      <4> QED
        BY <2>4, <3>4, <4>1, <4>2, CommitSurvivors
    <3> QED
      BY <3>2, <3>3, <3>4
  <2> QED
    BY <2>1, <2>2, <2>3, <2>4 DEF PasswordsInOrder
<1>11. ASSUME NEW v \in Worker \ {w}
       PROVE  (KnowsRows(req[v]) /\ KnowsPassword(req[v]))'
  <2>0. PICK q \in Request : q = req[v]
    BY Known
  <2>1. KnowsRows(q) /\ KnowsPassword(q) /\ Shape(q)
    BY <2>0, Known
  <2>2. q.step # "idle" => v \in Busy \ {w}
    BY <2>0 DEF Busy
  <2>3. req'[v] = q
    BY <1>6, <2>0
  <2>4. /\ q.step # "idle" /\ (q.op \notin SignsIn \/ q.step = "ok") =>
             q.token \in Rows /\ q.token \in Rows'
        /\ q.ending \subseteq Rows /\ q.ending \subseteq Rows'
    BY <1>3, <2>1 DEF KnowsRows
  <2>5. Ends(q) /\ q.step \in {"flushing", "ok"} =>
           \A t \in About(q) : session[t].revoked => session'[t].revoked
    <3>1. Ends(q) /\ q.step \in {"flushing", "ok"} => About(q) \subseteq Rows
      BY <2>4 DEF Ends, About
    <3> QED
      BY <3>1, CommitRows
  <2>6. Ends(q) /\ q.step = "flushing" =>
           \A t \in About(q) : session'[t].revoked \/ t \in q.revoking
    BY <2>1, <2>5 DEF KnowsRows
  <2>7. Ends(q) /\ q.step = "ok" => \A t \in About(q) : session'[t].revoked
    BY <2>1, <2>5 DEF KnowsRows
  <2>8. Flushing(q, Sweeps) => \A t \in Token : Survives(t)' => t \in q.revoking
    <3> SUFFICES ASSUME Flushing(q, Sweeps), NEW t \in Token, Survives(t)'
                 PROVE  t \in q.revoking
      OBVIOUS
    <3>1. v \in Busy \ {w}
      BY <2>2 DEF Flushing
    <3>2. Survives(t)
      BY <3>1, <2>0, CommitSurvivors
    <3> QED
      BY <2>1, <3>2 DEF KnowsRows
  <2>9. q.rehash => \A t \in Token : Survives(t)' => session'[t].under >= q.hash
    <3> SUFFICES ASSUME q.rehash, NEW t \in Token, Survives(t)'
                 PROVE  session'[t].under >= q.hash
      OBVIOUS
    <3>1. v \in Busy \ {w} /\ Flushing(q, {"login"})
      BY <2>1, <2>2 DEF Shape, Flushing
    <3>2. q.hash \in 1 .. nextPassword - 1
      BY <2>1, <3>1 DEF KnowsPassword
    <3>3. CASE Survives(t) /\ session'[t].under = session[t].under
      BY <2>1, <3>3 DEF KnowsRows
    <3>4. CASE /\ session'[t].under = password
               /\ \A u \in Busy \ {w} : req[u].rehash => ~(req[u].hash > password)
      <4>1. ~(q.hash > password)
        BY <2>0, <3>1, <3>4
      <4> QED
        BY <1>2, <3>2, <3>4, <4>1
    <3>5. CASE session'[t].under = nextPassword
      BY <1>2, <3>2, <3>5
    <3> QED
      BY <3>3, <3>4, <3>5, CommitSurvivors
  <2>10. KnowsRows(q)'
    BY <2>4, <2>6, <2>7, <2>8, <2>9 DEF KnowsRows, Ends, Flushing, About
  <2>11. KnowsPassword(q)'
    <3>1. Flushing(q, {"login"}) => password' # NoPassword /\ q.hash \in 1 .. nextPassword' - 1
      BY <1>2, <2>1, CommitPassword DEF KnowsPassword
    <3>2. q.op = "register" /\ AccountRow \in q.locks => password' = NoPassword
      <4>1. AccountRow \in q.locks => AccountRow \notin req[w].locks
        BY <2>0, Known
      <4> QED
        BY <2>1, <4>1, CommitPassword DEF KnowsPassword
    <3> QED
      BY <3>1, <3>2 DEF KnowsPassword, Flushing
  <2> QED
    BY <2>3, <2>10, <2>11 DEF KnowsRows, KnowsPassword, Ends, Flushing, About
<1>12. (KnowsRows(req[w]) /\ KnowsPassword(req[w]))'
  <2>0. PICK q \in Request : q = r
    BY <1>5
  <2>1. Ends(q) => \A t \in About(q) : session'[t].revoked
    <3> SUFFICES ASSUME Ends(q), NEW t \in About(q) PROVE session'[t].revoked
      OBVIOUS
    <3>1. /\ Ends(req[w]) /\ req[w].step = "flushing" /\ q.token = req[w].token
          /\ req[w].token \in Rows /\ req[w].revoking \subseteq req[w].locks
      BY <1>2, <1>5, <2>0, Committing DEF Ends, KnowsRows, token
    <3>2. t \in About(req[w]) /\ t \in Rows
      BY <1>2, <1>5, <2>0, <3>1 DEF About, KnowsRows
    <3>3. session[t].revoked \/ t \in req[w].revoking
      BY <1>2, <3>1, <3>2 DEF KnowsRows
    <3> QED
      BY <3>1, <3>2, <3>3, CommitRows
  <2>2. q.ending \subseteq Rows'
    BY <1>2, <1>3, <1>5, <2>0 DEF KnowsRows
  <2>3. KnowsRows(q)' /\ KnowsPassword(q)'
    BY <1>4, <1>5, <2>0, <2>1, <2>2 DEF KnowsRows, KnowsPassword, Ends, Flushing, About
  <2>4. req'[w] = q
    BY <1>6, <2>0
  <2> QED
    BY <2>3, <2>4 DEF KnowsRows, KnowsPassword, Ends, Flushing, About
<1>13. \A v \in Worker : Shape(req[v])'
    BY <1>5, <1>6, Known DEF Shape
<1> QED
    BY <1>7, <1>8, <1>9, <1>10, <1>11, <1>12, <1>13 DEF AccountsInv

-----------------------------------------------------------------------------
(* A session and a password are left *)

\* Those who will take one of something and those that are left, when somebody
\* joins while there is one for each, or takes one and leaves.
LEMMA CountingStep ==
    ASSUME NEW S \in SUBSET Worker, NEW T \in SUBSET Worker, NEW n \in Nat, NEW m \in Nat,
           NEW w \in Worker, Cardinality(S) <= n,
           \/ T \subseteq S /\ m = n
           \/ T \subseteq S \cup {w} /\ Cardinality(S) < n /\ m = n
           \/ w \in S /\ T \subseteq S \ {w} /\ m = n - 1
    PROVE  Cardinality(T) <= m
<1>1. IsFiniteSet(S) /\ IsFiniteSet(T) /\ IsFiniteSet(S \cup {w}) /\ IsFiniteSet(S \ {w})
    BY WorkerAssumption, FS_Subset
<1>2. /\ Cardinality(S) \in Nat /\ Cardinality(T) \in Nat
      /\ Cardinality(S \cup {w}) \in Nat /\ Cardinality(S \ {w}) \in Nat
    BY <1>1, FS_CardinalityType
<1>3. CASE T \subseteq S /\ m = n
  <2>1. Cardinality(T) <= Cardinality(S)
    BY <1>1, <1>3, FS_Subset
  <2> QED
    BY <1>2, <1>3, <2>1
<1>4. CASE T \subseteq S \cup {w} /\ Cardinality(S) < n /\ m = n
  <2>1. Cardinality(T) <= Cardinality(S \cup {w})
    BY <1>1, <1>4, FS_Subset
  <2>2. Cardinality(S \cup {w}) \in {Cardinality(S), Cardinality(S) + 1}
    BY <1>1, FS_AddElement
  <2> QED
    BY <1>2, <1>4, <2>1, <2>2
<1>5. CASE w \in S /\ T \subseteq S \ {w} /\ m = n - 1
  <2>1. Cardinality(T) <= Cardinality(S \ {w})
    BY <1>1, <1>5, FS_Subset
  <2>2. Cardinality(S \ {w}) = Cardinality(S) - 1
    BY <1>1, <1>5, FS_RemoveElement
  <2> QED
    BY <1>2, <1>5, <2>1, <2>2
<1> QED
    BY <1>3, <1>4, <1>5

LEMMA Sizes ==
    ASSUME Typed
    PROVE  /\ IsFiniteSet(Unused) /\ Cardinality(Unused) \in Nat
           /\ IsFiniteSet(Choosers) /\ Cardinality(Choosers) \in Nat
           /\ SigningIn \in SUBSET Worker /\ Choosers \in SUBSET Worker
           /\ nextPassword \in Nat /\ MaxPassword + 1 - nextPassword \in Nat
           /\ nextPassword + Cardinality(Choosers) <= MaxPassword + 1
                <=> Cardinality(Choosers) <= MaxPassword + 1 - nextPassword
<1>1. IsFiniteSet(Unused)
    BY RowsAreNumbers, FS_Subset DEF Unused
<1>2. SigningIn \in SUBSET Worker /\ Choosers \in SUBSET Worker
    BY DEF SigningIn, Choosers, Busy
<1>3. IsFiniteSet(Choosers)
    BY <1>2, WorkerAssumption, FS_Subset
<1>4. Cardinality(Unused) \in Nat /\ Cardinality(Choosers) \in Nat
    BY <1>1, <1>3, FS_CardinalityType
<1>5. nextPassword \in 1 .. MaxPassword + 1
    BY DEF Typed
<1> QED
    BY <1>1, <1>2, <1>3, <1>4, <1>5, BoundAssumption

LEMMA SessionsLeft ==
    ASSUME RoomLeft, Typed, NEW w \in Worker,
           \/ /\ SigningIn' \subseteq SigningIn /\ Unused' = Unused
           \/ /\ SigningIn' \subseteq SigningIn \cup {w} /\ Unused' = Unused
              /\ Cardinality(SigningIn) < Cardinality(Unused)
           \/ /\ w \in SigningIn /\ SigningIn' \subseteq SigningIn \ {w}
              /\ \E t \in Unused : Unused' = Unused \ {t}
    PROVE  Cardinality(SigningIn') <= Cardinality(Unused')
<1>1. /\ SigningIn \in SUBSET Worker /\ SigningIn' \in SUBSET Worker
      /\ Cardinality(Unused) \in Nat /\ Cardinality(SigningIn) <= Cardinality(Unused)
    BY Sizes DEF RoomLeft, SigningIn, Busy
<1>2. CASE \E t \in Unused : Unused' = Unused \ {t}
  <2>1. PICK t \in Unused : Unused' = Unused \ {t}
    BY <1>2
  <2>2. Cardinality(Unused') = Cardinality(Unused) - 1
    BY <2>1, Sizes, FS_RemoveElement
  <2>3. Cardinality(Unused') \in Nat
    BY <2>1, Sizes, FS_RemoveElement, FS_CardinalityType
  <2>4. w \in SigningIn /\ SigningIn' \subseteq SigningIn \ {w}
    BY <2>1
  <2> QED
    BY <1>1, <2>2, <2>3, <2>4, CountingStep
<1>3. CASE Unused' = Unused /\ ~\E t \in Unused : Unused' = Unused \ {t}
  <2>1. \/ SigningIn' \subseteq SigningIn
        \/ /\ SigningIn' \subseteq SigningIn \cup {w}
           /\ Cardinality(SigningIn) < Cardinality(Unused)
    BY <1>3
  <2>2. Cardinality(Unused') = Cardinality(Unused)
    BY <1>3
  <2> QED
    BY <1>1, <2>1, <2>2, CountingStep
<1> QED
    BY <1>2, <1>3

LEMMA PasswordsLeft ==
    ASSUME RoomLeft, Typed, Typed', NEW w \in Worker,
           \/ Choosers' \subseteq Choosers /\ nextPassword' = nextPassword
           \/ /\ Choosers' \subseteq Choosers \cup {w} /\ nextPassword' = nextPassword
              /\ nextPassword + Cardinality(Choosers) <= MaxPassword
           \/ /\ w \in Choosers /\ Choosers' \subseteq Choosers \ {w}
              /\ nextPassword' = nextPassword + 1
    PROVE  nextPassword' + Cardinality(Choosers') <= MaxPassword + 1
<1>1. MaxPassword \in Nat
    BY BoundAssumption
<1>2. nextPassword \in 1 .. MaxPassword + 1 /\ nextPassword' \in 1 .. MaxPassword + 1
    BY DEF Typed
<1>8. \A k \in 1 .. MaxPassword + 1 : MaxPassword + 1 - k \in Nat
    BY <1>1
<1>3. PICK n \in Nat, m \in Nat : n = MaxPassword + 1 - nextPassword /\ m = MaxPassword + 1 - nextPassword'
    BY <1>2, <1>8
<1>4. /\ Choosers \in SUBSET Worker /\ Choosers' \in SUBSET Worker
      /\ Cardinality(Choosers) \in Nat /\ Cardinality(Choosers) <= n
    BY <1>3, Sizes DEF RoomLeft, Choosers, Busy
<1>5. CASE Choosers' \subseteq Choosers /\ nextPassword' = nextPassword
  <2>1. m = n
    BY <1>3, <1>5
  <2>2. Cardinality(Choosers') <= m
    BY <1>4, <1>5, <2>1, CountingStep
  <2> QED
    BY <1>3, <2>2, <1>4, <1>2, <1>1, WorkerAssumption, FS_Subset, FS_CardinalityType
<1>6. CASE /\ Choosers' \subseteq Choosers \cup {w} /\ nextPassword' = nextPassword
           /\ nextPassword + Cardinality(Choosers) <= MaxPassword
  <2>1. m = n /\ Cardinality(Choosers) < n
    BY <1>1, <1>2, <1>3, <1>4, <1>6
  <2>2. Cardinality(Choosers') <= m
    BY <1>4, <1>6, <2>1, CountingStep
  <2> QED
    BY <1>3, <2>2, <1>4, <1>2, <1>1, WorkerAssumption, FS_Subset, FS_CardinalityType
<1>7. CASE /\ w \in Choosers /\ Choosers' \subseteq Choosers \ {w}
           /\ nextPassword' = nextPassword + 1
  <2>1. m = n - 1
    BY <1>1, <1>2, <1>3, <1>7
  <2>2. Cardinality(Choosers') <= m
    BY <1>4, <1>7, <2>1, CountingStep
  <2> QED
    BY <1>3, <2>2, <1>4, <1>2, <1>1, WorkerAssumption, FS_Subset, FS_CardinalityType
<1> QED
    BY <1>5, <1>6, <1>7

\* A step in which nobody joins those that will issue something and nothing is
\* issued.
LEMMA RoomKept ==
    ASSUME RoomLeft, Typed, Typed', NEW w \in Worker, UNCHANGED nextPassword, SameRows,
           \A v \in Worker \ {w} : req'[v] = req[v],
           \/ req'[w].step = "idle"
           \/ /\ req[w].step # "idle" /\ req'[w].op = req[w].op
              /\ req[w].step \in {"ok", "refused"} => req'[w].step = req[w].step
    PROVE  RoomLeft'
<1>1. Unused' = Unused
    BY DEF Unused, SameRows
<1>2. SigningIn' \subseteq SigningIn
    BY DEF SigningIn, Busy
<1>3. Choosers' \subseteq Choosers
    BY DEF Choosers, Busy
<1> QED
    BY <1>1, <1>2, <1>3, SessionsLeft, PasswordsLeft DEF RoomLeft

\* The steps of a request between its submission, its commit and its answer.
LEMMA WorkRoom ==
    ASSUME RoomLeft, AccountsInv, AccountsInv', NEW w \in Worker, Work(w), ~Commit(w)
    PROVE  RoomLeft'
<1>1. req[w] \in Request /\ req \in [Worker -> Request] /\ Typed /\ Typed'
    BY Known DEF AccountsInv, Typed
<1> DEFINE Kept(r) == /\ r.op = req[w].op
                      /\ req[w].step \in {"ok", "refused"} => r.step = req[w].step
<1>2. ASSUME NEW step \in {"ok", "refused"}
      PROVE  Closed(req[w], step).op = req[w].op
    BY <1>1, ClosedRequest
<1>3. ASSUME NEW r, req' = [req EXCEPT ![w] = r], req[w].step # "idle", Kept(r),
             UNCHANGED nextPassword, SameRows
      PROVE  RoomLeft'
    BY <1>1, <1>3, RoomKept
<1>4. CASE Answer(w)
  <2>1. UNCHANGED nextPassword /\ SameRows
    BY <1>4 DEF Answer, SameRows
  <2>2. req'[w].step = "idle" /\ \A v \in Worker \ {w} : req'[v] = req[v]
    BY <1>1, <1>4, Absent DEF Answer
  <2> QED
    BY <1>1, <2>1, <2>2, RoomKept
<1>5. CASE Read(w)
  <2>1. session \in [Token -> SessionRow]
    BY <1>1 DEF Typed
  <2>2. UNCHANGED nextPassword /\ SameRows
    BY <1>5, <2>1 DEF Read, SameRows, SessionRow
  <2> QED
    BY <1>2, <1>3, <1>5, <2>2 DEF Read
<1>6. CASE Register(w) \/ Authenticate(w) \/ Resolve(w) \/ SelectOwn(w) \/ SelectAll(w)
           \/ WriteRow(w) \/ Victim(w)
  <2>1. UNCHANGED nextPassword /\ SameRows
    BY <1>6 DEF Register, Authenticate, Resolve, SelectOwn, SelectAll, WriteRow, Victim, SameRows
  <2>2. CASE Victim(w)
    <3>1. req[w].step \notin {"idle", "ok", "refused"}
      BY <2>2 DEF Victim, Deadlocked, WaitsFor, Waiting, Busy
    <3> QED
      BY <1>2, <1>3, <2>1, <2>2, <3>1 DEF Victim
  <2>3. CASE Register(w)
    <3>1. /\ req[w].step = "arrived"
          /\ \/ req' = [req EXCEPT ![w] = Closed(req[w], "refused")]
             \/ req' = [req EXCEPT ![w] =
                  [req[w] EXCEPT !.step = "flushing", !.todo = {AccountRow}, !.at = now]]
      BY <1>1, <2>3 DEF Register
    <3>2. [req[w] EXCEPT !.step = "flushing", !.todo = {AccountRow}, !.at = now].op = req[w].op
      BY <1>1 DEF Request
    <3> QED
      BY <1>2, <1>3, <2>1, <3>1, <3>2
  <2>4. CASE Authenticate(w)
    <3> DEFINE r == [req[w] EXCEPT !.step = "flushing", !.hash = password, !.rehash = outdated,
                                   !.todo = {AccountRow}, !.at = now]
    <3>1. /\ req[w].step = "arrived"
          /\ \/ req' = [req EXCEPT ![w] = Closed(req[w], "refused")]
             \/ req' = [req EXCEPT ![w] = r]
      BY <1>1, <2>4 DEF Authenticate
    <3>2. r.op = req[w].op
      BY <1>1 DEF Request
    <3> QED
      BY <1>2, <1>3, <2>1, <3>1, <3>2
  <2>5. CASE Resolve(w)
    <3>1. req[w].step = "arrived"
      BY <2>5 DEF Resolve
    <3>2. CASE ~Live(req[w].token)
      BY <1>2, <1>3, <2>1, <2>5, <3>1, <3>2 DEF Resolve
    <3>3. CASE Live(req[w].token)
      <4> DEFINE slides == session[req[w].token].seen < now
                 r == [req[w] EXCEPT !.hash = IF req[w].op = "change" THEN password ELSE @,
                                     !.at = now, !.step = IF slides THEN "sliding" ELSE "resolved",
                                     !.slid = slides, !.todo = IF slides THEN {req[w].token} ELSE {}]
      <4>1. req' = [req EXCEPT ![w] = r]
        BY <2>5, <3>3 DEF Resolve
      <4>2. r.op = req[w].op
        BY <1>1 DEF Request
      <4> QED
        BY <1>3, <2>1, <3>1, <4>1, <4>2
    <3> QED
      BY <3>2, <3>3
  <2>6. CASE SelectOwn(w)
    <3> DEFINE own == {req[w].token} \cap Unrevoked
               r == [req[w] EXCEPT !.step = "flushing", !.revoking = own, !.todo = own,
                                   !.ending = Usable \cap {req[w].token}]
    <3>1. req[w].step = "arrived" /\ req' = [req EXCEPT ![w] = r]
      BY <2>6 DEF SelectOwn
    <3>2. r.op = req[w].op
      BY <1>1 DEF Request
    <3> QED
      BY <1>3, <2>1, <3>1, <3>2
  <2>7. CASE SelectAll(w)
    <3> DEFINE todo == (IF req[w].op = "change" THEN {AccountRow} ELSE {})
                         \cup (Unrevoked \ req[w].locks)
               r == [req[w] EXCEPT !.step = "flushing", !.revoking = Unrevoked, !.ending = Usable,
                                   !.todo = todo]
    <3>1. /\ req[w].step = "resolved"
          /\ \/ req' = [req EXCEPT ![w] = Closed(req[w], "refused")]
             \/ req' = [req EXCEPT ![w] = r]
      BY <1>1, <2>7 DEF SelectAll
    <3>2. r.op = req[w].op
      BY <1>1 DEF Request
    <3> QED
      BY <1>2, <1>3, <2>1, <3>1, <3>2
  <2>8. CASE WriteRow(w)
    <3> DEFINE row == First(req[w].todo)
               step == IF req[w].step = "sliding" THEN "resolved" ELSE req[w].step
               r == [req[w] EXCEPT !.todo = req[w].todo \ {row}, !.locks = req[w].locks \cup {row},
                                   !.step = step]
    <3>1. /\ req[w].step \in {"sliding", "flushing"}
          /\ \/ req' = [req EXCEPT ![w] = Closed(req[w], "refused")]
             \/ req' = [req EXCEPT ![w] = r]
      BY <1>1, <2>8 DEF WriteRow, Waiting, Request
    <3>2. r.op = req[w].op
      BY <1>1 DEF Request
    <3> QED
      BY <1>2, <1>3, <2>1, <3>1, <3>2
  <2> QED
    BY <1>6, <2>2, <2>3, <2>4, <2>5, <2>6, <2>7, <2>8
<1> QED
    BY <1>4, <1>5, <1>6 DEF Work

\* Who submits a form joins only if there is a session and a password for it.
LEMMA SubmitRoom ==
    ASSUME RoomLeft, AccountsInv, AccountsInv', NEW w \in Worker, NEW b \in Browser,
           NEW op \in Ops, NEW typed \in Password, Submit(b, w, op, typed)
    PROVE  RoomLeft'
<1>1. req \in [Worker -> Request] /\ Typed /\ Typed'
    BY DEF AccountsInv, Typed
<1>2. /\ req'[w].op = op /\ \A v \in Worker \ {w} : req'[v] = req[v]
      /\ UNCHANGED <<nextPassword, session>>
    BY <1>1 DEF Submit
<1>3. Unused' = Unused
    BY <1>2 DEF Unused
<1>4. \/ SigningIn' \subseteq SigningIn
      \/ /\ SigningIn' \subseteq SigningIn \cup {w}
         /\ Cardinality(SigningIn) < Cardinality(Unused)
  <2>1. CASE op \in SignsIn
    <3>1. Cardinality(SigningIn) < Cardinality(Unused)
      BY <2>1 DEF Submit
    <3>2. SigningIn' \subseteq SigningIn \cup {w}
      BY <1>2 DEF SigningIn, Busy
    <3> QED
      BY <3>1, <3>2
  <2>2. CASE op \notin SignsIn
    BY <1>2, <2>2 DEF SigningIn, Busy
  <2> QED
    BY <2>1, <2>2
<1>5. \/ Choosers' \subseteq Choosers
      \/ /\ Choosers' \subseteq Choosers \cup {w}
         /\ nextPassword + Cardinality(Choosers) <= MaxPassword
  <2>1. CASE op \in Choosing
    <3> DEFINE all == {v \in Busy : req[v].op \in Choosing}
    <3>1. nextPassword + Cardinality(all) <= MaxPassword
      BY <2>1 DEF Submit
    <3>2. IsFiniteSet(all) /\ Choosers \subseteq all
      BY WorkerAssumption, FS_Subset DEF Choosers, Busy
    <3>3. Cardinality(Choosers) <= Cardinality(all) /\ IsFiniteSet(Choosers)
      BY <3>2, FS_Subset
    <3>4. Cardinality(Choosers) \in Nat /\ Cardinality(all) \in Nat /\ nextPassword \in Nat
      BY <3>2, <3>3, Known, FS_CardinalityType
    <3> HIDE DEF all
    <3>5. nextPassword + Cardinality(Choosers) <= MaxPassword
      BY <3>1, <3>3, <3>4, BoundAssumption
    <3>6. Choosers' \subseteq Choosers \cup {w}
      BY <1>2 DEF Choosers, Busy
    <3> QED
      BY <3>5, <3>6
  <2>2. CASE op \notin Choosing
    BY <1>2, <2>2 DEF Choosers, Busy
  <2> QED
    BY <2>1, <2>2
<1> QED
    BY <1>1, <1>2, <1>3, <1>4, <1>5, SessionsLeft, PasswordsLeft DEF RoomLeft

\* Who commits takes the one that was there for it.
LEMMA CommitRoom ==
    ASSUME RoomLeft, AccountsInv, AccountsInv', NEW w \in Worker, Commit(w)
    PROVE  RoomLeft'
<1>1. req \in [Worker -> Request] /\ req[w] \in Request /\ Typed /\ Typed'
    BY DEF AccountsInv, Typed
<1>2. /\ req'[w].op = req[w].op /\ req'[w].step = "ok"
      /\ \A v \in Worker \ {w} : req'[v] = req[v]
  <2> DEFINE c == Closed(req[w], "ok")
             token == IF req[w].op \in SignsIn THEN First(Unused) ELSE c.token
  <2>1. c \in Request /\ c.op = req[w].op /\ c.step = "ok"
    BY <1>1, ClosedRequest
  <2>2. req' = [req EXCEPT ![w] = [c EXCEPT !.token = token]]
    BY DEF Commit
  <2> HIDE DEF c, token
  <2> QED
    BY <1>1, <2>1, <2>2 DEF Request
<1>3. \/ SigningIn' \subseteq SigningIn /\ Unused' = Unused
      \/ /\ w \in SigningIn /\ SigningIn' \subseteq SigningIn \ {w}
         /\ \E t \in Unused : Unused' = Unused \ {t}
  <2>1. SigningIn' \subseteq SigningIn \ {w}
    BY <1>2 DEF SigningIn, Busy
  <2>2. Unused = Token \ Rows /\ Unused' = Token \ Rows' /\ Rows \subseteq Token
    BY DEF Unused, Rows
  <2>3. CASE req[w].op \in SignsIn
    <3>1. w \in SigningIn
      BY <2>3, Committing DEF SigningIn
    <3>2. /\ First(Unused) \in Token \ Rows /\ session'[First(Unused)].issued
          /\ \A t \in Rows : session'[t].issued
          /\ \A t \in Token \ Rows : t = First(Unused) \/ session'[t] = session[t]
      BY <2>3, CommitRows
    <3>3. Unused' = Unused \ {First(Unused)}
      BY <3>2 DEF Unused, Rows
    <3> QED
      BY <2>1, <2>2, <3>1, <3>2, <3>3
  <2>4. CASE req[w].op \notin SignsIn
    <3>1. /\ \A t \in Rows : session'[t].issued
          /\ \A t \in Token \ Rows : session'[t] = session[t]
      BY <2>4, CommitRows
    <3>2. Unused' = Unused
      BY <3>1 DEF Unused, Rows
    <3> QED
      BY <2>1, <3>2
  <2> QED
    BY <2>3, <2>4
<1>4. \/ Choosers' \subseteq Choosers /\ nextPassword' = nextPassword
      \/ /\ w \in Choosers /\ Choosers' \subseteq Choosers \ {w}
         /\ nextPassword' = nextPassword + 1
  <2>1. Choosers' \subseteq Choosers \ {w}
    BY <1>2 DEF Choosers, Busy
  <2>2. req[w].op \in Choosing => w \in Choosers
    BY Committing DEF Choosers
  <2>3. nextPassword' = IF req[w].op \in Choosing THEN nextPassword + 1 ELSE nextPassword
    BY DEF Commit
  <2> QED
    BY <2>1, <2>2, <2>3
<1> QED
    BY <1>1, <1>3, <1>4, SessionsLeft, PasswordsLeft DEF RoomLeft

-----------------------------------------------------------------------------
(* The accounts *)

\* At the start there is no session, no password and nothing to do.
LEMMA AtFirst ==
    ASSUME Init
    PROVE  AccountsInv /\ RoomLeft
<1>1. /\ password = 0 /\ nextPassword = 1 /\ now = 0 /\ outdated = FALSE /\ faults = 0
      /\ session = [t \in Token |-> NoRow] /\ req = [w \in Worker |-> Idle]
      /\ jar = [b \in Browser |-> [token |-> NoToken, until |-> 0]]
    BY DEF Init
<1>2. NoRow \in SessionRow /\ ~NoRow.issued /\ Idle \in Request /\ Shape(Idle)
    BY Absent DEF NoRow
<1>3. Typed
  <2>1. now \in Time /\ password \in Password /\ nextPassword \in 1 .. MaxPassword + 1
    BY <1>1, BoundAssumption DEF Time, Password
  <2>2. session \in [Token -> SessionRow] /\ req \in [Worker -> Request]
    BY <1>1, <1>2
  <2>3. jar \in [Browser -> [token : Token \cup {NoToken}, until : Nat]]
    BY <1>1
  <2>4. outdated \in BOOLEAN /\ faults \in Nat
    BY <1>1
  <2> QED
    BY <2>1, <2>2, <2>3, <2>4 DEF Typed
<1>4. Rows = {} /\ Unused = Token /\ Busy = {} /\ \A t \in Token : ~Survives(t)
    BY <1>1, <1>2, Absent DEF Rows, Unused, Busy, Survives
<1>5. LocksApart
    BY <1>1 DEF LocksApart, Idle
<1>6. PasswordsInOrder
    BY <1>1, <1>4 DEF PasswordsInOrder
<1>7. KnowsRows(Idle) /\ KnowsPassword(Idle)
    BY DEF KnowsRows, KnowsPassword, Ends, Flushing, Idle
<1>8. \A w \in Worker : Shape(req[w]) /\ KnowsRows(req[w]) /\ KnowsPassword(req[w])
    BY <1>1, <1>2, <1>7
<1>9. RoomLeft
  <2>1. SigningIn = {} /\ Choosers = {}
    BY <1>4 DEF SigningIn, Choosers
  <2>2. Cardinality({}) = 0 /\ Cardinality(Unused) \in Nat
    BY <1>3, Sizes, FS_EmptySet
  <2> QED
    BY <1>1, <2>1, <2>2, BoundAssumption DEF RoomLeft
<1>10. \A b \in Browser : jar[b].token \in Rows \cup {NoToken}
    BY <1>1
<1> QED
    BY <1>3, <1>5, <1>6, <1>8, <1>9, <1>10 DEF AccountsInv

\* Every step of a worker keeps what is known of the sessions, the password and
\* the requests, and leaves a session and a password for who still takes one.
LEMMA WorkKeeps ==
    ASSUME AccountsInv, RoomLeft, NEW w \in Worker, Work(w)
    PROVE  AccountsInv' /\ RoomLeft'
<1>1. AccountsInv'
    BY RegisterStep, AuthenticateStep, ResolveStep, ReadStep, SelectOwnStep, SelectAllStep,
       WriteRowStep, VictimStep, CommitStep, AnswerStep DEF Work
<1> QED
    BY <1>1, WorkRoom, CommitRoom

LEMMA GiveUpRoom ==
    ASSUME AccountsInv, RoomLeft, NEW w \in Worker, GiveUp(w)
    PROVE  AccountsInv' /\ RoomLeft'
<1>1. AccountsInv'
    BY GiveUpStep
<1>2. Typed /\ Typed' /\ req \in [Worker -> Request] /\ req[w] \in Request
    BY <1>1 DEF AccountsInv, Typed
<1>3. /\ w \in Busy /\ UNCHANGED <<nextPassword, session>>
      /\ req' = [req EXCEPT ![w].awaited = FALSE]
    BY DEF GiveUp
<1>4. /\ req'[w].op = req[w].op /\ req'[w].step = req[w].step
      /\ \A v \in Worker \ {w} : req'[v] = req[v]
    BY <1>2, <1>3 DEF Request
<1>5. SameRows
    BY <1>3 DEF SameRows
<1> QED
    BY <1>1, <1>2, <1>3, <1>4, <1>5, RoomKept DEF Busy

\* Nor does anything else.
LEMMA SurroundingsKeep ==
    ASSUME AccountsInv, RoomLeft, Tick \/ Retune \/ UNCHANGED vars
    PROVE  AccountsInv' /\ RoomLeft'
<1>1. UNCHANGED <<password, nextPassword, session, jar, req>>
    BY DEF Tick, Retune, vars
<1>2. now \in Time /\ outdated \in BOOLEAN /\ faults \in Nat
    BY DEF AccountsInv, Typed
<1>3. now' \in Time /\ outdated' \in BOOLEAN /\ faults' \in Nat
  <2>1. CASE Tick
    <3>1. now < MaxTime /\ now' = now + 1 /\ outdated' = outdated /\ faults' = faults
      BY <2>1 DEF Tick
    <3> QED
      BY <1>2, <3>1, BoundAssumption DEF Time
  <2>2. CASE Retune
    <3>1. now' = now /\ outdated' = TRUE /\ faults' = faults + 1
      BY <2>2 DEF Retune
    <3> QED
      BY <1>2, <3>1
  <2>3. CASE UNCHANGED vars
    BY <1>2, <2>3 DEF vars
  <2> QED
    BY <2>1, <2>2, <2>3
<1>4. AccountsInv'
    BY <1>1, <1>3, SurroundingsStep
<1>5. RoomLeft'
    BY <1>1 DEF RoomLeft, SigningIn, Unused, Choosers, Busy
<1> QED
    BY <1>4, <1>5

\* The accounts in every state: what each request holds and knows at its step,
\* and that there is a session and a password left for everyone who may issue
\* one (auth_service.py, api/v1/auth.py).
THEOREM AccountsAsKnown == Spec => [](AccountsInv /\ RoomLeft)
<1>1. Init => AccountsInv /\ RoomLeft
    BY AtFirst
<1>2. AccountsInv /\ RoomLeft /\ [Next]_vars => (AccountsInv /\ RoomLeft)'
  <2> SUFFICES ASSUME AccountsInv, RoomLeft, [Next]_vars
               PROVE  AccountsInv' /\ RoomLeft'
    OBVIOUS
  <2>1. CASE \E b \in Browser, w \in Worker, op \in Ops, typed \in Password : Submit(b, w, op, typed)
    BY <2>1, SubmitStep, SubmitRoom
  <2>2. CASE \E w \in Worker : Work(w)
    BY <2>2, WorkKeeps
  <2>3. CASE \E w \in Worker : GiveUp(w)
    BY <2>3, GiveUpRoom
  <2>4. CASE Tick \/ Retune \/ UNCHANGED vars
    BY <2>4, SurroundingsKeep
  <2> QED
    BY <2>1, <2>2, <2>3, <2>4 DEF Next
<1> QED
    BY <1>1, <1>2, PTL DEF Spec

\* Nobody can use a session after being told that it ended: a sign-out, a sign-out
\* everywhere and a password change answer after their commit, and by then the
\* session they came with, and for a sweep every session that was usable when it
\* looked, is revoked (auth_service.py:316, api/v1/auth.py:216, 259).
THEOREM EndsAreAnsweredAfterwards == Spec => []EndedBeforeAnswered
<1>1. AccountsInv /\ RoomLeft => EndedBeforeAnswered
  <2> SUFFICES ASSUME AccountsInv, NEW w \in Busy, req[w].step = "ok", Ends(req[w]),
                      NEW t \in About(req[w])
               PROVE  ~Live(t)
    BY DEF EndedBeforeAnswered, Ends, About
  <2>1. w \in Worker
    BY DEF Busy
  <2>2. session[t].revoked
    BY <2>1, Known DEF KnowsRows
  <2> QED
    BY <2>2 DEF Live
<1> QED
    BY <1>1, AccountsAsKnown, PTL

\* A session opened under an older password than the stored one has been ended,
\* unless its sign-in ran beside the change (or beside a rehash of the older
\* password) and says so.
THEOREM ChangesEndOlderSessions == Spec => []OnlyRacersSurviveAChange
<1>1. AccountsInv /\ RoomLeft => OnlyRacersSurviveAChange
  <2> SUFFICES ASSUME AccountsInv, NEW t \in Rows, ~session[t].revoked,
                      session[t].under < password
               PROVE  session[t].missed
    BY DEF OnlyRacersSurviveAChange
  <2>1. t \in Token /\ session[t] \in SessionRow /\ password \in Nat
    BY BoundAssumption DEF AccountsInv, Typed, Rows, Password
  <2>2. session[t].under \in Nat
    BY <2>1, BoundAssumption DEF SessionRow, Password
  <2>3. Survives(t) => session[t].under >= password
    BY <2>1 DEF AccountsInv, PasswordsInOrder
  <2> QED
    BY <2>1, <2>2, <2>3 DEF Survives
<1> QED
    BY <1>1, AccountsAsKnown, PTL

\* Only sweeps have written a row while they wait for another, so every
\* transaction the database may fail to break a cycle is one.
THEOREM DeadlocksAreOfSweeps == Spec => []OnlySweepsDeadlock
<1>1. AccountsInv /\ RoomLeft => OnlySweepsDeadlock
  <2> SUFFICES ASSUME AccountsInv, NEW S \in SUBSET Worker, Deadlocked(S), NEW w \in S
               PROVE  req[w].op \in Sweeps
    BY DEF OnlySweepsDeadlock
  <2>1. (\E v \in S : WaitsFor(w, v)) /\ \E v \in S : WaitsFor(v, w)
    BY DEF Deadlocked
  <2>2. req[w].todo # {} /\ req[w].step \in {"sliding", "flushing"} /\ req[w].locks # {}
    BY <2>1 DEF WaitsFor, Waiting
  <2>3. Shape(req[w])
    BY Known
  <2> QED
    BY <2>2, <2>3 DEF Shape
<1> QED
    BY <1>1, AccountsAsKnown, PTL

\* The stored password is replaced by an older one only in the commit of a
\* sign-in that verified the older one and read old parameters with it.
THEOREM OnlyRehashesGoBack == Spec => PasswordGoesBackOnlyByRehash
<1>1. AccountsInv /\ RoomLeft /\ [Next]_vars
        => [password' < password => \E w \in Busy : req[w].rehash]_vars
  <2> SUFFICES ASSUME AccountsInv, RoomLeft, Next, password' < password
               PROVE  \E w \in Busy : req[w].rehash
    OBVIOUS
  <2>1. password \in Nat /\ nextPassword \in Nat /\ password < nextPassword
    BY BoundAssumption DEF AccountsInv, Typed, Password, PasswordsInOrder
  <2>2. password' # password
    BY <2>1
  <2>3. PICK w \in Worker : Commit(w)
    <3>1. \A w \in Worker : Work(w) /\ ~Commit(w) => UNCHANGED password
      BY DEF Work, Register, Authenticate, Resolve, Read, SelectOwn, SelectAll, WriteRow,
             Victim, Answer
    <3>2. \A b \in Browser, w \in Worker, op \in Ops, typed \in Password :
            Submit(b, w, op, typed) => UNCHANGED password
      BY DEF Submit
    <3>3. (\A w \in Worker : GiveUp(w) => UNCHANGED password) /\ (Tick \/ Retune => UNCHANGED password)
      BY DEF GiveUp, Tick, Retune
    <3> QED
      BY <2>2, <3>1, <3>2, <3>3 DEF Next
  <2>4. w \in Busy
    BY <2>3, Committing
  <2>5. \/ password' = nextPassword
        \/ req[w].rehash
        \/ password' = password
    BY <2>3, CommitPassword
  <2> QED
    BY <2>1, <2>2, <2>4, <2>5
<1> QED
    BY <1>1, AccountsAsKnown, PTL DEF Spec, PasswordGoesBackOnlyByRehash

=============================================================================
