------------------------------ MODULE Accounts ------------------------------
(***************************************************************************)
(* One account, its sessions, and the browsers that hold their tokens.     *)
(*                                                                         *)
(* A browser's form runs a server action on the Next.js side               *)
(* (actions/auth.ts), which relays the cookie to FastAPI.  A worker of     *)
(* FastAPI answers with one database transaction at READ COMMITTED: it     *)
(* resolves the session, writes rows one UPDATE at a time, commits, or     *)
(* closes the transaction and so rolls it back (auth_service.py,           *)
(* api/v1/auth.py, core/database.py).  A row written and not committed is  *)
(* locked against the other transactions.                                  *)
(*                                                                         *)
(* Abstractions: every query filters by the token or the user, so one      *)
(* account is enough; a password is the version number of what the person  *)
(* chose; a tick of the clock is longer than the minute below which        *)
(* resolve_session does not slide; "write" is any authenticated request    *)
(* that commits, as the shortlist endpoints do.                            *)
(***************************************************************************)
EXTENDS Naturals, FiniteSets

CONSTANTS
    Browser,       \* browsers, each with its own cookies
    NoBrowser,     \* nobody, for a worker with nothing to do
    Worker,        \* requests FastAPI can be answering at once
    MaxToken,      \* bound: sessions ever issued
    MaxPassword,   \* bound: passwords ever chosen
    MaxTime,       \* bound: the clock
    Lifetime,      \* SESSION_LIFETIME, in ticks
    IdleTimeout,   \* SESSION_IDLE_TIMEOUT, in ticks
    MaxFaults      \* bound: calls Next.js gave up on

ASSUME WorkerAssumption == IsFiniteSet(Worker)
ASSUME BoundAssumption ==
    /\ MaxToken \in Nat /\ MaxPassword \in Nat \ {0}
    /\ MaxTime \in Nat /\ MaxFaults \in Nat
ASSUME TimeoutAssumption ==
    Lifetime \in Nat /\ IdleTimeout \in Nat /\ IdleTimeout < Lifetime

VARIABLES
    now,           \* the clock
    password,      \* version of the stored hash; NoPassword before registration
    nextPassword,  \* the next version a person chooses
    outdated,      \* the stored hash has old Argon2 parameters
    session,       \* user_session, by session_id
    jar,           \* each browser's session cookie
    req,           \* what each worker is doing
    faults

vars == <<now, password, nextPassword, outdated, session, jar, req, faults>>

Token == 1 .. MaxToken
NoToken == 0
NoPassword == 0
AccountRow == 0                   \* the user_account row, locked like the others
Row == {AccountRow} \cup Token
Time == 0 .. MaxTime
Password == NoPassword .. MaxPassword

SessionRow ==
    [ issued  : BOOLEAN,   \* there is such a row
      expires : Nat, seen : Time, revoked : BOOLEAN,
      used    : Time,      \* history: the last request this session was good for
      under   : Password,  \* history: the password its sign-in verified
      missed  : BOOLEAN ]  \* history: issued where a password change could not see it

NoRow ==
    [ issued |-> FALSE, expires |-> 0, seen |-> 0, revoked |-> FALSE,
      used |-> 0, under |-> NoPassword, missed |-> FALSE ]

Ops == {"register", "login", "me", "write", "logout", "everywhere", "change"}
SignsIn == {"register", "login"}
SignsOut == {"logout", "everywhere"}
Sweeps == {"everywhere", "change"}
Choosing == {"register", "change"}
Steps == {"idle", "arrived", "sliding", "resolved", "flushing", "ok", "refused"}

Request ==
    [ op       : Ops,
      browser  : Browser \cup {NoBrowser},
      awaited  : BOOLEAN,        \* Next.js has not given up on the answer
      token    : Token \cup {NoToken},   \* the cookie it came with; the one it issued
      typed    : Password,       \* the password in the form
      hash     : Password,       \* the hash this transaction read
      at       : Time,
      step     : Steps,
      slid     : BOOLEAN,        \* it wrote last_seen_at
      rehash   : BOOLEAN,        \* the hash it read is to be replaced by a newer one
      revoking : SUBSET Token,   \* rows it selected to revoke
      ending   : SUBSET Token,   \* history: the live sessions it was asked to end
      todo     : SUBSET Row,     \* rows its flush has still to write
      locks    : SUBSET Row ]    \* rows it has written and not committed

Idle ==
    [ op |-> "me", browser |-> NoBrowser, awaited |-> FALSE, token |-> NoToken,
      typed |-> NoPassword, hash |-> NoPassword, at |-> 0, step |-> "idle",
      slid |-> FALSE, rehash |-> FALSE, revoking |-> {}, ending |-> {},
      todo |-> {}, locks |-> {} ]

-----------------------------------------------------------------------------
(* Data *)

Unused == {t \in Token : ~session[t].issued}
Rows == {t \in Token : session[t].issued}
Busy == {w \in Worker : req[w].step # "idle"}
SigningIn == {w \in Busy : req[w].op \in SignsIn /\ req[w].step # "ok"}

\* resolve_session would accept the token of this row.
Live(t) ==
    /\ t \in Rows
    /\ ~session[t].revoked
    /\ now < session[t].expires
    /\ now <= session[t].seen + IdleTimeout

Usable == {t \in Token : Live(t)}

\* The cookie the browser sends; an expired one is not sent.
Cookie(b) == IF now < jar[b].until THEN jar[b].token ELSE NoToken

\* Mutants of Unrevoked: a sweep takes only the sessions that are not idle, or
\* all but the newest.
RecentlySeen == {t \in Rows : ~session[t].revoked /\ now <= session[t].seen}
NotNewest == {t \in Rows : ~session[t].revoked /\ \E s \in Rows : s > t}

\* Selected by revoke_all_sessions.
Unrevoked == {t \in Rows : ~session[t].revoked}

First(S) == CHOOSE r \in S : \A s \in S : r <= s
Locked(w, r) == \E v \in Busy \ {w} : r \in req[v].locks

Waiting(w) == w \in Busy /\ req[w].todo # {} /\ req[w].step \in {"sliding", "flushing"}
\* w waits for a row that v has written.
WaitsFor(w, v) == Waiting(w) /\ v \in Busy \ {w} /\ First(req[w].todo) \in req[v].locks
\* Every one of S waits for another of S, and one of S for it.
Deadlocked(S) ==
    S # {} /\ \A w \in S : (\E v \in S : WaitsFor(w, v)) /\ \E v \in S : WaitsFor(v, w)

Init ==
    /\ now = 0
    /\ password = NoPassword
    /\ nextPassword = 1
    /\ outdated = FALSE
    /\ session = [t \in Token |-> NoRow]
    /\ jar = [b \in Browser |-> [token |-> NoToken, until |-> 0]]
    /\ req = [w \in Worker |-> Idle]
    /\ faults = 0

-----------------------------------------------------------------------------
(* The browser and Next.js *)

\* A form is submitted.  Only sign-in and registration go without a cookie.
\* A tick is long: nothing is submitted twice by one browser at once.
Submit(b, w, op, typed) ==
    /\ req[w] = Idle
    /\ \A v \in Busy : ~(req[v].browser = b /\ req[v].awaited)
    /\ op \in SignsIn => Cardinality(SigningIn) < Cardinality(Unused)
    /\ op \notin SignsIn => Cookie(b) # NoToken
    /\ op \in {"login", "change"} => typed \in 1 .. nextPassword - 1
    /\ op \in Choosing => nextPassword + Cardinality({v \in Busy : req[v].op \in Choosing}) <= MaxPassword
    /\ op \notin {"login", "change"} => typed = NoPassword
    /\ req' = [req EXCEPT ![w] =
         [ op |-> op, browser |-> b, awaited |-> TRUE,
           token |-> IF op \in SignsIn THEN NoToken ELSE Cookie(b),
           typed |-> typed, hash |-> NoPassword, at |-> now, step |-> "arrived",
           slid |-> FALSE, rehash |-> FALSE, revoking |-> {}, ending |-> {},
           todo |-> {}, locks |-> {} ]]
    /\ UNCHANGED <<now, password, nextPassword, outdated, session, jar, faults>>

\* clearSession.
Cleared(b) == [jar EXCEPT ![b] = [token |-> NoToken, until |-> 0]]

\* What the server action does with a failure: signing out clears the cookie
\* whatever happened to the call, everything else leaves it.
OnFailure(b, op) == IF op \in SignsOut THEN Cleared(b) ELSE jar

\* What it does with an answer of success.
OnSuccess(b, op, token) ==
    CASE op \in SignsIn -> [jar EXCEPT ![b] = [token |-> token, until |-> now + Lifetime]]
      [] op \in SignsOut \cup {"change"} -> Cleared(b)
      [] OTHER -> jar

\* AbortSignal.timeout: the call is given up while the worker goes on with it.
GiveUp(w) ==
    /\ w \in Busy /\ req[w].awaited
    /\ faults < MaxFaults
    /\ faults' = faults + 1
    /\ req' = [req EXCEPT ![w].awaited = FALSE]
    /\ jar' = OnFailure(req[w].browser, req[w].op)
    /\ UNCHANGED <<now, password, nextPassword, outdated, session>>

\* The worker's answer reaches Next.js, or nobody.
Answer(w) ==
    /\ w \in Busy /\ req[w].step \in {"ok", "refused"}
    /\ req' = [req EXCEPT ![w] = Idle]
    /\ jar' = CASE ~req[w].awaited -> jar
                [] req[w].step = "ok" -> OnSuccess(req[w].browser, req[w].op, req[w].token)
                [] OTHER -> OnFailure(req[w].browser, req[w].op)
    /\ UNCHANGED <<now, password, nextPassword, outdated, session, faults>>

-----------------------------------------------------------------------------
(* The worker's transaction *)

\* The transaction is over: its locks go, and what it wrote without a commit.
Closed(r, step) ==
    [r EXCEPT !.step = step, !.typed = NoPassword, !.hash = NoPassword, !.slid = FALSE,
              !.rehash = FALSE, !.revoking = {}, !.todo = {}, !.locks = {},
              !.ending = IF step = "ok" THEN @ ELSE {}]

\* register_user: the address must be free; the insert is flushed.
Register(w) ==
    /\ w \in Busy /\ req[w].op = "register" /\ req[w].step = "arrived"
    /\ req' = [req EXCEPT ![w] =
         IF password # NoPassword THEN Closed(@, "refused")
         ELSE [@ EXCEPT !.step = "flushing", !.todo = {AccountRow}, !.at = now]]
    /\ UNCHANGED <<now, password, nextPassword, outdated, session, jar, faults>>

\* authenticate: the hash read is verified; last_login_at (and, when the
\* parameters are old, the hash) is written on the account's row.
Authenticate(w) ==
    /\ w \in Busy /\ req[w].op = "login" /\ req[w].step = "arrived"
    /\ req' = [req EXCEPT ![w] =
         IF req[w].typed # password THEN Closed(@, "refused")
         ELSE [@ EXCEPT !.step = "flushing", !.hash = password, !.rehash = outdated,
                        !.todo = {AccountRow}, !.at = now]]
    /\ UNCHANGED <<now, password, nextPassword, outdated, session, jar, faults>>

\* resolve_session and session.get of the account, for the routes that ask for
\* the current user.  A session good for this request slides.
Resolve(w) ==
    /\ w \in Busy /\ req[w].op \in {"me", "write", "everywhere", "change"}
    /\ req[w].step = "arrived"
    /\ LET t == req[w].token
           slides == session[t].seen < now
       IN req' = [req EXCEPT ![w] =
            IF ~Live(t) THEN Closed(@, "refused")
            ELSE [req[w] EXCEPT !.hash = IF req[w].op = "change" THEN password ELSE @, !.at = now,
                                !.step = IF slides THEN "sliding" ELSE "resolved",
                                !.slid = slides,
                                !.todo = IF slides THEN {t} ELSE {}]]
    /\ UNCHANGED <<now, password, nextPassword, outdated, session, jar, faults>>

\* A route that only reads: get_db closes the session, nothing is committed.
Read(w) ==
    /\ w \in Busy /\ req[w].op = "me" /\ req[w].step = "resolved"
    /\ req' = [req EXCEPT ![w] = Closed(@, "ok")]
    /\ session' = [session EXCEPT ![req[w].token].used = req[w].at]
    /\ UNCHANGED <<now, password, nextPassword, outdated, jar, faults>>

\* Mutant of SelectOwn: signing out selects every session.
SelectOwnAndOthers(w) ==
    /\ w \in Busy /\ req[w].op = "logout" /\ req[w].step = "arrived"
    /\ req' = [req EXCEPT ![w] =
         [@ EXCEPT !.step = "flushing", !.revoking = Unrevoked, !.todo = Unrevoked,
                   !.ending = Usable \cap {req[w].token}]]
    /\ UNCHANGED <<now, password, nextPassword, outdated, session, jar, faults>>

\* revoke_session: the row is looked up by its token; signing out always
\* succeeds.
SelectOwn(w) ==
    /\ w \in Busy /\ req[w].op = "logout" /\ req[w].step = "arrived"
    /\ LET own == {req[w].token} \cap Unrevoked IN
       req' = [req EXCEPT ![w] =
                 [@ EXCEPT !.step = "flushing", !.revoking = own, !.todo = own,
                           !.ending = Usable \cap {req[w].token}]]
    /\ UNCHANGED <<now, password, nextPassword, outdated, session, jar, faults>>

\* revoke_all_sessions, from /logout-everywhere or from change_password once
\* the current password is verified against the hash this transaction read.
SelectAll(w) ==
    /\ w \in Busy /\ req[w].op \in Sweeps /\ req[w].step = "resolved"
    /\ req' = [req EXCEPT ![w] =
         IF req[w].op = "change" /\ req[w].typed # req[w].hash
         THEN Closed(@, "refused")
         ELSE [@ EXCEPT !.step = "flushing", !.revoking = Unrevoked, !.ending = Usable,
                        !.todo = (IF req[w].op = "change" THEN {AccountRow} ELSE {})
                                   \cup (Unrevoked \ req[w].locks)]]
    /\ UNCHANGED <<now, password, nextPassword, outdated, session, jar, faults>>

\* The next UPDATE of a flush: rows are written in the order of their keys,
\* each waiting for the transaction that has it.
WriteRow(w) ==
    /\ Waiting(w)
    /\ LET r == First(req[w].todo) IN
       /\ ~Locked(w, r)
       /\ req' = [req EXCEPT ![w] =
            IF req[w].op = "register" /\ password # NoPassword   \* uq_user_account_email
            THEN Closed(@, "refused")
            ELSE [req[w] EXCEPT !.todo = @ \ {r}, !.locks = @ \cup {r},
                                !.step = IF req[w].step = "sliding" THEN "resolved" ELSE @]]
    /\ UNCHANGED <<now, password, nextPassword, outdated, session, jar, faults>>

\* The database breaks a cycle of waiting transactions by failing one.
Victim(w) ==
    /\ \E S \in SUBSET Worker : w \in S /\ Deadlocked(S)
    /\ req' = [req EXCEPT ![w] = Closed(@, "refused")]
    /\ UNCHANGED <<now, password, nextPassword, outdated, session, jar, faults>>

\* A committed row, as this transaction leaves it.
Written(w, t) ==
    [ session[t] EXCEPT
        !.revoked = @ \/ t \in req[w].revoking,
        !.seen = IF req[w].slid /\ t = req[w].token THEN req[w].at ELSE @,
        !.used = IF t = req[w].token THEN req[w].at ELSE @ ]

\* A sign-in that a sweep already past its SELECT cannot see, or that verified
\* a password no longer stored, or that runs beside another one about to put a
\* newer password back in the place of an older.
Missed(w) ==
    \/ req[w].hash # password /\ req[w].op = "login"
    \/ \E v \in Busy \ {w} : req[v].op \in Sweeps /\ req[v].step = "flushing"
    \/ \E v \in Busy \ {w} : req[v].rehash /\ req[v].hash > password

\* Mutant of NewPassword: every sign-in stores the hash it verified.
SignInStoresHash(w) ==
    CASE req[w].op \in Choosing -> nextPassword
      [] req[w].op = "login" -> req[w].hash
      [] OTHER -> password

\* The hash on the account's row afterwards.
NewPassword(w) ==
    CASE req[w].op \in Choosing -> nextPassword
      [] req[w].rehash -> req[w].hash
      [] OTHER -> password

\* db.commit(): the new session, the revocations, the slide and the password
\* become visible together.
Commit(w) ==
    /\ w \in Busy
    /\ \/ req[w].step = "flushing"
       \/ req[w].step = "resolved" /\ req[w].op = "write"
    /\ req[w].todo = {}
    /\ LET issued == First(Unused)
           new == [ issued |-> TRUE, expires |-> req[w].at + Lifetime, seen |-> req[w].at, revoked |-> FALSE,
                    used |-> req[w].at, missed |-> Missed(w),
                    under |-> IF req[w].op = "login" THEN req[w].hash ELSE nextPassword ]
       IN /\ session' = [t \in Token |->
                IF t \in Rows /\ t \in req[w].locks THEN Written(w, t)
                ELSE IF req[w].op \in SignsIn /\ t = issued THEN new
                ELSE session[t]]
          /\ req' = [req EXCEPT ![w] =
                [Closed(req[w], "ok") EXCEPT !.token = IF req[w].op \in SignsIn THEN issued ELSE @]]
    /\ password' = NewPassword(w)
    /\ nextPassword' = IF req[w].op \in Choosing THEN nextPassword + 1 ELSE nextPassword
    /\ outdated' = (outdated /\ ~req[w].rehash /\ req[w].op # "change")
    /\ UNCHANGED <<now, jar, faults>>

-----------------------------------------------------------------------------
(* The surroundings *)

\* Time passes.  No request lasts two ticks.
Tick ==
    /\ now < MaxTime
    /\ \A w \in Busy : req[w].at = now
    /\ now' = now + 1
    /\ UNCHANGED <<password, nextPassword, outdated, session, jar, req, faults>>

\* A release with other Argon2 parameters.
Retune ==
    /\ password # NoPassword /\ ~outdated
    /\ faults < MaxFaults
    /\ faults' = faults + 1
    /\ outdated' = TRUE
    /\ UNCHANGED <<now, password, nextPassword, session, jar, req>>

Work(w) ==
    \/ Register(w) \/ Authenticate(w) \/ Resolve(w) \/ Read(w)
    \/ SelectOwn(w) \/ SelectAll(w) \/ WriteRow(w) \/ Victim(w) \/ Commit(w)
    \/ Answer(w)

Next ==
    \/ \E b \in Browser, w \in Worker, op \in Ops, typed \in Password : Submit(b, w, op, typed)
    \/ \E w \in Worker : Work(w)
    \/ \E w \in Worker : GiveUp(w)
    \/ Tick \/ Retune

Spec == Init /\ [][Next]_vars

-----------------------------------------------------------------------------
(* What is checked *)

\* When the answer to "end it" says it succeeded, every session it was about has
\* ended: the cookie's own, and for the two that sweep (auth_service.py:316),
\* every one that was usable when it looked, in whatever order the requests
\* beside it slid, revoked or failed on the same rows.
EndedBeforeAnswered ==
    \A w \in Busy :
        (req[w].step = "ok" /\ req[w].op \in SignsOut \cup {"change"})
            => \A t \in {req[w].token} \cup req[w].ending : ~Live(t)

\* A password change ends every session opened under an older password
\* (auth_service.py:242), except those of sign-ins that were running beside it.
OnlyRacersSurviveAChange ==
    \A t \in Rows : ~session[t].revoked /\ session[t].under < password => session[t].missed

\* The stored password changes to an older one only when a sign-in replaces the
\* hash it verified (auth_service.py:226), never by two changes that overlap.
PasswordGoesBackOnlyByRehash ==
    [][password' < password => \E w \in Busy : req[w].rehash]_vars

\* Rows are written in key order except the session's own, which its slide has
\* written first: two sweeps can wait for each other, and nothing else can be
\* in a cycle, so a sign-in, a sign-out or a save is never failed by one.
OnlySweepsDeadlock ==
    \A S \in SUBSET Worker : Deadlocked(S) => \A w \in S : req[w].op \in Sweeps

=============================================================================
