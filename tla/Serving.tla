------------------------------ MODULE Serving -------------------------------
(***************************************************************************)
(* How a promoted dataset reaches a reader.                                *)
(*                                                                         *)
(* A FastAPI process keeps one analytical view in memory, the result of    *)
(* get_analytics_view under lru_cache(maxsize=1) (analytics_service.py).   *)
(* Its endpoints run in a thread pool, and nothing locks the cache while   *)
(* build_view reads the database: two scalar queries for the fingerprint,  *)
(* then one query a table (analytics_repository.py), each at READ          *)
(* COMMITTED, while a promotion may swap the schemas in between.  After a  *)
(* promotion the pipeline posts to reload-analytics (internal.py), then    *)
(* to the site's revalidate route; a page of the site is kept an hour and  *)
(* an expired one is still served while it is fetched again.  /health      *)
(* compares the fingerprints (health.py).                                  *)
(*                                                                         *)
(* Abstractions: a dataset is the number of its promotion and all of them  *)
(* have as many player-seasons, so a row count never tells two of them     *)
(* apart; the check times of fact_data_quality are ordered by a clock of   *)
(* checks; one page stands for all.                                        *)
(***************************************************************************)
EXTENDS Naturals, FiniteSets, Sequences

CONSTANTS
    Thread,        \* requests the API can be answering at once
    MaxDataset,    \* bound: promotions
    MaxCheck,      \* bound: times at which checks were written
    Faults,        \* subset of {"restart", "kill", "timeout", "report", "rollback"}
    MaxFaults      \* bound: faults

ASSUME ThreadAssumption == IsFiniteSet(Thread)
ASSUME BoundAssumption ==
    /\ MaxDataset \in Nat /\ MaxCheck \in Nat
    /\ MaxFaults \in Nat
ASSUME FaultsAssumption ==
    Faults \subseteq {"restart", "kill", "timeout", "report", "rollback"}

VARIABLES
    serving,   \* the dataset in the serving schema; 0 is an empty one
    staged,    \* the dataset in the other schema
    loads,     \* datasets ever loaded
    ledger,    \* fact_source_publication: what each publication's refresh was, and
               \* the time of its checks
    reports,   \* times of checks written by hand about the served data
    clock,     \* the last time checks were written
    cache,     \* what lru_cache holds
    thread,    \* what each thread is doing
    run,       \* the pipeline's publishing step
    page,      \* the page the site keeps
    told,      \* history: the dataset served since the pipeline saw a reload answered
    restored,  \* history: a rollback was made
    faults

database == <<serving, staged, loads, ledger, reports, clock, restored>>
vars == <<database, cache, thread, run, page, told, faults>>

Dataset == 0 .. MaxDataset
Empty == 0
Time == 0 .. MaxCheck

\* The queries of build_view's session, in order: fingerprint, then load_universe,
\* whose competitions, clubs and seasons are taken as one.
Queries == << "seasons stored", "last check", "names", "players", "bridges", "facts" >>

\* A view, and what history keeps of how it was built.
View == [ count    : {0, 1},            \* fingerprint.player_seasons
          check    : Time,              \* fingerprint.last_served_check_at; 0 is none
          checked  : Dataset,           \* history: served when last_served_check_at was read
          from     : SUBSET Dataset,    \* the datasets its tables were read from
          survivor : BOOLEAN ]          \* it was being built when a reload cleared the cache

NoView == [ count |-> 0, check |-> 0, checked |-> Empty, from |-> {}, survivor |-> FALSE ]

Ops == {"page", "reload", "other"}
\* "get": about to call get_analytics_view a second time.
Steps == {"idle", "get", "building", "got"}

Request == [ op    : Ops,
             step  : Steps,
             leg   : {1, 2},            \* which call of get_analytics_view
             done  : 0 .. Len(Queries), \* queries of build_view answered
             view  : View,
             awaited : BOOLEAN ]        \* the pipeline waits for this reload's answer

Idle == [ op |-> "page", step |-> "idle", leg |-> 1, done |-> 0,
          view |-> NoView, awaited |-> FALSE ]

-----------------------------------------------------------------------------
(* Data *)

CountOf(d) == IF d = Empty THEN 0 ELSE 1

Latest(times) ==
    IF times = {} THEN 0 ELSE CHOOSE t \in times : \A u \in times : u <= t

ChecksPublished == {ledger[i].check : i \in DOMAIN ledger}

\* fact_data_quality rows whose context is not CANDIDATE: those of the
\* publications in the ledger, and those a person wrote.
ServedChecks == ChecksPublished \cup reports

LastServedCheck == Latest(ServedChecks)

\* Is the view's fingerprint the database's?
SameFingerprint(v) == v.count = CountOf(serving) /\ v.check = LastServedCheck

\* The view holds the served data and nothing else.
Current(v) == v.from = {serving}

\* A report written by hand is newer than the checks of the last publication, so
\* the next one may not move the last check.
Masked == \E r \in reports : r >= Latest(ChecksPublished)

\* What the ledger says is served.
LastPublished == IF ledger = << >> THEN Empty ELSE ledger[Len(ledger)].dataset

\* A rollback found something else in staging than what had been served before.
Strayed == serving # LastPublished

\* The checks of what was last loaded, a candidate's until it is promoted.
LastLoaded == Latest(1 .. clock \ reports)

Building == {t \in Thread : thread[t].step = "building"}

-----------------------------------------------------------------------------
(* The database *)

\* A refresh: staging is seeded, loaded and checked as a candidate.  The workflow
\* is one run at a time.
Load ==
    /\ run = "idle"
    /\ loads < MaxDataset /\ clock < MaxCheck
    /\ loads' = loads + 1 /\ staged' = loads'
    /\ clock' = clock + 1
    /\ run' = "loaded"
    /\ UNCHANGED <<serving, ledger, reports, restored, cache, thread, page, told, faults>>

\* promote --apply: the swap commits with the ledger row, and the checks stop
\* being a candidate's.
Promote ==
    /\ run = "loaded"
    /\ serving' = staged /\ staged' = serving
    /\ ledger' = Append(ledger, [check |-> LastLoaded, dataset |-> staged])
    /\ run' = "reload"
    /\ told' = Empty
    /\ UNCHANGED <<loads, reports, clock, restored, cache, thread, page, faults>>

\* A quality step failed or the promotion refused: the candidate stays in staging.
Refuse ==
    /\ run = "loaded"
    /\ run' = "idle"
    /\ UNCHANGED <<database, cache, thread, page, told, faults>>

\* quality.report run by hand: checks about the served data, written with no
\* candidate context.
Report ==
    /\ "report" \in Faults /\ faults < MaxFaults
    /\ serving # Empty /\ clock < MaxCheck
    /\ clock' = clock + 1
    /\ reports' = reports \cup {clock'}
    /\ faults' = faults + 1
    /\ UNCHANGED <<serving, staged, loads, ledger, restored, cache, thread, run, page, told>>

\* promote --rollback --apply: the swap again, the newest ledger row deleted and
\* its checks a candidate's.  Whatever staging holds comes back; nothing tells the
\* API.
Rollback ==
    /\ "rollback" \in Faults /\ faults < MaxFaults
    /\ run = "idle" /\ ledger # << >>
    /\ serving' = staged /\ staged' = serving
    /\ ledger' = SubSeq(ledger, 1, Len(ledger) - 1)
    /\ restored' = TRUE
    /\ told' = Empty
    /\ faults' = faults + 1
    /\ UNCHANGED <<loads, reports, clock, cache, thread, run, page>>

-----------------------------------------------------------------------------
(* get_analytics_view, a thread at a time *)

\* A call: what the cache holds, or a build with nothing read.
Call(r) ==
    IF cache # NoView
    THEN [r EXCEPT !.step = "got", !.view = cache]
    ELSE [r EXCEPT !.step = "building", !.view = NoView, !.done = 0]

\* A request arrives and makes its first call.
Arrive(t, op) ==
    /\ thread[t].step = "idle"
    /\ thread' = [thread EXCEPT
            ![t] = Call([Idle EXCEPT !.op = op, !.awaited = op = "reload"])]

CallAgain(t) ==
    /\ thread[t].step = "get"
    /\ thread' = [thread EXCEPT ![t] = Call([@ EXCEPT !.leg = 2])]
    /\ UNCHANGED <<database, cache, run, page, told, faults>>

\* Mutant of ReadInto: the universe is read before the fingerprint.
FingerprintLast(v, query) ==
    CASE query = "seasons stored" -> v
      [] query = "bridges" -> [v EXCEPT !.count = CountOf(serving)]
      [] query = "facts" -> [v EXCEPT !.check = LastServedCheck, !.checked = serving]
      [] OTHER -> [v EXCEPT !.from = @ \cup {serving}]

\* What one query adds to a view; later tables see whatever is served by then.
ReadInto(v, query) ==
    CASE query = "seasons stored" -> [v EXCEPT !.count = CountOf(serving)]
      [] query = "last check" -> [v EXCEPT !.check = LastServedCheck, !.checked = serving]
      [] OTHER -> [v EXCEPT !.from = @ \cup {serving}]

Query(t) ==
    /\ t \in Building /\ thread[t].done < Len(Queries)
    /\ thread' = [thread EXCEPT
            ![t].view = ReadInto(@, Queries[thread[t].done + 1]),
            ![t].done = @ + 1]
    /\ UNCHANGED <<database, cache, run, page, told, faults>>

\* lru_cache keeps what another thread has put there meanwhile; this one's
\* result is returned either way.
Kept(built) == IF cache = NoView THEN built ELSE cache

Built(t) ==
    /\ t \in Building /\ thread[t].done = Len(Queries)
    /\ cache' = Kept(thread[t].view)
    /\ thread' = [thread EXCEPT ![t].step = "got"]
    /\ UNCHANGED <<database, run, page, told, faults>>

-----------------------------------------------------------------------------
(* The endpoints *)

\* The site fetches its page again behind a reader of the old one.
Visit(t) ==
    /\ page.stale
    /\ \A u \in Thread : thread[u].step # "idle" => thread[u].op # "page"
    /\ Arrive(t, "page")
    /\ UNCHANGED <<database, cache, run, page, told, faults>>

AnswerPage(t) ==
    /\ thread[t].op = "page" /\ thread[t].step = "got"
    /\ page' = [from |-> thread[t].view.from, stale |-> FALSE]
    /\ thread' = [thread EXCEPT ![t] = Idle]
    /\ UNCHANGED <<database, cache, run, told, faults>>

\* Any other request that calls get_analytics_view, /health among them; one that
\* finds a view in memory changes nothing.
Ask(t) ==
    /\ cache = NoView
    /\ Arrive(t, "other")
    /\ UNCHANGED <<database, cache, run, page, told, faults>>

AnswerOther(t) ==
    /\ thread[t].op = "other" /\ thread[t].step = "got"
    /\ thread' = [thread EXCEPT ![t] = Idle]
    /\ UNCHANGED <<database, cache, run, page, told, faults>>

\* Mutant of Cleared: cache_clear is forgotten.
NotCleared == cache

\* reload_analytics: the view there was, then cache_clear and a call.
Cleared == NoView

ReloadClear(t) ==
    /\ thread[t].op = "reload" /\ thread[t].step = "got" /\ thread[t].leg = 1
    /\ cache' = Cleared
    /\ thread' = [u \in Thread |->
            IF u = t THEN [thread[t] EXCEPT !.step = "get"]
            ELSE [thread[u] EXCEPT !.view.survivor = @ \/ u \in Building]]
    /\ UNCHANGED <<database, run, page, told, faults>>

\* Answered with is_stale FALSE; the pipeline goes on if it still waits.
ReloadAnswer(t) ==
    /\ thread[t].op = "reload" /\ thread[t].step = "got" /\ thread[t].leg = 2
    /\ thread' = [thread EXCEPT ![t] = Idle]
    /\ IF thread[t].awaited THEN /\ run' = "revalidate"
                                 /\ told' = serving
                            ELSE UNCHANGED <<run, told>>
    /\ UNCHANGED <<database, cache, page, faults>>

-----------------------------------------------------------------------------
(* The pipeline's publishing step, the site and the failures *)

\* curl posts to the API, then to the site.
PostReload(t) ==
    /\ run = "reload"
    /\ Arrive(t, "reload")
    /\ run' = "reloading"
    /\ UNCHANGED <<database, cache, page, told, faults>>

Revalidate ==
    /\ run = "revalidate"
    /\ page' = [page EXCEPT !.stale = TRUE]
    /\ run' = "idle"
    /\ UNCHANGED <<database, cache, thread, told, faults>>

Unawaited == [t \in Thread |-> [thread[t] EXCEPT !.awaited = FALSE]]

\* curl stops waiting and asks again; the API goes on with the first request.
Timeout ==
    /\ "timeout" \in Faults /\ faults < MaxFaults
    /\ run = "reloading"
    /\ run' = "reload"
    /\ thread' = Unawaited
    /\ faults' = faults + 1
    /\ UNCHANGED <<database, cache, page, told>>

\* The job ends before the step does: cancelled, out of time or out of retries.
Kill ==
    /\ "kill" \in Faults /\ faults < MaxFaults
    /\ run # "idle"
    /\ run' = "idle"
    /\ thread' = Unawaited
    /\ faults' = faults + 1
    /\ UNCHANGED <<database, cache, page, told>>

\* The API process is restarted or deployed; curl sees its request fail and
\* asks again.
Restart ==
    /\ "restart" \in Faults /\ faults < MaxFaults
    /\ cache' = NoView
    /\ thread' = [t \in Thread |-> Idle]
    /\ run' = IF run = "reloading" THEN "reload" ELSE run
    /\ faults' = faults + 1
    /\ UNCHANGED <<database, page, told>>

\* Mutant of Expired: only the pipeline marks pages.
NeverExpired == page

\* An hour after it was fetched, ANALYSIS_TTL.
Expired == [page EXCEPT !.stale = TRUE]

Expire ==
    /\ ~page.stale
    /\ page' = Expired
    /\ UNCHANGED <<database, cache, thread, run, told, faults>>

-----------------------------------------------------------------------------
(* /health *)

\* _analytics_status on the view in memory: nothing to serve, loaded since, or
\* current.
AnalyticsStatus(v) ==
    CASE v.from = {Empty}                          -> "unavailable"
      [] v.from # {Empty} /\ ~SameFingerprint(v)   -> "degraded"
      [] v.from # {Empty} /\ SameFingerprint(v)    -> "ok"

\* health, of a database that is reachable and migrated: 503 unless it is "ok".
Health(v) == IF AnalyticsStatus(v) = "ok" THEN "ok" ELSE "degraded"

-----------------------------------------------------------------------------
Init ==
    /\ serving = Empty /\ staged = Empty
    /\ loads = 0 /\ ledger = << >> /\ reports = {} /\ clock = 0 /\ restored = FALSE
    /\ cache = NoView
    /\ thread = [t \in Thread |-> Idle]
    /\ run = "idle"
    /\ page = [from |-> {}, stale |-> TRUE]
    /\ told = Empty
    /\ faults = 0

Serve(t) ==
    \/ CallAgain(t) \/ Query(t) \/ Built(t)
    \/ AnswerPage(t) \/ AnswerOther(t)
    \/ ReloadClear(t) \/ ReloadAnswer(t)

Next ==
    \/ Load \/ Promote \/ Refuse \/ Report \/ Rollback
    \/ Revalidate \/ Timeout \/ Kill \/ Restart \/ Expire
    \/ \E t \in Thread : Serve(t) \/ Visit(t) \/ Ask(t) \/ PostReload(t)

Spec == Init /\ [][Next]_vars

\* A thread goes on, the pipeline goes on, time passes, and readers come.
Fairness ==
    /\ \A t \in Thread : WF_vars(Serve(t))
    /\ WF_vars(\E t \in Thread : PostReload(t))
    /\ WF_vars(Revalidate)
    /\ WF_vars(Expire)
    /\ SF_vars(\E t \in Thread : Visit(t))

FairSpec == Spec /\ Fairness

-----------------------------------------------------------------------------
(* Properties *)

\* /health is the only sign that readers are given something else than the served
\* data, a universe read from two datasets included: when it is ok, the view in
\* memory is the served data, whole (health.py, analytics_service.py build_view and
\* view_is_stale).  Not so where a check written by hand hides the candidate's, nor
\* where a rollback was made: one that finds something else in staging than was
\* served before brings back the fingerprint of that, and one that undoes a
\* promotion the fingerprint of a view that was being built over it.
UnreportedMeansCurrent ==
    cache # NoView /\ Health(cache) = "ok" /\ ~Masked =>
        \/ Current(cache)
        \/ restored /\ (Strayed \/ cache.from # {cache.checked})

\* As long as a dataset is served that a reload was answered for, it is what the
\* process holds, unless a build that was under way when the cache was cleared got
\* there first.
ReloadTakesEffect ==
    told # Empty /\ cache # NoView => Current(cache) \/ cache.survivor

\* A dataset the pipeline reloaded is on the readers' page in the end, if it
\* stays the served one and no older build took its place in the cache.
ReadersCatchUp ==
    \A d \in Dataset \ {Empty} :
        told = d ~> page.from = {d} \/ told # d \/ cache.survivor
=============================================================================
