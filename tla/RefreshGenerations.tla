------------------------- MODULE RefreshGenerations -------------------------
(***************************************************************************)
(* The life of a FootyStats refresh generation.                            *)
(*                                                                         *)
(* A refresh takes about twenty scheduled runs.  Each run starts on an     *)
(* empty runner, asks the database what is live (gate.py), restores the    *)
(* generation's newest checkpoint from the GitHub cache, verifies it,      *)
(* fetches for a while (ingest.py), checkpoints to disk and database       *)
(* (generations.py, publish_status.py), saves a new cache entry and, once  *)
(* the universe is whole, loads, validates and promotes it (promote.py).   *)
(* Runs never overlap: the workflow's concurrency group serialises them.   *)
(* A person at a terminal is outside that group.                           *)
(*                                                                         *)
(* Abstractions: a player is a unit in a count (a competition's done       *)
(* players are a part of its roster); the configured order of the          *)
(* competitions is any order; the load and the checks that follow it are   *)
(* one step that succeeds or fails; the schemas it works on are another    *)
(* module's business.                                                      *)
(***************************************************************************)
EXTENDS Naturals, Sequences, FiniteSets

CONSTANTS
    Comp,          \* competitions the configuration can name
    MaxGen,        \* bound: generations ever created
    MaxRoster,     \* bound: players a competition's roster can grow to
    MaxRev,        \* bound: the revision from which a generation is not resumed
    Faults,        \* kinds of adverse outcome this instance explores
    MaxFaults,     \* bound: adverse outcomes in one behaviour
    Operator       \* commands a person may give: "abandon" (without the
                   \* directory), "abandon_disk" (beside it), "rollback"

ASSUME CompAssumption == Comp # {} /\ IsFiniteSet(Comp)
ASSUME MaxGenAssumption == MaxGen \in Nat
ASSUME MaxRosterAssumption == MaxRoster \in Nat
ASSUME MaxRevAssumption == MaxRev \in Nat
ASSUME MaxFaultsAssumption == MaxFaults \in Nat

Gen == 1 .. MaxGen      \* ids are timestamps; only their order is kept
NoGen == 0

Modes == {"start", "continue_only"}
LiveStatuses == {"IN_PROGRESS", "COMPLETE", "VALIDATED"}
AwaitingPublication == {"COMPLETE", "VALIDATED"}
Publishable == {"COMPLETE", "VALIDATED", "PUBLISHED"}
Statuses == LiveStatuses \cup {"PUBLISHED", "FAILED"}
Absent == "ABSENT"      \* no row in fact_refresh_generation

VARIABLES
    db,            \* fact_refresh_generation, one row per generation
    ledger,        \* fact_source_publication: what was promoted, oldest first
    cache,         \* the saved checkpoints of each generation, oldest first
    nextGen,       \* the id the next generation gets
    configured,    \* the competitions config/competitions.yaml asks for
    pc,            \* the step the current run is at; "idle" between runs
    job,           \* what the gate told this run
    diskGen,       \* the generation in the runner's directory, or NoGen
    disk,          \* its metadata, rosters and progress
    lost,          \* competitions whose snapshot file the restore did not bring
    report,        \* the fetch's RunReport
    loaded,        \* players per competition in the candidate that was loaded
    faults         \* adverse outcomes so far

vars == <<db, ledger, cache, nextGen, configured, pc, job, diskGen, disk,
          lost, report, loaded, faults>>

-----------------------------------------------------------------------------
(* Data *)

Empty == [c \in Comp |-> 0]

\* A generation's directory, as a checkpoint holds it.
Checkpoint ==
    [ status    : Statuses,
      rev       : Nat,             \* checkpoint_revision
      wanted    : SUBSET Comp,     \* competitions_expected
      finished  : SUBSET Comp,     \* competitions_complete
      complete  : BOOLEAN,
      completed : Nat,             \* completed_players
      roster    : [Comp -> Nat],   \* expected players, by competition
      done      : [Comp -> Nat] ]  \* players in the progress file

NewGeneration ==
    [ status |-> "IN_PROGRESS", rev |-> 0, wanted |-> {}, finished |-> {},
      complete |-> FALSE, completed |-> 0, roster |-> Empty, done |-> Empty ]

Row == [status : Statuses \cup {Absent}, rev : Nat, complete : BOOLEAN, completed : Nat]
NoRow == [status |-> Absent, rev |-> 0, complete |-> FALSE, completed |-> 0]
RowOf(k) == [ status |-> k.status, rev |-> k.rev, complete |-> k.complete,
              completed |-> k.completed ]

Report ==
    [ todo    : SUBSET Comp,   \* configured and not visited yet
      bad     : BOOLEAN,       \* some visited competition is not complete
      fatal   : BOOLEAN,
      stopped : BOOLEAN,       \* the deadline expired
      fetched : BOOLEAN,       \* this run wrote at least one player
      counted : Nat ]          \* players fetched or skipped by this run
NoReport ==
    [todo |-> {}, bad |-> FALSE, fatal |-> FALSE, stopped |-> FALSE,
     fetched |-> FALSE, counted |-> 0]

\* RunReport.complete: nothing unvisited and every visited one complete.
ReportComplete(r) == r.todo = {} /\ ~r.bad

\* evaluate_completeness, over the competitions a roster was recorded for.
EvaluateCompleteness(k) == k.wanted # {} /\ k.wanted \subseteq k.finished

NotChecked == TRUE   \* mutant of Intact

\* integrity_problems is empty: what is called complete has its snapshot.
Intact == disk.finished \cap lost = {}

\* A row of the ledger, with what the promoted dataset asked for and holds.
Publication ==
    [gen : Gen, wanted : SUBSET Comp, roster : [Comp -> Nat], have : [Comp -> Nat]]

\* The players a reader of the directory finds: progress without its snapshot
\* file is not trusted.
Held == [c \in Comp |-> IF c \in lost THEN 0 ELSE disk.done[c]]

Job == [gen : Gen \cup {NoGen}, rev : Nat]
NoJob == [gen |-> NoGen, rev |-> 0]

\* An adverse outcome of the given kind happens here.
Adverse(kind) ==
    /\ kind \in Faults
    /\ faults < MaxFaults
    /\ faults' = faults + 1

\* The outcome of a step that needs the database: reached, or not.
Reaches(ok) == IF ok THEN UNCHANGED faults ELSE Adverse("database")

Init ==
    /\ db = [g \in Gen |-> NoRow]
    /\ ledger = <<>>
    /\ cache = [g \in Gen |-> <<>>]
    /\ nextGen = 1
    /\ configured = Comp
    /\ pc = "idle" /\ job = NoJob
    /\ diskGen = NoGen /\ disk = NewGeneration /\ lost = {}
    /\ report = NoReport
    /\ loaded = Empty
    /\ faults = 0

\* The job ends and its runner is thrown away with everything on its disk.
EndRun ==
    /\ pc' = "idle" /\ job' = NoJob
    /\ diskGen' = NoGen /\ disk' = NewGeneration /\ lost' = {}
    /\ report' = NoReport
    /\ loaded' = Empty

-----------------------------------------------------------------------------
(* The gate *)

LiveIn(rows) == {g \in Gen : rows[g].status \in LiveStatuses}

\* Mutants of Decision: a weekly start that asks nothing, and a gate to which
\* only a fetch is live.
StartRegardless(mode, rows) ==
    LET live == LiveIn(rows) IN
    IF mode = "start" THEN [action |-> "START_NEW", gen |-> NoGen]
    ELSE IF live = {} THEN [action |-> "NOOP", gen |-> NoGen]
    ELSE [action |-> "FETCH", gen |-> CHOOSE h \in live : TRUE]

OnlyFetchesAreLive(mode, rows) ==
    LET live == {g \in Gen : rows[g].status = "IN_PROGRESS"} IN
    IF live # {} THEN [action |-> "FETCH", gen |-> CHOOSE h \in live : TRUE]
    ELSE IF mode = "start" THEN [action |-> "START_NEW", gen |-> NoGen]
    ELSE [action |-> "NOOP", gen |-> NoGen]

\* decide_from_state: the action for a mode and whatever is live.
Decision(mode, rows) ==
    LET live == LiveIn(rows) IN
    IF Cardinality(live) > 1 THEN [action |-> "ERROR", gen |-> NoGen]
    ELSE IF live # {} THEN
        LET g == CHOOSE h \in live : TRUE IN
        [ action |-> IF rows[g].status = "IN_PROGRESS" THEN "FETCH"
                     ELSE "PUBLISH_READY",
          gen |-> g ]
    ELSE IF mode = "start" THEN [action |-> "START_NEW", gen |-> NoGen]
    ELSE [action |-> "NOOP", gen |-> NoGen]

\* action_for_status: what the verifier makes of a status after reconciling.
ActionForStatus(s) ==
    CASE s = "IN_PROGRESS" -> "FETCH"
      [] s \in AwaitingPublication -> "PUBLISH_READY"
      [] OTHER -> "NOOP"

\* A run whose gate finds a live generation goes to fetch that generation's
\* cache.  An unreadable database, NOOP and ERROR end the run with nothing
\* changed: they are stuttering steps and have no disjunct.
GateResume(mode) ==
    LET d == Decision(mode, db) IN
    /\ pc = "idle"
    /\ d.action \in {"FETCH", "PUBLISH_READY"}
    /\ db[d.gen].rev < MaxRev
    /\ pc' = "restore"
    /\ job' = [gen |-> d.gen, rev |-> db[d.gen].rev]
    /\ UNCHANGED <<db, ledger, cache, nextGen, configured, diskGen, disk, lost,
                   report, loaded, faults>>

GateStartNew ==
    /\ pc = "idle"
    /\ Decision("start", db).action = "START_NEW"
    /\ nextGen \in Gen
    /\ pc' = "create"
    /\ UNCHANGED <<db, ledger, cache, nextGen, configured, job, diskGen, disk,
                   lost, report, loaded, faults>>

\* actions/cache/restore: the newest entry with this generation's prefix, or
\* nothing.  A partial restore may lack a snapshot file; a roster file that is
\* missing leads to the same refusal as the snapshot of a finished competition.
Restore ==
    LET saved == cache[job.gen] IN
    /\ pc = "restore"
    /\ pc' = "verify"
    /\ IF saved = <<>>
       THEN UNCHANGED <<diskGen, disk, lost, faults>>
       ELSE /\ diskGen' = job.gen
            /\ disk' = saved[Len(saved)]
            /\ \/ lost' = {} /\ UNCHANGED faults
               \/ /\ Adverse("torn")
                  /\ \E c \in disk'.wanted : lost' = {c}
    /\ UNCHANGED <<db, ledger, cache, nextGen, configured, job, report, loaded>>

-----------------------------------------------------------------------------
(* The verifier *)

\* STATUS_RANK, with 0 for a status that is off the ladder.
Rank(s) == CASE s = "IN_PROGRESS" -> 1 [] s = "COMPLETE" -> 2 [] s = "VALIDATED" -> 3
             [] OTHER -> 0

RevisionOnly(row, local) == row   \* mutant: only the number moves forward

\* The status reconcile_forward writes over a row, given the disk's.
ReconciledStatus(row, local) ==
    IF local = "FAILED" \/ Rank(local) > Rank(row) THEN local ELSE row

\* reconcile_forward: the whole checkpoint moves the row forward, never back,
\* and never from PUBLISHED.
Reconciled(row, k) ==
    IF row.status = "PUBLISHED" \/ row.rev >= k.rev THEN row
    ELSE [RowOf(k) EXCEPT !.status = ReconciledStatus(row.status, k.status)]

\* Mutant of Verified: any checkpoint of the generation will do.
RightGeneration == diskGen = job.gen /\ Intact

\* verify_local_state accepts what the restore brought.
Verified == diskGen = job.gen /\ disk.rev >= job.rev /\ Intact

VerifyRefuse ==
    /\ pc = "verify" /\ ~Verified
    /\ EndRun
    /\ UNCHANGED <<db, ledger, cache, nextGen, configured, faults>>

\* The run takes the action the verifier settled on.  ingest refuses to
\* resume a directory that is not IN_PROGRESS.
Take(action) ==
    \/ /\ action = "FETCH" /\ disk.status = "IN_PROGRESS"
       /\ pc' = "fetch" /\ report' = [NoReport EXCEPT !.todo = configured]
       /\ UNCHANGED <<job, diskGen, disk, lost, loaded>>
    \/ /\ action = "PUBLISH_READY"
       /\ pc' = "load"
       /\ UNCHANGED <<job, diskGen, disk, lost, report, loaded>>
    \/ /\ action = "NOOP" \/ (action = "FETCH" /\ disk.status # "IN_PROGRESS")
       /\ EndRun

\* The disk is not newer than the revision the gate read: the row's status
\* decides, or the disk's own when the row cannot be read.
VerifyEqual ==
    /\ pc = "verify" /\ Verified /\ disk.rev <= job.rev
    /\ \E ok \in BOOLEAN :
          /\ Reaches(ok)
          /\ Take(ActionForStatus(IF ok THEN db[diskGen].status ELSE disk.status))
    /\ UNCHANGED <<db, ledger, cache, nextGen, configured>>

\* The disk is newer: an earlier run saved its cache and could not tell the
\* database.  The row is brought forward and the action chosen again.
VerifyNewer ==
    /\ pc = "verify" /\ Verified /\ disk.rev > job.rev
    /\ \E ok \in BOOLEAN :
          LET row == IF ok THEN Reconciled(db[diskGen], disk) ELSE db[diskGen] IN
          /\ Reaches(ok)
          /\ db' = [db EXCEPT ![diskGen] = row]
          /\ Take(ActionForStatus(IF ok THEN row.status ELSE disk.status))
    /\ UNCHANGED <<ledger, cache, nextGen, configured>>

-----------------------------------------------------------------------------
(* The fetch *)

\* GenerationStore.create on an empty directory.  The database does not hear
\* of the generation until the first competition has been visited.
CreateGeneration ==
    /\ pc = "create"
    /\ diskGen' = nextGen /\ disk' = NewGeneration /\ lost' = {}
    /\ nextGen' = nextGen + 1
    /\ pc' = "fetch" /\ report' = [NoReport EXCEPT !.todo = configured]
    /\ UNCHANGED <<db, ledger, cache, configured, job, loaded, faults>>

\* publish_status.record: upsert whatever the disk says, best effort.
Record(ok, k) == db' = IF ok THEN [db EXCEPT ![diskGen] = RowOf(k)] ELSE db

\* The bookkeeping after one competition: mark it, count what this run has
\* seen, evaluate.
Visited(c, k, whole, counted) ==
    LET marked == [k EXCEPT !.finished = IF whole THEN @ \cup {c} ELSE @ \ {c},
                            !.completed = counted]
    IN  [marked EXCEPT !.complete = EvaluateCompleteness(marked)]

Fetching(c) == pc = "fetch" /\ c \in report.todo /\ ~report.fatal /\ ~report.stopped

\* The roster request is refused: a bad key stops the run, anything else
\* costs this competition.
RosterRefused(c) ==
    /\ Fetching(c)
    /\ Adverse("roster")
    /\ disk' = Visited(c, disk, FALSE, report.counted)
    /\ \E fatal, ok \in BOOLEAN :
          /\ fatal => "refused_key" \in Faults
          /\ Record(ok, disk')
          /\ ok \/ "database" \in Faults
          /\ report' = [report EXCEPT !.todo = @ \ {c}, !.bad = TRUE, !.fatal = fatal]
    /\ UNCHANGED <<ledger, cache, nextGen, configured, pc, job, diskGen, lost, loaded>>

Merged(c) == disk.roster[c] .. MaxRoster

\* The players the loop counts, fetched or skipped: a loop that breaks off never
\* comes to the ones it already had further down the roster.
Seen(c, got, cause) ==
    IF cause \in {"none", "player"} THEN {got} ELSE got - Held[c] .. got

\* One visit whose roster answer came: got of the size expected players are on
\* disk when the loop ends, for the given cause.  Out of time is an ordinary end
\* for a run that has written something.
Visit(c, size, got, cause, ok, seen) ==
    LET wrote == report.fetched \/ got > Held[c]
        free  == cause = "none" \/ (cause = "deadline" /\ wrote)
    IN
    /\ (cause = "none") <=> (got = size)
    /\ ok \/ "database" \in Faults
    /\ IF free /\ ok THEN UNCHANGED faults
       ELSE Adverse(IF free THEN "database" ELSE cause)
    /\ disk' = Visited(c, [disk EXCEPT !.wanted = @ \cup {c}, !.roster[c] = size,
                                       !.done[c] = got],
                        got = size, report.counted + seen)
    /\ Record(ok, disk')
    /\ report' = [todo    |-> report.todo \ {c},
                  bad     |-> report.bad \/ got < size,
                  fatal   |-> cause = "refused_key",
                  stopped |-> cause = "deadline",
                  fetched |-> wrote,
                  counted |-> report.counted + seen]

\* The roster is merged into the generation's own, which only grows; then the
\* missing players are fetched until all are there or something stops it.
FetchPlayers(c) ==
    /\ Fetching(c)
    /\ \E size \in Merged(c) :
       \E got \in Held[c] .. size :
       \E cause \in {"none", "deadline", "player", "refused_key"} :
       \E ok \in BOOLEAN :
       \E seen \in Seen(c, got, cause) :
          Visit(c, size, got, cause, ok, seen)
    /\ lost' = lost \ {c}
    /\ UNCHANGED <<ledger, cache, nextGen, configured, pc, job, diskGen, loaded>>

\* The deadline expires between two competitions.
OutOfTime ==
    /\ pc = "fetch" /\ report.todo # {} /\ ~report.fatal /\ ~report.stopped
    /\ IF report.fetched THEN UNCHANGED faults ELSE Adverse("deadline")
    /\ report' = [report EXCEPT !.stopped = TRUE]
    /\ UNCHANGED <<db, ledger, cache, nextGen, configured, pc, job, diskGen,
                   disk, lost, loaded>>

\* checkpoint: a revision per run that ends, whatever the run achieved.
RevWhenWhole(k) == IF k.complete THEN k.rev + 1 ELSE k.rev   \* mutant
NextRev(k) == k.rev + 1

\* The end of ingest.main: the verdict on the whole run, one checkpoint, one
\* last record.
FinishFetch ==
    LET whole == EvaluateCompleteness(disk) /\ ReportComplete(report)
        status == IF report.fatal THEN "FAILED"
                  ELSE IF whole THEN "COMPLETE" ELSE disk.status
    IN
    /\ pc = "fetch"
    /\ report.todo = {} \/ report.fatal \/ report.stopped
    /\ disk' = [disk EXCEPT !.complete = whole, !.status = status,
                            !.completed = report.counted, !.rev = NextRev(disk)]
    /\ \E ok \in BOOLEAN : Reaches(ok) /\ Record(ok, disk')
    /\ pc' = "save"
    /\ UNCHANGED <<ledger, cache, nextGen, configured, job, diskGen, lost,
                   report, loaded>>

\* actions/cache/save: a key that exists is never overwritten.
Saved(saved, k) ==
    IF \E i \in DOMAIN saved : saved[i].rev = k.rev THEN saved ELSE Append(saved, k)

\* Mutant of SaveCache: the step without always(), which a failed fetch skips.
SaveAfterSuccess ==
    /\ pc = "save"
    /\ IF ReportComplete(report)
       THEN /\ cache' = [cache EXCEPT ![diskGen] = Saved(@, [disk EXCEPT !.done = Held])]
            /\ pc' = "load"
            /\ UNCHANGED <<job, diskGen, disk, lost, report, loaded>>
       ELSE EndRun /\ UNCHANGED cache
    /\ UNCHANGED <<db, ledger, nextGen, configured, faults>>

\* The save comes right after the fetch, whatever it achieved; one that fails is
\* a warning.  The job goes on to the load only when ingest said the refresh is
\* complete.
SaveCache ==
    /\ pc = "save"
    /\ \/ /\ cache' = [cache EXCEPT ![diskGen] = Saved(@, [disk EXCEPT !.done = Held])]
          /\ UNCHANGED faults
       \/ Adverse("save") /\ UNCHANGED cache
    /\ IF ReportComplete(report)
       THEN /\ pc' = "load"
            /\ UNCHANGED <<job, diskGen, disk, lost, report, loaded>>
       ELSE EndRun
    /\ UNCHANGED <<db, ledger, nextGen, configured>>

-----------------------------------------------------------------------------
(* The publication *)

\* Seed, load, identity, quality and validation of the candidate.  The loader
\* refuses a generation whose directory does not say it is finished.
LoadAndCheck ==
    /\ pc = "load"
    /\ \/ /\ disk.status \in Publishable
          /\ loaded' = Held
          /\ pc' = "mark"
          /\ UNCHANGED <<job, diskGen, disk, lost, report, faults>>
       \/ disk.status \notin Publishable /\ EndRun /\ UNCHANGED faults
       \/ Adverse("check") /\ EndRun
    /\ UNCHANGED <<db, ledger, cache, nextGen, configured>>

\* mark_validated: the disk moves, then the row, guarded on COMPLETE.  A row
\* already past that point is no error.
MarkValidated ==
    LET row == db[diskGen] IN
    /\ pc = "mark"
    /\ \/ /\ row.status \in {"COMPLETE", "VALIDATED", "PUBLISHED"}
          /\ db' = [db EXCEPT ![diskGen].status =
                       IF @ = "COMPLETE" THEN "VALIDATED" ELSE @]
          /\ disk' = [disk EXCEPT !.status = IF @ = "COMPLETE" THEN "VALIDATED" ELSE @]
          /\ pc' = "promote"
          /\ UNCHANGED <<job, diskGen, lost, report, loaded, faults>>
       \/ /\ row.status \notin {"COMPLETE", "VALIDATED", "PUBLISHED"}
          /\ EndRun /\ UNCHANGED <<db, faults>>
       \/ Adverse("database") /\ EndRun /\ UNCHANGED db
    /\ UNCHANGED <<ledger, cache, nextGen, configured>>

IsPublished(g) == \E i \in DOMAIN ledger : ledger[i].gen = g

\* Mutant of Promote: the generation's row is moved by a later step, so that a
\* promotion can be tried again after one that was not seen to commit.
PromoteThenMove ==
    /\ pc = "promote"
    /\ ledger' = IF db[diskGen].status \in AwaitingPublication
                 THEN Append(ledger, [gen |-> diskGen, wanted |-> disk.wanted,
                                      roster |-> disk.roster, have |-> loaded])
                 ELSE ledger
    /\ \/ db' = [db EXCEPT ![diskGen].status = "PUBLISHED"] /\ UNCHANGED faults
       \/ Adverse("promotion") /\ UNCHANGED db
    /\ EndRun
    /\ UNCHANGED <<cache, nextGen, configured>>

\* promote --apply: a no-op for a refresh already in the ledger, refused for
\* a generation the database does not offer; otherwise the swap, the ledger
\* row and the status in one transaction.
Promote ==
    /\ pc = "promote"
    /\ \/ /\ ~IsPublished(diskGen)
          /\ db[diskGen].status \in AwaitingPublication
          /\ db' = [db EXCEPT ![diskGen].status = "PUBLISHED"]
          /\ ledger' = Append(ledger, [gen |-> diskGen, wanted |-> disk.wanted,
                                      roster |-> disk.roster, have |-> loaded])
          /\ UNCHANGED faults
       \/ /\ IsPublished(diskGen) \/ db[diskGen].status \notin AwaitingPublication
          /\ UNCHANGED <<db, ledger, faults>>
       \/ Adverse("promotion") /\ UNCHANGED <<db, ledger>>
    /\ EndRun
    /\ UNCHANGED <<cache, nextGen, configured>>

-----------------------------------------------------------------------------
(* What happens to the system from outside *)

\* The job is killed: a timeout, a lost runner, a cancelled workflow.
Crash ==
    /\ pc # "idle"
    /\ Adverse("crash")
    /\ EndRun
    /\ UNCHANGED <<db, ledger, cache, nextGen, configured>>

\* GitHub drops the newest entry a generation has.
Evict(g) ==
    /\ cache[g] # <<>>
    /\ Adverse("evict")
    /\ cache' = [cache EXCEPT ![g] = SubSeq(@, 1, Len(@) - 1)]
    /\ UNCHANGED <<db, ledger, nextGen, configured, pc, job, diskGen, disk,
                   lost, report, loaded>>

\* Somebody excludes a competition from config/competitions.yaml.
ExcludeCompetition(c) ==
    /\ c \in configured /\ configured # {c}
    /\ Adverse("exclude")
    /\ configured' = configured \ {c}
    /\ UNCHANGED <<db, ledger, cache, nextGen, pc, job, diskGen, disk, lost,
                   report, loaded>>

\* Mutant of Abandon: only a fetch can be abandoned.
AbandonFetch(g) ==
    /\ "abandon" \in Operator
    /\ db[g].status = "IN_PROGRESS"
    /\ db' = [db EXCEPT ![g].status = "FAILED"]
    /\ UNCHANGED <<ledger, cache, nextGen, configured, pc, job, diskGen, disk,
                   lost, report, loaded, faults>>

\* generations --abandon from a machine that does not hold the directory:
\* mark_failed, on the row only.
Abandon(g) ==
    /\ "abandon" \in Operator
    /\ db[g].status \in LiveStatuses
    /\ db' = [db EXCEPT ![g].status = "FAILED"]
    /\ UNCHANGED <<ledger, cache, nextGen, configured, pc, job, diskGen, disk,
                   lost, report, loaded, faults>>

\* generations --abandon beside the directory, which is a copy k of one of the
\* generation's saved checkpoints: set_status fails it from any status, and
\* record writes the copy's whole row over the database's, asking nothing of
\* it: an older revision, and a row that is PUBLISHED, are overwritten too.
AbandonOnDisk(g, k) ==
    /\ "abandon_disk" \in Operator
    /\ db' = [db EXCEPT ![g] = [RowOf(k) EXCEPT !.status = "FAILED"]]
    /\ UNCHANGED <<ledger, cache, nextGen, configured, pc, job, diskGen, disk,
                   lost, report, loaded, faults>>

\* promote --rollback: the newest ledger row goes, its generation is VALIDATED
\* again.
Rollback ==
    /\ "rollback" \in Operator
    /\ ledger # <<>>
    /\ LET g == ledger[Len(ledger)].gen IN
       db' = [db EXCEPT ![g].status = IF @ = "PUBLISHED" THEN "VALIDATED" ELSE @]
    /\ ledger' = SubSeq(ledger, 1, Len(ledger) - 1)
    /\ UNCHANGED <<cache, nextGen, configured, pc, job, diskGen, disk, lost,
                   report, loaded, faults>>

-----------------------------------------------------------------------------
Verify == VerifyRefuse \/ VerifyEqual \/ VerifyNewer
Fetch == OutOfTime \/ FinishFetch \/ \E c \in Comp : RosterRefused(c) \/ FetchPlayers(c)

RunStep ==
    \/ \E mode \in Modes : GateResume(mode)
    \/ GateStartNew
    \/ Restore
    \/ Verify
    \/ CreateGeneration
    \/ Fetch
    \/ SaveCache
    \/ LoadAndCheck
    \/ MarkValidated
    \/ Promote

Outside ==
    \/ Crash
    \/ \E g \in Gen : Evict(g) \/ Abandon(g)
    \/ \E g \in Gen : \E i \in DOMAIN cache[g] : AbandonOnDisk(g, cache[g][i])
    \/ \E c \in Comp : ExcludeCompetition(c)
    \/ Rollback

Next == RunStep \/ Outside

Spec == Init /\ [][Next]_vars

-----------------------------------------------------------------------------
(* Fairness.  The cron fires again whatever became of the last run, and a    *)
(* job on a runner keeps executing; a person who sees a generation no run    *)
(* can resume abandons it, which is the recovery the refusals name.          *)

NewestRev(g) == IF cache[g] = <<>> THEN 0 ELSE cache[g][Len(cache[g])].rev

\* Every run of a live generation is refused: its newest checkpoint is gone.
Unrestorable(g) ==
    /\ db[g].status \in LiveStatuses
    /\ cache[g] = <<>> \/ NewestRev(g) < db[g].rev

FairSpec == Spec /\ WF_vars(RunStep)

AttendedSpec ==
    /\ FairSpec
    /\ \A g \in Gen : WF_vars(Unrestorable(g) /\ Abandon(g))

-----------------------------------------------------------------------------
(* The status panel (quality_service.py) *)

NewestOf(gens) == IF gens = {} THEN NoGen ELSE CHOOSE g \in gens : \A h \in gens : h <= g

\* _summarise: a panel's line about a generation.
Summary(g) == [gen |-> g, status |-> db[g].status, complete |-> db[g].complete]

\* refresh_status: the generation readers are given, the one that is worked on,
\* and what is being done.
RefreshStatus ==
    LET recorded == {g \in Gen : db[g].status # Absent}
        current == NewestOf(LiveIn(db))
        last == NewestOf(recorded)
    IN [ published |-> NewestOf({g \in recorded : db[g].status = "PUBLISHED"}),
         current |-> IF current = NoGen THEN <<>> ELSE <<Summary(current)>>,
         state |-> IF current # NoGen
                   THEN CASE db[current].status = "IN_PROGRESS" -> "fetching"
                          [] db[current].status = "COMPLETE"    -> "validating"
                          [] db[current].status = "VALIDATED"   -> "ready_to_publish"
                   ELSE IF last # NoGen /\ db[last].status = "FAILED" THEN "failed"
                   ELSE "idle" ]

-----------------------------------------------------------------------------
(* Properties *)

\* Every variable has its type, and a run that works on a generation has one.
TypeOK ==
    /\ db \in [Gen -> Row]
    /\ ledger \in Seq(Publication)
    /\ cache \in [Gen -> Seq(Checkpoint)]
    /\ nextGen \in 1 .. MaxGen + 1
    /\ configured \in SUBSET Comp
    /\ pc \in {"idle", "create", "restore", "verify", "fetch", "save", "load",
               "mark", "promote"}
    /\ job \in Job
    /\ diskGen \in Gen \cup {NoGen}
    /\ disk \in Checkpoint
    /\ lost \in SUBSET Comp
    /\ report \in Report
    /\ loaded \in [Comp -> Nat]
    /\ faults \in Nat
    /\ pc = "create" => nextGen \in Gen
    /\ pc \in {"restore", "verify"} => job.gen \in Gen
    /\ pc \in {"fetch", "save", "load", "mark", "promote"} => diskGen \in Gen

\* What was promoted is a whole universe: every competition the configuration
\* asks for was visited by that generation, and every player any roster call
\* of the generation named was in the candidate.  Completeness is decided from
\* flags kept through many runs, files that may not all have been restored and
\* a verdict on the last run only (generations.py evaluate_completeness,
\* ingest.py RunReport.complete, gate.py verify_local_state).
NoPartialUniversePublished ==
    \A i \in DOMAIN ledger :
        LET p == ledger[i] IN
        /\ p.wanted # {}
        /\ configured \subseteq p.wanted
        /\ p.have = p.roster

\* Two universes are never open at once, though the row of a new generation is
\* written long after the gate found none, and though a generation's row may
\* never be written at all (gate.py decide_from_state refuses to choose).
AtMostOneLive == Cardinality(LiveIn(db)) <= 1

\* A published status and a ledger row say the same thing in every state, however
\* many runs retry a promotion and whichever failed: no generation is PUBLISHED
\* with no publication behind it or published twice (promote.py
\* record_publication, already_published).  And the generation the status panel
\* names as the one a reader is looking at is the last publication's, which is
\* so because generations are published in the order they were created in
\* (quality_service.py refresh_status takes the newest PUBLISHED one).
LedgerAgreesWithStatus ==
    /\ \A g \in Gen : db[g].status = "PUBLISHED" => IsPublished(g)
    /\ \A i, j \in DOMAIN ledger : ledger[i].gen = ledger[j].gen => i = j
    /\ \A i \in DOMAIN ledger : db[ledger[i].gen].status = "PUBLISHED"
    /\ RefreshStatus.published = IF ledger = <<>> THEN NoGen ELSE ledger[Len(ledger)].gen

\* The cache key of a checkpoint about to be saved was never used: keys are
\* immutable, so a save under an old one would silently keep the old files
\* (ingest.py bumps the revision once per run, pipeline.yml names the key).
CheckpointKeyIsFresh ==
    pc = "save" => \A i \in DOMAIN cache[diskGen] : cache[diskGen][i].rev # disk.rev

\* Between runs, the checkpoint the database names for a live generation can be
\* restored, as long as no save failed, nothing was killed and nothing was
\* evicted: the row is written before the cache, so a run that ends in between
\* leaves a generation every later run refuses (gate.py verify_local_state).
LiveIsRestorable == pc = "idle" => \A g \in Gen : ~Unrestorable(g)

\* The revision in the database never goes down, whichever stale checkpoint a
\* run was given and whichever of its writes reached the database: record is an
\* unguarded upsert, and only the verifier stands before it.  Nothing stands
\* before the record of a person who abandons from an old copy of the
\* directory, which is the one command this is not said of.
RevisionNeverRegresses == [][\A g \in Gen : db'[g].rev >= db[g].rev]_vars

\* Where nobody gives a command, statuses move only along the part of the table
\* generations.py promises that no person has a hand in, and a generation
\* appears only when no other is live.
Lifecycle == INSTANCE GenerationLifecycle WITH status <- [g \in Gen |-> db[g].status]
ImplementsLifecycle == Lifecycle!Unattended

\* A generation readers were told about is published in the end, whatever
\* finite number of recoverable failures the runs meet on the way: no run is
\* ever left with nothing to do that it can do.
LiveIsPublished ==
    \A g \in Gen : db[g].status \in LiveStatuses ~> db[g].status = "PUBLISHED"

\* With somebody who abandons what cannot be restored, every live generation
\* leaves the live statuses even when runs are killed and caches are lost, so
\* the pipeline never stays blocked.
LiveSettles ==
    \A g \in Gen : db[g].status \in LiveStatuses ~> db[g].status \in {"PUBLISHED", "FAILED"}

=============================================================================
