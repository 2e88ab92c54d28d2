# Football Scouting Intelligence: verification project

TLA+ models of this repository, the TLC runs that check them on small instances,
and TLAPS proofs of what matters most for every instance. Paths under `src/` are
the repository's own.

## 1. The system

The product is a scouting web application over a PostgreSQL warehouse. Data comes
from two providers. FootyStats answers a bounded number of requests an hour, so one
refresh of its universe takes about twenty scheduled GitHub Actions runs;
Transfermarkt is a file that is downloaded and read in one run. What a run
prepares reaches readers only through a *candidate* that is loaded, checked and
then swapped into production. A FastAPI process reads the whole of what serves into
one view in memory and answers every search, profile and comparison from it;
Next.js renders those answers and keeps them for an hour. People have accounts, and
shortlists of players.

### 1.1 Inventory

| Component | State it keeps | Operations | What makes it correct | Modelled by |
|---|---|---|---|---|
| **Refresh generations** `pipelines/footystats/generations.py`, `gate.py`, `publish_status.py` | a directory on the runner (status, revision, rosters, progress); its copies in the Actions cache; one row in `fact_refresh_generation` | create, resume, mark competitions, checkpoint, mark validated, abandon; the gate's decision; the verifier's reconciliation | one generation open at a time; a stale checkpoint is never resumed over newer facts; statuses move along one table; a generation that can finish does | `RefreshGenerations`, `GenerationLifecycle` |
| **Fetch run** `pipelines/footystats/ingest.py` | the run's report; snapshots, rosters and progress on disk | one visit of each configured competition, deadline, refused key, last checkpoint | nothing known is lost from one checkpoint to the next; "complete" means the whole universe; what is called done can be read back | `RefreshGenerations` (counts), `SnapshotFetch` (bytes) |
| **Workflow** `.github/workflows/pipeline.yml` | which step a run is at; caches with immutable keys | source resolution, gate, restore, verify, fetch, save, seed, load, identity, prune, quality, validate, mark, promote, revalidate | each failed step stops what depends on it; a run killed anywhere leaves a state the next run can use | `RefreshGenerations`, `Publication`, `Serving` |
| **Staging** `pipelines/load/prepare_staging.py` | schema `analytics_staging`, a copy of production | truncate and copy | the candidate differs from production only by the source that was refreshed | `Publication` |
| **Load** `pipelines/load/load_providers.py`, `prune.py` | the candidate's clubs, players, bridges and facts | purge a source, load it, isolate failing rows, prune orphans | ids follow rows; what was fetched is loaded or counted as refused; a source's purge leaves other sources' facts | `ProviderLoad`, `Identities` |
| **Promotion** `pipelines/load/promote.py` | production's tables; `fact_source_publication`; quality contexts | check shares, swap schemas, record, roll back | a refresh is published at most once; ledger, statuses, quality and tables say the same | `Publication`, `PublishedDataset` |
| **Identity resolution** `pipelines/identity_resolution/` | player bridges, match log | match, merge, queue, apply manual decisions | no season is lost or doubled by a merge; what a person confirmed stays | `Identities`, `Matcher` |
| **Quality reports** `pipelines/quality/`, `services/quality_service.py` | `fact_data_quality` rows with a context | persist, select what serves | what readers see describes what is served | `Publication` |
| **Analytical view** `services/analytics_service.py`, `api/v1/internal.py` | one process-wide cached view and its fingerprint | build, serve, refresh, report staleness | after a reload answers come from the promoted dataset, or the staleness is reported | `Serving`, `Recruitment` |
| **Analytics engines** `app/analytics/` | none | percentiles, roles, scores, similarity, evidence, prose | a comparison says what it compares; at or above the mean of a list less evidence does not move a player up; what cannot be computed is given to nobody | `Comparison`, `Scoring`, `Similarity`, `Evidence`, `Interpretation` |
| **HTTP API for data** `api/v1/players.py`, `recruitment.py` | none | list, profile, search, replacements, opportunities | one population, one caveat and one order, whichever page asks | `Players`, `Recruitment` |
| **Accounts and sessions** `services/auth_service.py`, `api/v1/auth.py`, `frontend/src/app/actions/auth.ts` | users, sessions, cookies | register, sign in, resolve, sign out, change password | what was ended stays ended; a password change ends the sessions of the old one | `Accounts` |
| **Shortlists** `services/shortlist_service.py`, `api/v1/shortlists.py` | lists and their entries | create, rename, delete, add, note, assess, remove, compare | ceilings and reviews hold with concurrent requests; columns side by side are qualified | `Shortlists`, `Recruitment` (the comparison) |
| **Provider clients** `providers/footystats.py`, `footystats_snapshot.py`, `transfermarkt.py` | none | paging, retries, reading snapshots and files | an error is an error and not an empty answer | `FootyStatsClient`, `ProviderLoad` |
| **Frontend** `frontend/` | a fetch cache | render, revalidate | shows what the API serves | `Serving` (its cache), `Interpretation` (a bar's colours) |
| **Rate limiter** `core/middleware.py` | request times per client | admit or refuse | no more than the limit in a window | not modelled |
| **Probes and coverage** `probe.py`, `profile.py`, `denominators.py`, `quality/coverage.py` | none | print figures | none | not modelled |

### 1.2 How the parts interact

```
 cron -> resolve_source -> gate --(fact_refresh_generation)--> action, generation, revision
                              |
        cache restore -> verify_local_state -> ingest -> checkpoint -> cache save
                              |                   \-> publish_status.record -> database row
                              v
        prepare_staging -> load_providers -> identity -> prune -> quality -> validate
                              |
        mark_validated -> promote (swap + ledger + statuses, one transaction)
                              |
        reload-analytics -> build_view (cached) -> players, recruitment, shortlists, health
                              |
        site revalidate -> Next.js page cache -> readers
```

Runs share three stores that fail separately: the runner's disk (gone when the job
ends), the Actions cache (immutable keys, evicted at will), and the database. No
two of them change in one transaction. A concurrency group serialises the runs.
A person at a terminal (`generations --abandon`, `promote --rollback`) is outside
that group and can act between any two steps of a run. The API's endpoints run in a
pool of threads, each with its own transaction at READ COMMITTED, over one cached
view that no lock protects.

### 1.3 What is hard

- A refresh outlives twenty machines. Each of its runs may be killed, may fail to
  tell the database, may fail to save its cache, may be given an older cache.
- `record` is an unguarded upsert; only the verifier stands before it.
- Completeness is decided from flags, files and a verdict on the last run.
- A cache key is never overwritten, so a reused revision silently keeps old files.
- A person's commands interleave with a run that has read its state already.
- Promotion relates four tables, two schemas and a ledger.
- A purge of one provider, a load and a resolution, in any order over several
  refreshes, must leave every season on one row of the right person.
- A batch insert that is refused is halved and tried again; the ids that come back
  are matched to rows by position.
- Requests read, decide and write without seeing one another: ceilings, sessions,
  passwords, reviews, the cached view.
- A comparison that lacks peers is widened deep inside an engine, and whatever is
  made of it has to say so.

Every hazard is listed at its line in `PROJECT.json` ("hazards"), with the
properties that cover it, or the reason why none does.

## 2. The modules

| Module | Code it models | Role |
|---|---|---|
| `GenerationLifecycle` | the table of transitions at the head of `generations.py` | abstract specification: the status of each generation, as readers see it |
| `RefreshGenerations` | `gate.py`, `generations.py`, `publish_status.py`, `ingest.py`, the generation side of `promote.py`, the step order of `pipeline.yml` | the core |
| `RefreshGenerationsProofs` | | theorems and proofs about it |
| `PublishedDataset` | the head of `promote.py` | abstract specification: what readers are served, and what the ledger says of it |
| `Publication` | `prepare_staging.py`, the transactions of `load_providers.py`, `quality/report.py`, `promote.py`, the selections of `quality_service.py`, the steps of `pipeline.yml` from the seed to the promotion | the second half of a refresh, for several providers and a person |
| `PublicationProofs` | | theorems and proofs about it |
| `FootyStatsClient` | `providers/footystats.py`, `base.py` | what a call to the provider comes to; an operator library |
| `SnapshotFetch` | `ingest.py`, file by file | the files of one generation and the runs that fill them; extends `FootyStatsClient` |
| `ProviderLoad` | `footystats_snapshot.py`, `transfermarkt.py`, `load_providers.py`, the checks of `pipelines/quality/` | a load of either provider; extends `SnapshotFetch`, so that it loads what was fetched |
| `ProviderLoadProofs` | | theorems and proofs about both |
| `Matcher` | `matcher.py` | a pair's confidence and the margin; an operator library |
| `Identities` | `resolve.py`, the purges of `load_providers.py` | rows, bridges and facts over several refreshes; extends `Matcher` |
| `IdentitiesProofs` | | theorems and proofs about it |
| `Serving` | `analytics_service.py`, `internal.py`, `health.py`, the last step of `pipeline.yml`, `frontend/src/lib/` | how a promoted dataset reaches a page |
| `ServingProofs` | | theorems and proofs about it |
| `Accounts` | `auth_service.py`, `api/v1/auth.py`, `actions/auth.ts` | one account, its sessions and cookies |
| `AccountsProofs` | | theorems and proofs about it |
| `Shortlists` | `shortlist_service.py`, `api/v1/shortlists.py`, `models/shortlists.py` | lists and players, requests that overlap |
| `ShortlistsProofs` | | theorems and proofs about it |
| `Comparison`, `Evidence`, `Scoring`, `Similarity`, `Interpretation` | `app/analytics/` | the engines, as operators |
| `Players`, `Recruitment` | `build_view`, `api/v1/players.py`, `recruitment.py`, the comparison of `shortlists.py` | the view and every answer made from it; the state machine is in `Recruitment` |
| `RecruitmentProofs` | | theorems and proofs about `Recruitment` |
| `MC...` | | the instances for TLC: constants, symmetry |

### 2.1 RefreshGenerations

| Variable | In the code |
|---|---|
| `db` | the rows of `fact_refresh_generation`: status, revision, complete flag, completed players |
| `ledger` | `fact_source_publication`, FootyStats rows, oldest first, with what the promoted dataset asked for and holds |
| `cache` | the Actions cache entries `footystats-gen-<id>-r<revision>`, per generation |
| `nextGen` | the timestamp that names the next generation |
| `configured` | the competitions `config/competitions.yaml` asks for |
| `pc`, `job` | the workflow step the current run is at, and the gate's outputs |
| `diskGen`, `disk`, `lost` | the runner's generation directory: metadata, rosters, progress; the competitions whose snapshot the restore did not bring |
| `report` | `RunReport` of `ingest.py` |
| `loaded` | what the candidate holds after the load |
| `faults` | how many adverse outcomes this behaviour has had |

Each action is one step of the workflow or one command, whole: `GateResume` and
`GateStartNew` (`gate.py` `decide_from_state`), `Restore` (cache restore),
`VerifyRefuse`, `VerifyEqual` and `VerifyNewer` (`verify_local_state` and
`reconcile_forward`), `CreateGeneration`, `RosterRefused` and `FetchPlayers` (one
competition's visit with its bookkeeping and its `record`), `OutOfTime`,
`FinishFetch` (the verdict, the checkpoint, the last `record`), `SaveCache`,
`LoadAndCheck`, `MarkValidated`, `Promote`, and from outside `Crash`, `Evict`,
`ExcludeCompetition`, `Abandon`, `AbandonOnDisk`, `Rollback`. `map` in `PROJECT.json` names the
lines of each.

A step that can fail has its failing disjunct, labelled with a kind: `Adverse(k)`
is enabled when the instance explores kind `k` and the budget `MaxFaults` is not
used up. "database" is a write or a read that does not reach the database and
whose caller goes on; "torn" a restore without some snapshot file; "player" a
player request that fails; "roster" a roster request that fails; "refused_key"
the 401/403 that stops a fetch; "deadline" a run that ends before it fetched
anyone; "save" a cache save that fails; "check" any candidate check that refuses;
"promotion" a promotion that fails and rolls back; "crash" the job is killed;
"evict" the newest cache entry is dropped; "exclude" a competition is excluded
by an edit of the configuration.

Abstractions: a player is a unit in a count, because nothing in this component
tells two players of a competition apart; competitions are visited in any
order; the load and the checks after it are one step.

`generations --abandon` has two branches. From a machine without the directory
(`Abandon`) it fails the row of a live generation and nothing else. Beside the
directory (`AbandonOnDisk`, `generations.py:675-680`) it fails the copy on disk
from any status and writes its whole row over the database's. The copy is one of
the generation's saved checkpoints, possibly an old one, which is what a person
can have downloaded or kept.

### 2.2 Publication

| Variable | In the code |
|---|---|
| `serving`, `staging` | the schemas `analytics` and `analytics_staging`: of each provider, the refresh its data came from and its number of player-seasons |
| `ledger` | `fact_source_publication`, oldest first; `at` stands for `published_at`, counted in runs of checks |
| `quality` | `fact_data_quality`, one element per run of checks: provider, refresh, context |
| `made` | the refreshes made so far, numbered in order, with their provider |
| `gen` | the status column of `fact_refresh_generation` |
| `run` | the workflow's run: the step it is at, the provider and the refresh it works on |
| `hand` | a promotion a person started, between what it read and its transaction |
| `faults`, `commands` | how many adverse outcomes and commands this behaviour has had |

A run is `BeginGeneration` or `BeginDownload`, `Seed`, `Load`, `Identity`,
`Quality`, `Validate`, `Mark`, `PromoteCheck`, `PromoteCommit`; each can fail, and
`Crash` ends it before any of them. `Rerun` is a finished job run again. A person
gives `HandCheck` and `HandCommit` (`promote --apply`, with or without a refresh,
with or without `--force`), `Rollback`, `Abandon` (a live row), `AbandonOnDisk`
(a row of any status, a published one included) and `HandReport`. "check" is any
step that refuses or fails, "database" a promotion transaction that is lost,
"rerun" a re-run, "crash" a job that is killed.

A promotion has two steps because `promote.py` has two: it reads the counts and
the ledger on connections it closes, and decides the rest in one transaction.
What it reads on them is one step here, since nothing it decides depends on
their order.

Abstractions. The load, the seed, the swap and each persisted run of checks are
single steps, as their transactions are: a person who swaps the schemas in the
middle of a load is outside the model, and so is a person who loads straight into
production once it serves readers. `published_at` is taken in the order of the
commits. Two providers stand for any number: one with generations, one without.
`Init` is a production that was filled by hand before publications were recorded,
which is how `docs/deployment.md` says it is set up and why migration 0010 starts
with an empty ledger.

### 2.3 SnapshotFetch and ProviderLoad

`RefreshGenerations` counts players; these two follow them one by one through the
files of a generation and into the database.

| Variable | In the code |
|---|---|
| `offered`, `appeared` | the provider's rosters, and the competitions it has figures of a player in |
| `snapshot` | `season-N.jsonl.gz`: its gzip members, closed or torn, and their lines |
| `progress`, `roster`, `clubs`, `finished` | the other files of the competition, and `competitions_complete` |
| `run` | the process of `ingest.py`: its step, its buffer, what it has flushed |
| `market` | the Transfermarkt dataset on disk |
| `db` | one schema: players, bridge, seasons, valuations, transfers, clubs, checks |
| `ended` | the last load and what became of it |

`StartRun`, `Visit` (the roster, page by page, and the file's header),
`FetchPlayer` (one player, with the flush and the progress every `CheckpointEvery`),
`Close`, `StopBetween`, `EndRun`, and from outside `Kill` (what was written and
not flushed may have reached the disk or not) and `Move` (the provider lists one
more player). `Load` is one transaction, written as a chain of operators from the state of
the load to the next, one for each method of the loader: purge, competitions,
clubs, players, seasons, valuations, transfers, checks. `InsertIsolating` is the
halving insert as a recursive function; `IdOfEach` is the match of returned ids to
rows by position. A load commits, is rolled back by a check or ends in an error.

### 2.4 Identities and Matcher

`row`, `bridge`, `manual`, `stands` (the row a player's season stands on), `values` are
tables; `mapping` is `player_mapping.csv`; `evidence` is what two descriptions share,
chosen anew by each load; `played`, `sharing` are history. A refresh is
`LoadPerformance` or `LoadIdentity` (the purge and the load) and then `Resolve`: the
verdicts, the merges planned in the order of two unordered queries, the collisions
against what the batch has accepted already, and the writes (statistics,
mappings, deletions). `Edit` is a person's change of the file between refreshes.
`Matcher` has `score_pair`, `_candidates` and the margin with the confidences in
hundredths; how alike two spellings are is an input.

### 2.5 Serving

`Load`, `Promote`, `Refuse`, `Rollback`, `Report` are the database. A thread of the API
answers a page, a reload or any other request: it calls `get_analytics_view`, and
when nothing is cached it runs the queries of `build_view` one at a time
(`Query`), each of which reads whatever serves then, and stores the result if
nobody did before (`Built`, as `lru_cache` does). `ReloadClear` and `ReloadAnswer` are the two
halves of `reload_analytics`. The publishing step of the workflow is `PostReload` and
`Revalidate`; `Timeout`, `Kill`, `Restart` are its failures. `page` stands for every page
of the site: `Visit` fetches a stale one behind a reader, `Expire` is its hour.

A ledger row has the dataset and the time of its checks. History: a view remembers
which datasets its tables were read from and what served when its last check was
read, which is what the properties compare with its fingerprint; `told` is the dataset
the pipeline was told was reloaded, until another is promoted or rolled back to;
`restored` notes a rollback. A rollback swaps back whatever staging holds: when that is
a candidate loaded since (`Strayed`), the readers' data is not what the ledger names.

### 2.6 Accounts

A form of a browser is relayed by Next.js to a worker of FastAPI; the worker's
request goes through `Register`, `Authenticate`, `Resolve`, `Read`, `SelectOwn`,
`SelectAll`, one `WriteRow` per UPDATE and `Commit`. A row that is written is locked until
then, so requests wait for one another and `Victim` breaks a cycle. `GiveUp` is a call
Next.js no longer waits for, `Tick` the clock, `Retune` a release with other hash
parameters. Every query filters by token or user, so one account is enough; a
password is the number of its version, and a session remembers under which one it
was opened. A request that ends sessions remembers which were usable when it looked
(`ending`), whatever it then selects: that is what its answer promises.

### 2.7 Shortlists

A request of a person is a check (`CheckCreate` ... `CheckEntry`: everything it reads and
decides) and a write (`CreateList` ... `RemoveEntry`: flush, constraints, commit),
with other requests in between. The comparison reads a list and then only asks the
view; it is a request of `Recruitment`, where the view and the percentile engine are.

### 2.8 The engines and Recruitment

`Comparison` (rates, populations, mid-rank percentiles, widening, caveats), `Evidence`
(shrinkage), `Scoring` (composites, intelligence scores, roles, presets),
`Similarity`, `Interpretation` (the sentences of a profile, as codes) and `Players`
(the pages) are operators over exact fractions and whole numbers out of `Hundred`,
which is chosen so that every division that occurs is exact. `Recruitment` is the
state machine: a load of the database is read row by row in every order
(`SkipUnknown`, `SkipWithoutPosition`, `ReadShown`, `ReadSuperseded`), `Build` makes the
view, and one request is answered: `RecruitmentSearch`, `ReplacementSearch`,
`Opportunities`, `List`, `Profile`, `Scores`, `Compare`. A comparison is of any players
a list may hold, some of whom the view may no longer know, in one of the three scopes;
each metric of each column carries the population it was ranked among, which the engine
may have widened for that metric alone. A request changes nothing and depends on the view
alone, so one is enough.

### 2.9 What each run checks

Passing runs:

| Run | Instance | Shows |
|---|---|---|
| `automation` | 2 generations, 2 competitions, 2 adverse outcomes of 11 kinds, nobody at a terminal | one universe open at a time; a checkpoint's cache key is fresh; ledger, statuses and the generation the status panel names agree; the revision in the database never goes back; the statuses follow `GenerationLifecycle` (refinement) |
| `publication` | 1 generation, rosters of up to 2 players that grow, one failure the pipeline repairs by itself, fairness of the runs | between runs the database's checkpoint can be restored; every live generation is published |
| `recovery` | 1 generation, crashes, evictions, torn restores, failed saves and refused keys, a person who abandons, with or without an old copy of the directory, and rolls back; `AttendedSpec` | only whole universes are promoted; a live generation leaves the live statuses |
| `refresh_cycle` | 4 refreshes of 2 providers, 2 failures, crashes or lost transactions, nobody at a terminal | readers are served what the ledger's newest row of each provider names, one provider changes at a time and no refresh is published twice (`PublishedDataset`, by refinement); the page shows the checks of what serves and, as a candidate, only a refresh that is waiting |
| `terminal` | 2 refreshes, a failure or a re-run, 3 commands of a person at any step of a run | a refresh has one ledger row; quality contexts follow the ledger; statuses and ledger move together, but for a generation abandoned beside its directory, which is FAILED and keeps its row. What is served is not among it (section 2.10) |
| `load` | 2 runs of a fetch of 3 players in 2 competitions, one roster move, stops, kills, misses; a load of either provider over an earlier one | ids follow the rows the database kept; what was fetched is loaded; every refused row is counted; a player called done can be read back |
| `identities` | 2 players of each provider, 2 seasons, 3 refreshes in any order, 2 edits of the mapping file | no season is lost or doubled; seasons stand where their mapping says; valuations are of one load; what a person confirmed stays |
| `serving` | 2 promotions, 2 threads, one restart, kill, timeout, report or rollback; fairness | an out-of-date view is reported; a reload takes effect unless an older build beats it; a reloaded dataset reaches the readers' page |
| `recruitment` | 4 players, 2 competitions, 3 metrics, 2 scores, 2 roles; the listed loads in every order, then one request | a player counts once across competitions; a wider comparison is declared; columns of one season that are ranked against different populations come with a caveat; replacements are scored on the same parts; at or above the mean of a list less football does not move a player up; what cannot be produced is given to nobody |
| `accounts` | 2 browsers, 2 workers, 2 sessions, 2 passwords, 2 ticks, one call given up or retuning | every session that a request was to end has ended when the answer says so, for a sweep every one that was usable when it looked; only sign-ins that ran beside a password change survive it; only sweeps deadlock; an older password comes back only by a rehash |
| `shortlists` | 2 people, 2 workers, 3 players, 5 requests, ceilings of 1 | the ceilings of lists and of players on a list are passed by no more than the requests that overlap; a review survives a note |

`below_average` shows where the code departs from what a comment of it says:
`interpretation.py:24-27` promises that the prose and the colours of the percentile bar
cannot tell a reader different things, and a profile in which a role stands at 62 %
reads "below-average output" beside a bar painted as middling.

### 2.10 Other departures met while modelling

They were found while reading for a model, or by TLC with a model of this project
and a property that is no longer among the runs.

Refreshes:

- The verifier's reconciliation takes a row out of FAILED (`publish_status.py:225`), and a
  run in flight revives a generation that was abandoned under it (`:74`).
- An abandonment beside the directory asks nothing of the row it overwrites
  (`generations.py:679`): a published generation becomes FAILED with its ledger row left
  and its data served, and an old copy takes the row's revision back, so that the next
  run's verifier compares with the wrong one. `docs/data_publication_lifecycle.md:81` has
  "any live -> FAILED", the head of `generations.py` (`:65`) "any -> FAILED", and the other
  branch of the same command moves a live row only. `StatusFollowsLedger` names the case;
  `RevisionNeverRegresses`, `LedgerAgreesWithStatus` and `ImplementsLifecycle` are checked
  with nobody at a terminal (`automation`), and the theorems say which commands they allow.
- A rollback, once another run has seeded staging, serves something else than the
  ledger then says (`promote.py:513`); a promotion by hand publishes, under the name of a
  generation, a staging that does not hold it. `LedgerDescribesServing` therefore has
  no rollbacks and no promotions by hand (`refresh_cycle` has `Operator = {}`), and no
  property describes what is served once a person has swapped the schemas.
- A rollback while a newer generation is live, or between the gate and the creation of one,
  makes two live ones, and every gate answers ERROR until one is abandoned
  (`promote.py:424`). `recovery` has one generation for that reason, and
  `OneOpenGeneration` assumes that nobody rolls back.
- A published Transfermarkt job, run again, is announced as a candidate that waits.
- The completeness flag of a new generation is true after its first competition
  (`generations.py:455` counts against the competitions met so far, not the
  configured ones). Only the last evaluation of a run, with the run's report,
  decides anything. `completed_players` counts what this run reached, so it can go
  down (`ingest.py:911`). Excluding an unfinished competition lets a run emit
  `complete=true` with its generation IN_PROGRESS (`ingest.py:916`), which
  `_generation_to_load` then refuses at every run.
- The row counts of a promotion are read before its transaction, so a promotion
  by hand can swap in a staging that shrank after it was counted.
- Rows persisted by hand between the checks of a candidate and its promotion are
  newer than them, and are shown as the checks of the promoted dataset
  (`report.py:615`). `ShownChecksDescribeServing` has no reports by hand.

Fetch and load:

- A negative amount in a Transfermarkt row is refused by the schema
  (`schemas/market.py:148`, `:170`, `:192`) while the records are made, before the isolating
  insert, and ends the load, although its docstring sets out to prevent "one
  impossible value costing an entire refresh" (`load_providers.py`). In the model it
  is the load's result "error".
- A gzip member that a killed run left unfinished, with another appended by a
  resumed run, is unreadable, and the reader catches `EOFError`, `BadGzipFile` and
  `OSError` but not `zlib.error` (`footystats_snapshot.py:155`). `FinishedIsReadable`
  has `Legible` for that.
- The failure ledger is cleared from the flat progress file and not from the
  generation's (`ingest.py:501`), so players that healed stay in it. Nothing decides from it.
- Facts of a refused player are skipped and not counted as refused themselves; the
  player is. `publish_status.reconcile_revision` has no caller.

Identities:

- A pair whose file entry is corrected after a merge has its old row deleted with
  what the wrong person had on it (`resolve.py:284-309`); two performance players
  mapped to one person share a row, after which an edit of one moves both
  (`sharing` excludes them from two properties).
- `matcher.py:52-55` asks for a lead of at least 0.05; 0.95 against 0.90 is
  0.04999... in floating point, and is AMBIGUOUS. `Clear` has it so.
- `load_universe`'s `source_keys` keeps one of two performance players that share a row.

Serving:

- A build that was under way when a reload cleared the cache can store its older
  view afterwards (`analytics_service.py:506`); `/health` reports it. `/health` is
  blind in three cases: a report written by hand that is newer than the candidate's
  checks, when the counts are equal; a rollback that restores the fingerprint of
  a view built over the promotion it undoes; and a rollback that finds a candidate
  in staging instead of the earlier dataset, which then serves under the earlier
  one's fingerprint. Nothing bounds the number of builds at once.
- `last_seen_at` is written and not committed by requests that only read
  (`auth_service.py:299`), so a person who only reads is signed out by the idle
  timeout. A sign-in that rehashes beside a password change brings the old password back.

Shortlists and pages:

- Saving a player twice at once answers 503 to the second, though "saving one that is
  already saved is not an error" (`api/v1/shortlists.py:239`).
- A comparison chooses its caveat from the scope that was asked for, and the engine ranks
  by the one it could fill. Columns of two competitions that were both widened to one
  population carry the caveat that `shortlists.py:440-442` calls worse than none;
  `ComparisonQualified` has `Widened` for that. Columns of two seasons are never ranked
  together and nothing says so (`percentiles.py:505`); the property is about columns of one
  season. The role in a column is that of the player's own competition in every scope
  (`:383`). In the scope `league_group`, which the route accepts, the engine is given no
  competitions and raises (`percentiles.py:496`): the request fails.
- `reliability.py:39-41` explains the order of rankings by an example in which the
  better player wins; below the mean of the list less football moves a player up.
  `EvidenceOrder` is about the upper half for that reason.
- `recruitment.py:377` blames the provider for a metric that had too few peers, and so do the
  lines about unavailable metrics in a profile; a score with few events behind it is kept out of the
  strengths and not out of the weaknesses; the list of replacements is cut before the
  filters are applied; the scope `league_group` on a player's statistics, and an
  opportunity without minutes, answer 500; a profile reads its market values from the
  database (`players.py:1088`) and the rest from the view, which may be of another dataset.

Rate limiter (not modelled): a client that waits for exactly `Retry-After` is refused
again, as the seconds are truncated and a hit leaves the window only after it;
the table of clients is never pruned.

### 2.11 Bounds

- Two competitions: a competition that is whole and one that is not are the two
  cases every decision distinguishes; the competitions are symmetric, so
  `automation` uses `CompSymmetry`. Liveness runs use no symmetry.
- `MaxGen` 2: one generation that is live or finished and a successor; a third
  repeats the second. 1 in the two liveness runs of this module.
- `MaxRoster` 1 or 2: 1 tells a missing player from a present one; 2 lets a roster
  grow under a generation that had already finished with the competition.
- `MaxRev` stops resuming from that revision. It is 9 or 20, which no run reaches
  within the fault budget.
- `MaxFaults` 2: one adverse outcome creates the divergence of two stores, and a
  second one strikes the repair. 1 in `publication`, `serving` and `accounts`, where several
  actors interleave already.
- `MaxRefresh` 4 in `refresh_cycle`: each provider can have a refresh that gets stuck
  and one that is published after it, in either order. 2 in `terminal`, where the
  interleaving with a person is what matters. `MaxCommands` 3: promote, roll back and
  promote again, or any other three. `MaxChecks` bounds the persisted runs of checks:
  7 lets four refreshes run to the end. `Rows` {0, 2, 3, 4} with production at 4:
  empty, below, at and above three quarters.
- `load`: pages of one row, so that a roster has several and may change between two;
  batches of two, so that a refused row has a neighbour; a checkpoint every two
  players, so that a kill can find one unflushed; a second run, so that a file is
  resumed; one roster move; players whose figures contradict, are refused by the
  database or lie in two competitions; one earlier load with a resolved player.
- `identities`: two players of each provider, so that two may be taken for one and
  collide; three refreshes, so that each provider reloads over the other's
  resolution; two edits, to confirm and to correct; two copies of a row, as the old
  and the new load of a player are never more.
- `serving`: two threads, so that a build that began before a reload may end after
  it; two promotions; three times of checks, one more than promotions.
- `recruitment`: four players, so that a population of the minimum size 2 and one
  that is too small both occur; a player in two competitions, with minutes on either
  side of another row's or unknown; a player without a position; a load that
  lacks a metric altogether. For comparisons two pairs of players, of one or two positions,
  competitions and seasons, so that columns share a population, are ranked in two, or are
  widened to one. `MaxCompare` 3: two columns that agree and one that does not.
  Competitions are told apart by name, as the caveat does.
- `accounts`: two ticks with an idle timeout of one and a lifetime of two tell a
  slide, an idle and an expired session apart; two sessions are those of a sweep and
  of a sign-in beside it.
- `shortlists`: ceilings of one, so that two requests are enough to pass them, to two;
  names, lists and players for three, so that either ceiling could be passed by more than
  the property allows; five requests fill a list and then race on it.
- `CHECK_DEADLOCK FALSE` everywhere: the histories are bounded, so an instance ends
  once its last refresh, request or tick is used up; and a gate that answers NOOP or
  ERROR changes nothing, which is a stuttering step. What would be a deadlock of the
  system itself is a property: `LiveSettles`, `OnlySweepsDeadlock`.

### 2.12 Fairness

`FairSpec` of `RefreshGenerations` is weak fairness of `RunStep`, the disjunction of every step
of a run: the cron fires again whatever became of the last run, and GitHub executes the
steps of a job. It does not promise that a particular request is answered or a
particular outcome is taken; failures are bounded by `MaxFaults`, which is what
"a finite number of failures" means here. `AttendedSpec`, of `recovery`, adds that a person
who can see that no run can resume a generation abandons it in the end: the code's
own refusal messages name that command. `LiveIsPublished` does not hold with
crashes, evictions or failed saves, because the row reaches the database before
the cache is saved: those kinds are in `recovery` and not in `publication`.

`FairSpec` of `Serving`: each thread goes on with its request (a worker thread is
scheduled), the workflow executes its publishing steps, a page expires after its hour
(the clock), all weakly fair; and readers keep coming, which is strong fairness of
`Visit`, as a visit has to wait for a free thread. That a promotion is ever made is
not assumed.

## 3. The proofs

`RefreshGenerationsProofs` proves, for every finite set of competitions, every
bound and every choice of faults and commands (from the five assumptions on the
constants in `RefreshGenerations`, four of which only say that a bound is a natural
number):

1. `TypeCorrect`: `Spec => []TypeOK`, one lemma per group of actions. `TypeOK` also
   says which steps have a generation, which the functional updates need. It is
   proved and is not among the runs' properties.
2. `RevisionsNeverRegress`: `Spec => RevisionNeverRegresses`. The property is not
   inductive: `record` writes whatever revision the disk has. `RevisionInv` adds
   that a run's disk is never behind the row of its generation, that while a run
   restores and verifies the row is still at most at the revision the gate read,
   and that a generation not yet created has no row. It holds as long as only
   the run itself changes a row's revision. A rollback and an abandonment of what is not
   on disk do not; an abandonment beside the directory writes the revision of the
   copy, so the theorem assumes that nobody gives that command
   (`"abandon_disk" \notin Operator`).
3. `OnlyWholeUniversesPublished`: `Spec => []NoPartialUniversePublished`, with
   competitions excluded at any time too. The strengthening `WholenessInv` says
   that every checkpoint, on disk or in any cache, is *honest*: a competition it
   calls finished has all its players, one never visited has none, and a status
   past IN_PROGRESS means that every configured competition is finished; that a
   run that has met no incomplete competition has visited every one it does not
   still have to visit; that what a working run calls finished was not lost in the
   restore; and that the loaded candidate is the whole of a whole generation. It
   is needed since a promotion trusts a flag set by another run on another
   machine, carried by a cache.

Then what the statuses promise; each theorem has an invariant of its own and uses those
before it:

4. `KeysAreFresh`: `Spec => []CheckpointKeyIsFresh`, whatever fails and whatever a
   person does; it does not rest on the database's revisions. `CacheInv`: what a run restored is its generation's newest
   checkpoint, and revisions rise along a generation's saves; so the next revision
   is above every saved one.
5. `OneOpenGeneration`: `[]AtMostOneLive`, if nobody rolls back. `OpenInv`: from the gate's
   answer to the end of its run nothing but the run's own generation is live, although
   its row may not exist yet.
6. `StatusesFollowTheTable`: `Spec => ImplementsLifecycle`, the pipeline's half of
   `GenerationLifecycle` (`Unattended`), if nobody types commands, whatever fails. `StatusInv`: a saved checkpoint that is as new as a row which says finished says
   so too, so the verifier lets none through that would take the row back; and a run
   fetches only for a row that is IN_PROGRESS or not there. Each write of a row is then
   a step of the table or a stutter. With an abandonment under a running fetch it is false
   (section 2.10).
7. `LedgerAgrees`: `[]LedgerAgreesWithStatus`, if nobody rolls back or abandons beside the
   directory, either of which moves one of the two without the other. `LedgerInv`: the
   ledger's generations are the PUBLISHED ones, each once and in the order of their
   ids, and what is open or about to be is newer than all of them; the last part is what
   makes the newest PUBLISHED row the last publication, as the status panel assumes.
8. `LiveCanBeRestored`: `[]LiveIsRestorable`, with any commands, unless a job is killed, a
   save fails or an entry is evicted (`Undamaged`; with one of them it is false, because
   the row is written before the cache is saved). `KeptInv`: every generation with a row
   has a saved checkpoint that is not behind the row, but for the one that a run is
   fetching or about to save.

`PublicationProofs` proves, for every nonempty finite set of providers, every
bound, and every choice of faults, from the four assumptions in `Publication`:

1. With every command a person may give: `TypeCorrect`, `RefreshPublishedOnce`,
   `QualityAgreesWithLedger` and `StatusAgreesWithLedger`. They follow from one
   invariant, `Records`. `StatusFollowsLedger` says of every step that status and ledger
   move together unless an abandonment beside the directory fails a published
   generation. It does not follow from itself: a rollback frees the
   generation of the row it deletes, which is right only if no other row names that
   generation (`GenerationOnce`), and a generation that begins must not have been
   PUBLISHED before (`GenerationsAreMade`). That a second row for the same
   generation cannot appear needs the two status checks of the promotion, since the
   row's generation is live when it is written and PUBLISHED, or abandoned, afterwards.
2. While nobody rolls back or promotes by hand (`NoSwapByHand`, the two cases in
   which TLC refutes it): `ServedIsRecorded`, and `PublicationImplements`, the
   refinement of `PublishedDataset`. The invariant `Aligned` adds what staging holds
   at each step: from the seed to the load what is served, from the load to the
   swap the same with the run's own refresh of its own provider. It is needed
   since the swap serves whatever staging holds; the seed establishes it, and no
   run relies on what an earlier one left behind. Abandoning a generation and
   reporting by hand are allowed in both.
3. If in addition nobody persists a report by hand and no finished job is run again
   (`Unattended`, the cases of section 2.10): `PageDescribesServing` and `CandidatesWait`,
   what the quality page shows. The page takes newest rows of two tables by time, so
   `PageInv` puts them in order: a provider's checks follow the order of its refreshes,
   those after a publication are of a newer refresh than it, what serves is among what
   the page takes for served, and a run's refresh is the newest made.

`ShortlistsProofs` proves, for any people, any finite sets of players and workers and any
ceilings, every property of `shortlists`: `CeilingsAreHeld`, `NotesKeepTheReview`. A
ceiling bounds nothing by itself, since a count is old when the row is inserted.
`CeilingsInv` adds to the rows of a person or a list the requests that have counted them
and not written yet: a check enters that sum only below the ceiling, a write moves from
one part to the other, and a request can be in it only beside the others, of which there
are `Cardinality(Worker) - 1`.

`AccountsProofs` proves, for any browsers, any finite set of workers and any timeouts,
every property of `accounts`: `EndsAreAnsweredAfterwards`, `ChangesEndOlderSessions`,
`DeadlocksAreOfSweeps`, `OnlyRehashesGoBack`. At READ COMMITTED everything rests on what a
request's first read can still say at its commit, and `AccountsInv` follows that: that each
session it is to end is revoked or in its hands from its SELECT to its COMMIT; which
rows it has written and has yet to write at each step, what the row of its session and
the password can have become since, and that no two requests have written the same
row. `RoomLeft` says that the bounds on tokens and passwords never run
out under a request that was let in. Proving changed two definitions of the model that
the small instance had not told apart: a deadlock is a set of requests each of which
both waits for one of the set and is waited for by one; and a session is also `missed` if a
sign-in beside it is about to put an older password back.

`IdentitiesProofs` proves, for any finite sets of players, any seasons and refreshes and any
edits, every property of `identities`: `SeasonsAreKept`, `SeasonsStandOnce`, `SeasonsFollow`,
`ValuationsAreOfOneLoad`, `ConfirmedPairsStay`. The merges of a resolution are written together and
delete what they move, so one that reads what another wrote could lose a
season. `IdentitiesInv` has `Apart`: after a load the players of one provider are
on fresh rows, so no row is both moved from and moved to. The batch decides
in an order, each merge against those accepted before it. `Batch` is a recursive
function, and that its merges collide nowhere is proved without induction: of the places in the
order where the claim fails there would be a least one (`WFMin`), and there it does not fail.
`Batch` came out of `Resolve` as a definition of its own for that.

`ServingProofs` proves, for any finite set of threads and any number of promotions,
`OkIsBelieved` and `ReloadsTakeEffect`. A fingerprint is a count and a time, so
`ServingInv` says which dataset a time can stand for: the ledger's rows grow in time
and in dataset; a dataset that is neither served nor staged never comes back, so a
view of several datasets has one that is gone and a fingerprint older than the next;
no view has a candidate's time; and a view read since the pipeline's reload was answered is of
what that answer was about. Trying to prove the two properties as they were stated showed
both to be too strong beyond the instance: the rollback onto a candidate (section 2.10), and a
reload answered for a dataset that a later rollback takes away. They now name those cases. With the
first left out TLC finds it with three loads and two faults, one more of each than `serving` has.

`ProviderLoadProofs` proves every property of `load`, for any competitions, rosters, figures,
datasets, batch sizes, faults and bounds.

1. `FinishedStaysReadable`. `FilesInv` adds to the property that what an open run will record is
   in its file or among its lines, and that lines flushed stay. A member appended to a
   torn file makes it unreadable for good, which is the case the property leaves out; so of a
   file that can be read after an append all members were closed before it.
2. `IdsAlwaysFollow`. It needs nothing of how a batch is halved, since the ids are matched with the rows
   kept, and of a purge that it leaves the rows another source's bridges name.
3. `InsertIsolates`, on what the halving insert computes: the batches partition the
   rows, the halves partition a batch, so every stored row is kept once, every refused one
   counted once, and the load given up exactly when a row fails otherwise. The
   recursive function is first shown to exist, and to be right, by the shortest span
   on which it would not be (`WFMin`).
4. `EveryRefusalCounted`. A load starts from a purge that leaves nothing of the source
   (`Fresh`). Then each stage adds what it kept and counts what it refused: after the
   players the count is those listed less those bridged, and each competition adds
   its own. That the sums of the check agree with this needs that no row is counted twice: a page
   or a header merged into a roster lists a player once (`OneRow`), a season is read once in a
   competition, and the `Scope` names each competition once. `LoadInv` carries the
   count, and `FetchTyped` what the files can hold: rows of rosters, lines about
   players, nobody done who is not expected, and every competition finished in a
   complete generation.
5. `FetchedStaysLoaded`. With `FilesInv`, whoever is done is on a roster that is read and has a
   line in a file that can be read; no such row is refused for its birth or height, so the
   player is bridged; and the season is among those due, so it is in the schema
   unless its figures are refused. `KeptInv` is the property of the last load alone: a complete
   generation is not fetched again, so nothing it speaks of changes before the next load.

Assumed of the constants: that `IdsFollow` holds of the database the first load
finds, whose ids and checks are numbers and a list (`PriorAssumption`); that a dataset is a
list of players (`MarketAssumption`, read from a CSV); that a competition is configured once and
a listed row is about a player or about nobody (`RosterAssumption`: no season id is in
`config/competitions.yaml` twice; a row has an id or `get_players` drops it). TLC evaluates them in
`load`. Selections of a sequence are written with `Where`, by the places selected, since
`SelectSeq` takes an operator that the provers cannot expand.

`RecruitmentProofs` proves every property of `recruitment`, for any players, rows, metrics, scores,
roles, weightings and requests.

1. `PlayersAreRankedOnce`. The invariant `ReadInv` is the first half of `RankedOnce` with two facts it
   lacks: a player of whom nothing is shown has no row in the population, and no row is
   read once a view was built, so the engine of the view holds rows of the population only.
2. `UnproducibleAreNobodys`, `CaveatsTravel`, `EvidenceOrders`, `ReplacementsAreComparable`,
   `ComparisonsAreQualified`. The
   properties are about an answer; `AnswerInv` adds to `ReadInv` that the view is what `build_view`
   makes of the rows that were read, and the answer what one of the requests makes of that
   view (`AnswerIs`). What is left is about what the engines compute: a population, a
   percentile, a weighted average, a fit normalised over its group, a list sorted and
   cut. A fold over a set is a choice of a recursive function, so for each its existence
   is proved first, and then what holds of it, by the set for which it would fail and
   that has the fewest elements (`Least`, `Smallest`). An order in which a list is sorted is
   proved to be one, so that the choice of a sorted list is not empty.

   `UnproducibleAreNobodys`: a score that is below its floor with every figure anybody has is
   below it for each player, who has no more of them, since weights are positive; and a
   search needs all that it asks for.
   `CaveatsTravel` follows a wider comparison from a percentile through score, role and search.
   `ComparisonsAreQualified` looks at the three ways in which the populations of two columns
   can differ: position, season and, unless a metric was widened, competition. Columns of one
   season that differ in one of the others make the caveat's set of positions or
   competitions have two elements (`TwoAreMore`), and the converse.
   `EvidenceOrders` is arithmetic: `ranked` is a mean of the raw value and the mean of the list,
   weighted by evidence, so above the mean more evidence does not lower it.
   `ReplacementsAreComparable`: a score is given only where every required part is there.

   Assumed of the constants: finite sets of metrics, scores, roles and players; every weight of
   a definition above zero, as `scores.py` and `roles.py` give them; floors in percent;
   the populations and `Established` above zero; a set of competitions is not `None`; ids of competitions, minutes and values whole
   numbers or unknown; and no name of both a metric and a score. TLC evaluates
   all of them in `recruitment`.

Only model-checked, and why:

- `LiveIsPublished`, `LiveSettles`, `ReadersCatchUp`: temporal properties under fairness, outside the
  prover's reach, as is ENABLED.

## 4. Plan

| # | Module | State | Left | Theorems worth proving |
|---|---|---|---|---|
| 1 | `RefreshGenerations` | modelled, checked, all its safety proved | the filesystem-only decision of development | |
| 2 | `Publication` | modelled, checked, all its safety and the refinement proved | | |
| 3 | `Shortlists` | modelled, checked, proved | | |
| 4 | `Accounts` | modelled, checked, proved | | |
| 5 | `Serving` | modelled, checked, its safety proved | | |
| 6 | `Identities` | modelled, checked, proved | the review queue | |
| 7 | `SnapshotFetch`, `ProviderLoad` | modelled, checked, proved | the demo provider; the prune | |
| 8 | engines, `Players`, `Recruitment` | modelled, checked, proved | paging, reference lists | |

## 5. Not modelled

- The rate limiter (section 2.10): a list of instants per client, whose one property is
  its one guard.
- Probes, profiles and coverage reports: they print figures and change no state.
- The mapping of provider fields to records and the derivation of the metrics, some
  hundred lines of one field each: a model of them would be a copy. So are the
  schemas of the API.
- How alike two spellings of a name are (`name_similarity` and what it calls): an input of `Matcher`.
- The mock provider and the demo pipeline; the filesystem-only decisions that the gate
  allows in development; the failure ledger, the review queue and the match log, which
  nothing reads back; the prune after a resolution, for which the model makes no
  orphans.
- The download of the Transfermarkt files and their CSV dialect; the frontend's
  rendering; migrations and infrastructure.
