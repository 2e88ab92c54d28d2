----------------------------- MODULE Publication -----------------------------
(***************************************************************************)
(* How a refresh reaches readers.                                          *)
(*                                                                         *)
(* Two schemas hold a whole dataset each.  A run copies the serving one    *)
(* into staging (prepare_staging.py), replaces one provider there          *)
(* (load_providers.py), checks the result, and swaps the schemas           *)
(* (promote.py) in the transaction that writes the ledger, flips the       *)
(* quality rows and moves the generation.  A person may roll back, promote *)
(* by hand, abandon a generation or persist a report at any moment: the    *)
(* workflow's concurrency group does not cover a terminal.                 *)
(*                                                                         *)
(* Abstractions: the data of a provider is the refresh it came from and    *)
(* its number of player-seasons; a fetch is over when it appears, as a     *)
(* COMPLETE generation (RefreshGenerations is about the fetch); the load,  *)
(* the seed and the swap are each one step, as their transactions are.     *)
(***************************************************************************)
EXTENDS Naturals, Sequences, FiniteSets, FiniteSetsExt

CONSTANTS
    Source,        \* the providers
    Generational,  \* those whose refresh is a generation: FootyStats
    MarketOnly,    \* those that supply no player-seasons: Transfermarkt
    MaxRefresh,    \* bound: refreshes ever made
    MaxChecks,     \* bound: runs of checks persisted when the last run begins
    Rows,          \* how many player-seasons a load can bring
    InitialRows,   \* player-seasons of a performance provider at first
    Faults,        \* kinds of adverse outcome this instance explores
    MaxFaults,     \* bound: adverse outcomes in one behaviour
    Operator,      \* commands a person may give: "rollback", "promote",
                   \* "force", "abandon", "abandon_disk", "report"
    MaxCommands    \* bound: commands in one behaviour

ASSUME SourceAssumption ==
    IsFiniteSet(Source) /\ Source # {} /\ Generational \subseteq Source /\ MarketOnly \subseteq Source
ASSUME MaxRefreshAssumption == MaxRefresh \in Nat
ASSUME RowsAssumption == Rows \subseteq Nat /\ InitialRows \in Nat
ASSUME BoundsAssumption == MaxChecks \in Nat /\ MaxFaults \in Nat /\ MaxCommands \in Nat

Refresh == 1 .. MaxRefresh
Unnamed == 0        \* a refresh_id that is NULL, and what predates the ledger

LiveStatuses == {"COMPLETE", "VALIDATED"}
Statuses == LiveStatuses \cup {"PUBLISHED", "FAILED"}
NoGeneration == "NONE"

VARIABLES
    serving,     \* schema analytics: the data of each provider
    staging,     \* schema analytics_staging
    ledger,      \* fact_source_publication, oldest first
    quality,     \* fact_data_quality, one element per persisted run of checks
    made,        \* the provider of each refresh made so far
    gen,         \* fact_refresh_generation: the status of generation r
    run,         \* the workflow's run: its step, provider and refresh
    hand,        \* a promotion started by a person, between its two halves
    faults, commands

vars == <<serving, staging, ledger, quality, made, gen, run, hand, faults, commands>>

-----------------------------------------------------------------------------
(* Data *)

Data == [ref : Refresh \cup {Unnamed}, rows : Nat]

\* A row of the ledger; at is how many runs of checks had been persisted then,
\* which is all that its time is compared with.
Publications ==
    [ src : Source, ref : Refresh \cup {Unnamed}, gen : Refresh \cup {Unnamed}, at : Nat ]

\* A persisted run of checks.  A row without a context was written by a report
\* run by hand against what was serving; ref is then what that was.
Checks == [src : Source, ref : Refresh \cup {Unnamed}, context : {"CANDIDATE", "PUBLISHED", "NULL"}]

Steps == {"idle", "seed", "load", "identity", "quality", "validate", "mark", "promote", "commit"}
IdleRun == [pc |-> "idle", src |-> CHOOSE s \in Source : TRUE, ref |-> Unnamed]

\* What a promotion was told: the provider, the refresh and the generation.
Args == [src : Source, ref : Refresh \cup {Unnamed}, gen : Refresh \cup {Unnamed}]

\* Player-seasons of a schema, over all providers.
PlayerSeasons(schema) == MapThenSumSet(LAMBDA s : schema[s].rows, Source)

\* The generations of a provider that await publication.
LiveOf(s) == {r \in DOMAIN made : made[r] = s /\ gen[r] \in LiveStatuses}

Adverse(kind) ==
    /\ kind \in Faults
    /\ faults < MaxFaults
    /\ faults' = faults + 1

Command(name) ==
    /\ name \in Operator
    /\ commands < MaxCommands
    /\ commands' = commands + 1

\* A production that was filled before publications were recorded.
Init ==
    /\ serving = [s \in Source |->
                    [ref |-> Unnamed, rows |-> IF s \in MarketOnly THEN 0 ELSE InitialRows]]
    /\ staging = serving
    /\ ledger = <<>>
    /\ quality = <<>>
    /\ made = <<>>
    /\ gen = [r \in Refresh |-> NoGeneration]
    /\ run = IdleRun
    /\ hand = <<>>
    /\ faults = 0 /\ commands = 0

-----------------------------------------------------------------------------
(* The workflow, up to the promotion *)

EndRun == run' = IdleRun
Goto(step) == run' = [run EXCEPT !.pc = step]

\* A run begins when none is going on: the concurrency group.
Idle == run.pc = "idle" /\ Len(quality) <= MaxChecks

\* A new refresh of a provider.
Make(s) ==
    /\ Len(made) < MaxRefresh
    /\ made' = Append(made, s)
    /\ run' = [pc |-> "seed", src |-> s, ref |-> Len(made')]

\* The gate and the fetch, for a provider with generations: the live one is
\* taken up again, or a new one has been fetched.  Two live ones are an error.
BeginGeneration(s) ==
    /\ Idle /\ s \in Generational
    /\ \/ /\ Cardinality(LiveOf(s)) = 1
          /\ \E r \in LiveOf(s) : run' = [pc |-> "seed", src |-> s, ref |-> r]
          /\ UNCHANGED <<made, gen>>
       \/ /\ LiveOf(s) = {}
          /\ Make(s)
          /\ gen' = [gen EXCEPT ![Len(made')] = "COMPLETE"]
    /\ UNCHANGED <<serving, staging, ledger, quality, hand, faults, commands>>

\* Any other provider's refresh is named by the run that downloads it.
BeginDownload(s) ==
    /\ Idle /\ s \notin Generational
    /\ Make(s)
    /\ UNCHANGED <<serving, staging, ledger, quality, gen, hand, faults, commands>>

\* Somebody re-runs a finished job: the run keeps its number, and so the
\* refresh its name.
Rerun(r) ==
    /\ Idle /\ r \in DOMAIN made /\ made[r] \notin Generational
    /\ Adverse("rerun")
    /\ run' = [pc |-> "seed", src |-> made[r], ref |-> r]
    /\ UNCHANGED <<serving, staging, ledger, quality, made, gen, hand, commands>>

\* A step that fails ends the run: every later step asks for the success of
\* those before it.
Failed == Adverse("check") /\ EndRun

StagingKept == staging   \* mutant of Seeded
Seeded == serving

\* prepare_staging: truncate, copy production.
Seed ==
    /\ run.pc = "seed"
    /\ \/ staging' = Seeded /\ Goto("load") /\ UNCHANGED faults
       \/ Failed /\ staging' \in {staging, Seeded}
    /\ UNCHANGED <<serving, ledger, quality, made, gen, hand, commands>>

Persisted(context) ==
    Append(quality, [src |-> run.src, ref |-> run.ref, context |-> context])

\* load_providers --replace --verify --candidate: one transaction that purges
\* the provider, loads it and persists the loader's checks, or does nothing.
Load ==
    /\ run.pc = "load"
    /\ \/ \E n \in Rows :
             /\ staging' = [staging EXCEPT ![run.src] =
                    [ref |-> run.ref, rows |-> IF run.src \in MarketOnly THEN 0 ELSE n]]
             /\ quality' = Persisted("CANDIDATE")
             /\ Goto("identity")
             /\ UNCHANGED faults
       \/ Failed /\ UNCHANGED <<staging, quality>>
    /\ UNCHANGED <<serving, ledger, made, gen, hand, commands>>

\* Identity resolution and the prune rewrite staging without changing which
\* refresh its data is of.
Identity ==
    /\ run.pc = "identity"
    /\ \/ Goto("quality") /\ UNCHANGED faults
       \/ Failed
    /\ UNCHANGED <<serving, staging, ledger, quality, made, gen, hand, commands>>

\* quality.report --persist --candidate: the rows are kept whatever they say.
Quality ==
    /\ run.pc = "quality"
    /\ quality' = Persisted("CANDIDATE")
    /\ \/ Goto("validate") /\ UNCHANGED faults
       \/ Failed
    /\ UNCHANGED <<serving, staging, ledger, made, gen, hand, commands>>

Validate ==
    /\ run.pc = "validate"
    /\ \/ Goto(IF run.src \in Generational THEN "mark" ELSE "promote") /\ UNCHANGED faults
       \/ Failed
    /\ UNCHANGED <<serving, staging, ledger, quality, made, gen, hand, commands>>

\* publish_status --mark-validated.
Mark ==
    /\ run.pc = "mark"
    /\ \/ /\ gen[run.ref] \in LiveStatuses \cup {"PUBLISHED"}
          /\ gen' = [gen EXCEPT ![run.ref] = IF @ = "COMPLETE" THEN "VALIDATED" ELSE @]
          /\ Goto("promote")
          /\ UNCHANGED faults
       \/ gen[run.ref] = "FAILED" /\ EndRun /\ UNCHANGED <<gen, faults>>
       \/ Failed /\ UNCHANGED gen
    /\ UNCHANGED <<serving, staging, ledger, quality, made, hand, commands>>

\* The job is killed.
Crash ==
    /\ run.pc # "idle"
    /\ Adverse("crash")
    /\ EndRun
    /\ UNCHANGED <<serving, staging, ledger, quality, made, gen, hand, commands>>

-----------------------------------------------------------------------------
(* The promotion, in two halves: what it reads on connections of its own, and  *)
(* its transaction.                                                            *)

\* already_published: the ledger has this refresh.
InLedger(s, r) == r # Unnamed /\ \E i \in DOMAIN ledger : ledger[i].src = s /\ ledger[i].ref = r

\* check, with MIN_RETAINED_SHARE at three quarters.
Acceptable ==
    LET staged == PlayerSeasons(staging)
        before == PlayerSeasons(serving)
    IN  staged > 0 /\ 4 * staged >= 3 * before

\* publishable_generation: the newest one awaiting publication, or none.
PublishableGeneration(s) ==
    LET newest == {r \in LiveOf(s) : \A q \in LiveOf(s) : q <= r}
    IN  IF newest = {} THEN Unnamed ELSE CHOOSE r \in newest : TRUE

\* record_publication flips the candidate rows of exactly this refresh.
Flipped(s, r) ==
    [i \in DOMAIN quality |->
        IF r # Unnamed /\ quality[i].src = s /\ quality[i].ref = r
           /\ quality[i].context = "CANDIDATE"
        THEN [quality[i] EXCEPT !.context = "PUBLISHED"] ELSE quality[i]]

\* The three renames.
Swap == serving' = staging /\ staging' = serving

\* What the transaction settles on: a generation the database does not offer is
\* refused, and a refresh already in the ledger meets the unique index.
Resolved(a) ==
    LET g == IF a.gen # Unnamed THEN a.gen ELSE PublishableGeneration(a.src)
    IN  [ src |-> a.src, ref |-> IF a.ref # Unnamed THEN a.ref ELSE g, gen |-> g,
          at |-> Len(quality) ]

AnyStatus(a) == ~InLedger(a.src, Resolved(a).ref)            \* mutants of
NoUniqueIndex(a) == a.gen # Unnamed => gen[a.gen] \in LiveStatuses   \* MayCommit
MayCommit(a) ==
    /\ a.gen # Unnamed => gen[a.gen] \in LiveStatuses
    /\ ~InLedger(a.src, Resolved(a).ref)

RecordOnly(a) ==   \* mutant of Commit: the renames are forgotten
    /\ ledger' = Append(ledger, Resolved(a))
    /\ quality' = Flipped(a.src, Resolved(a).ref)
    /\ gen' = IF a.gen \in Refresh THEN [gen EXCEPT ![a.gen] = "PUBLISHED"] ELSE gen
    /\ UNCHANGED <<serving, staging>>

\* The transaction: swap, ledger row, quality rows, generation.
Commit(a) ==
    LET p == Resolved(a) IN
    /\ Swap
    /\ ledger' = Append(ledger, p)
    /\ quality' = Flipped(p.src, p.ref)
    /\ gen' = IF p.gen \in Refresh /\ gen[p.gen] \in LiveStatuses
              THEN [gen EXCEPT ![p.gen] = "PUBLISHED"] ELSE gen

Aborted == UNCHANGED <<serving, staging, ledger, quality, gen>>

ArgsOf(s, r) == [src |-> s, ref |-> r, gen |-> IF s \in Generational THEN r ELSE Unnamed]

\* The workflow's promotion: a refresh already published is a no-op, and one
\* that is too small is refused.
PromoteCheck ==
    /\ run.pc = "promote"
    /\ IF ~InLedger(run.src, run.ref) /\ Acceptable THEN Goto("commit") ELSE EndRun
    /\ UNCHANGED <<serving, staging, ledger, quality, made, gen, hand, faults, commands>>

PromoteCommit ==
    LET a == ArgsOf(run.src, run.ref) IN
    /\ run.pc = "commit"
    /\ \/ MayCommit(a) /\ Commit(a) /\ UNCHANGED faults
       \/ ~MayCommit(a) /\ Aborted /\ UNCHANGED faults
       \/ Adverse("database") /\ Aborted
    /\ EndRun
    /\ UNCHANGED <<made, hand, commands>>

-----------------------------------------------------------------------------
(* A person at a terminal *)

\* promote --apply --source, with the refresh the workflow would name or with
\* none, and --force to pass over the row counts.
HandCheck(s, r, force) ==
    /\ hand = <<>>
    /\ Command("promote")
    /\ force => "force" \in Operator
    /\ r = Unnamed \/ (r \in DOMAIN made /\ made[r] = s)
    /\ ~InLedger(s, r)
    /\ force \/ Acceptable
    /\ hand' = <<ArgsOf(s, r)>>
    /\ UNCHANGED <<serving, staging, ledger, quality, made, gen, run, faults>>

HandCommit ==
    /\ hand # <<>>
    /\ \/ MayCommit(hand[1]) /\ Commit(hand[1])
       \/ ~MayCommit(hand[1]) /\ Aborted
    /\ hand' = <<>>
    /\ UNCHANGED <<made, run, faults, commands>>

\* retract_publication takes the quality rows of the deleted row's refresh back.
NotRetracted(p) == quality   \* mutant of Retracted
Retracted(p) ==
    [i \in DOMAIN quality |->
        IF p.ref # Unnamed /\ quality[i].src = p.src /\ quality[i].ref = p.ref
           /\ quality[i].context = "PUBLISHED"
        THEN [quality[i] EXCEPT !.context = "CANDIDATE"] ELSE quality[i]]

\* promote --rollback --apply: the swap, and the newest ledger row goes,
\* whichever provider's it is.
Rollback ==
    /\ Command("rollback")
    /\ Swap
    /\ IF ledger = <<>>
       THEN UNCHANGED <<ledger, quality, gen>>
       ELSE LET p == ledger[Len(ledger)] IN
            /\ ledger' = SubSeq(ledger, 1, Len(ledger) - 1)
            /\ quality' = Retracted(p)
            /\ gen' = IF p.gen # Unnamed /\ gen[p.gen] = "PUBLISHED"
                      THEN [gen EXCEPT ![p.gen] = "VALIDATED"] ELSE gen
    /\ UNCHANGED <<made, run, hand, faults>>

\* generations --abandon from a machine without the directory: mark_failed moves a
\* live row only.
Abandon(r) ==
    /\ Command("abandon")
    /\ gen[r] \in LiveStatuses
    /\ gen' = [gen EXCEPT ![r] = "FAILED"]
    /\ UNCHANGED <<serving, staging, ledger, quality, made, run, hand, faults>>

\* generations --abandon beside the directory: the copy on disk is FAILED from any
\* status and record writes it over the row, a published one included.  The
\* ledger and the quality rows are not touched.
AbandonOnDisk(r) ==
    /\ Command("abandon_disk")
    /\ gen[r] # NoGeneration
    /\ gen' = [gen EXCEPT ![r] = "FAILED"]
    /\ UNCHANGED <<serving, staging, ledger, quality, made, run, hand, faults>>

\* quality.report --persist --source, run by hand against production.
HandReport(s) ==
    /\ Command("report")
    /\ quality' = Append(quality, [src |-> s, ref |-> serving[s].ref, context |-> "NULL"])
    /\ UNCHANGED <<serving, staging, ledger, made, gen, run, hand, faults>>

-----------------------------------------------------------------------------
Next ==
    \/ \E s \in Source : BeginGeneration(s) \/ BeginDownload(s)
    \/ \E r \in Refresh : Rerun(r) \/ Abandon(r) \/ AbandonOnDisk(r)
    \/ Seed \/ Load \/ Identity \/ Quality \/ Validate \/ Mark
    \/ PromoteCheck \/ PromoteCommit
    \/ Crash
    \/ \E s \in Source, r \in Refresh \cup {Unnamed}, force \in BOOLEAN : HandCheck(s, r, force)
    \/ HandCommit
    \/ Rollback
    \/ \E s \in Source : HandReport(s)

Spec == Init /\ [][Next]_vars

-----------------------------------------------------------------------------
(* What the data quality page shows (quality_service.py) *)

Newest(S) == CHOOSE i \in S : \A j \in S : j <= i

EveryRun(s) == {i \in DOMAIN quality : quality[i].src = s}   \* mutant of Describing

\* latest_checks picks the newest of the provider's runs of checks that are not
\* a candidate's.
Describing(s) ==
    {i \in DOMAIN quality : quality[i].src = s /\ quality[i].context # "CANDIDATE"}

PublicationsOf(s) == {i \in DOMAIN ledger : ledger[i].src = s}

AnyCandidate(s) ==   \* mutant of Waiting
    {i \in DOMAIN quality : quality[i].src = s /\ quality[i].context = "CANDIDATE"}

\* candidate_checks picks the newest of the candidate runs that are later than
\* the provider's last publication and whose generation, if any, is live.
Waiting(s) ==
    {i \in DOMAIN quality :
        /\ quality[i].src = s /\ quality[i].context = "CANDIDATE"
        /\ PublicationsOf(s) # {} => i > ledger[Newest(PublicationsOf(s))].at
        /\ s \in Generational => gen[quality[i].ref] \in LiveStatuses}

\* _latest_publication, and last_publications with its rows and its time.
LatestPublication(s) ==
    IF PublicationsOf(s) = {} THEN <<>> ELSE <<ledger[Newest(PublicationsOf(s))]>>

\* The published block of provider_quality: the refresh is the one of the checks
\* if they name one, else the ledger's; the time is the ledger's.
PublishedChecks(s) ==
    LET publication == LatestPublication(s)
        named == IF Describing(s) = {} THEN Unnamed
                 ELSE LET q == quality[Newest(Describing(s))]
                      IN IF q.context = "NULL" THEN Unnamed ELSE q.ref
    IN IF Describing(s) = {} /\ publication = <<>> THEN <<>>
       ELSE << [ refresh |-> IF named # Unnamed \/ publication = <<>> THEN named
                             ELSE publication[1].ref,
                 checked |-> Describing(s) # {},
                 publishedAt |-> IF publication = <<>> THEN 0 ELSE publication[1].at ] >>

\* provider_quality: the providers that have checks, and the two blocks of each.
ProviderQuality ==
    [s \in {t \in Source : Describing(t) # {} \/ Waiting(t) # {}} |->
        [ published |-> PublishedChecks(s),
          candidate |-> IF Waiting(s) = {} THEN Unnamed ELSE quality[Newest(Waiting(s))].ref ]]

\* freshness: when what is served was last checked and last published.  When a
\* load was last attempted is left out.
Freshness ==
    [s \in {t \in Source : Describing(t) # {}} |->
        [ checkedAt |-> Newest(Describing(s)),
          publishedAt |-> IF LatestPublication(s) = <<>> THEN 0 ELSE LatestPublication(s)[1].at ]]

\* _data_freshness: the line on every page, of the publications alone.
DataFreshness ==
    [s \in {t \in Source : PublicationsOf(t) # {}} |-> LatestPublication(s)[1].at]

-----------------------------------------------------------------------------
(* Properties *)

\* Every variable has its type.
TypeOK ==
    /\ serving \in [Source -> Data] /\ staging \in [Source -> Data]
    /\ ledger \in Seq(Publications)
    /\ quality \in Seq(Checks)
    /\ made \in Seq(Source) /\ Len(made) <= MaxRefresh
    /\ gen \in [Refresh -> Statuses \cup {NoGeneration}]
    /\ run \in [pc : Steps, src : Source, ref : Refresh \cup {Unnamed}]
    /\ hand \in Seq(Args)
    /\ faults \in Nat /\ commands \in Nat

\* Readers are served, of each provider, the refresh its newest ledger row names:
\* no failure between two steps, and no candidate left behind in staging by one
\* run, is served or recorded by the next (promote.py swap, prepare_staging.py).
LedgerDescribesServing ==
    \A s \in Source :
        /\ PublicationsOf(s) = {} => serving[s].ref = Unnamed
        /\ \A i \in PublicationsOf(s) :
              (\A j \in PublicationsOf(s) : j <= i) /\ ledger[i].ref # Unnamed
                  => serving[s].ref = ledger[i].ref

\* Readers see one provider change at a time, each refresh once, never one
\* provider's refresh beside an older one of another (prepare_staging.py seeds
\* from production, which is what makes this so).
Published ==
    INSTANCE PublishedDataset WITH
        Refresh <- Refresh \cup {Unnamed},
        served <- [s \in Source |-> serving[s].ref],
        ledger <- [i \in DOMAIN ledger |-> [src |-> ledger[i].src, ref |-> ledger[i].ref]]
ImplementsPublishedDataset == Published!Spec

\* The page's published block is one refresh throughout: the checks in it are of
\* the refresh that is served, so is the name it is given, whichever of the two
\* records that name was taken from, and those checks were made before the
\* publication whose time stands beside them (quality_service.py latest_checks,
\* provider_quality, freshness; promote.py record_publication).
ShownChecksDescribeServing ==
    /\ \A s \in DOMAIN ProviderQuality :
        LET shown == ProviderQuality[s].published IN
        shown # <<>> =>
            /\ shown[1].refresh = serving[s].ref
            /\ shown[1].checked => quality[Newest(Describing(s))].ref = serving[s].ref
    /\ \A s \in DOMAIN Freshness \cap DOMAIN DataFreshness :
        /\ Freshness[s].publishedAt = DataFreshness[s]
        /\ Freshness[s].checkedAt <= DataFreshness[s]

\* A refresh shown as a candidate is genuinely waiting: newer than the one that is
\* served and not in the ledger, though the checks of every refresh that got
\* stuck stay CANDIDATE for ever (quality_service.py candidate_checks).
CandidateIsWaiting ==
    \A s \in DOMAIN ProviderQuality :
        LET r == ProviderQuality[s].candidate
        IN  r # Unnamed => r > serving[s].ref /\ ~InLedger(s, r)

\* However promotions, rollbacks and re-runs interleave, a named refresh has one
\* ledger row at most (uq_source_publication_refresh, already_published).
PublishedOnce ==
    \A i, j \in DOMAIN ledger :
        /\ ledger[i].src = ledger[j].src
        /\ ledger[i].ref = ledger[j].ref
        /\ ledger[i].ref # Unnamed
        => i = j

\* Checks are marked PUBLISHED only while their refresh is in the ledger, with
\* rollbacks, re-runs and promotions by hand in any order (record_publication
\* and retract_publication).
QualityFollowsLedger ==
    \A i \in DOMAIN quality :
        quality[i].context = "PUBLISHED" => InLedger(quality[i].src, quality[i].ref)

HasPublication(r) == \E i \in DOMAIN ledger : ledger[i].gen = r

\* A generation becomes and stays PUBLISHED only with a ledger row behind it, and
\* a row is only written for one that becomes PUBLISHED with it, whoever abandons
\* it between the checks of a promotion and its transaction.  Afterwards row and
\* status go together, but for a generation that was abandoned beside its
\* directory: it is FAILED and keeps its row (promote.py record_publication,
\* retract_publication; generations.py main).
StatusFollowsLedger ==
    [][ \A r \in Refresh :
            /\ gen'[r] = "PUBLISHED" => HasPublication(r)'
            /\ HasPublication(r)' /\ gen'[r] # "PUBLISHED"
                   => HasPublication(r) /\ gen'[r] = "FAILED" ]_vars
=============================================================================
