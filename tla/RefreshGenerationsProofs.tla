---------------------- MODULE RefreshGenerationsProofs ----------------------
(***************************************************************************)
(* What the refresh pipeline promises, for every set of competitions,      *)
(* every number of generations and every choice of faults, and of the      *)
(* commands each theorem admits:                                           *)
(* revisions never regress, only whole universes are published, keys are   *)
(* fresh, one generation is open at a time, the statuses follow the table  *)
(* of generations.py, the ledger agrees with them and what is open can be  *)
(* restored.                                                               *)
(*                                                                         *)
(* Each theorem rests on an invariant of its own, and they build on one    *)
(* another: TypeOK, RevisionInv (a run's disk is never behind its row),    *)
(* WholenessInv (every checkpoint is honest), CacheInv (what a run         *)
(* restored is its generation's newest checkpoint), OpenInv (nothing but   *)
(* the run's generation is live), StatusInv (no saved checkpoint is behind *)
(* its row's status), LedgerInv (what is open is newer than all that was   *)
(* published) and KeptInv (a revision is saved before its run ends).       *)
(***************************************************************************)
EXTENDS RefreshGenerations, SequenceTheorems, FiniteSetTheorems, TLAPS

USE DEF Gen, NoGen, Modes, Statuses, LiveStatuses, AwaitingPublication, Absent

-----------------------------------------------------------------------------
(* The data *)

\* A fresh directory, an empty report, an empty job and an absent row have
\* their types.
LEMMA BlankTypes ==
    /\ NewGeneration \in Checkpoint
    /\ NoReport \in Report
    /\ NoJob \in Job
    /\ NoRow \in Row
    /\ Empty \in [Comp -> Nat]
BY DEF NewGeneration, Checkpoint, NoReport, Report, NoJob, Job, NoRow, Row, Empty

\* What record writes is a row (publish_status.py record).
LEMMA RowOfType ==
    ASSUME NEW k \in Checkpoint
    PROVE  RowOf(k) \in Row
BY DEF Checkpoint, RowOf, Row

\* A reconciled row is a row (publish_status.py reconcile_forward).
LEMMA ReconciledType ==
    ASSUME NEW row \in Row, NEW k \in Checkpoint
    PROVE  Reconciled(row, k) \in Row
<1>1. ReconciledStatus(row.status, k.status) \in Statuses \cup {Absent}
    BY DEF ReconciledStatus, Row, Checkpoint
<1> QED
    BY <1>1, RowOfType DEF Reconciled, Row

\* The players found in the directory are counts.
LEMMA HeldType ==
    ASSUME disk \in Checkpoint
    PROVE  Held \in [Comp -> Nat]
BY DEF Held, Checkpoint

\* A visit leaves a checkpoint (ingest.py, the loop's bookkeeping).
LEMMA VisitedType ==
    ASSUME NEW c \in Comp, NEW k \in Checkpoint, NEW whole \in BOOLEAN, NEW n \in Nat
    PROVE  Visited(c, k, whole, n) \in Checkpoint
<1> DEFINE finished == IF whole THEN k.finished \cup {c} ELSE k.finished \ {c}
           marked == [k EXCEPT !.finished = finished, !.completed = n]
<1>1. finished \in SUBSET Comp
    BY DEF Checkpoint
<1> HIDE DEF finished
<1>2. marked \in Checkpoint
    BY <1>1 DEF Checkpoint
<1>3. EvaluateCompleteness(marked) \in BOOLEAN
    BY DEF EvaluateCompleteness
<1>4. Visited(c, k, whole, n) = [marked EXCEPT !.complete = EvaluateCompleteness(marked)]
    BY DEF Visited, finished
<1> HIDE DEF marked
<1> QED
    BY <1>2, <1>3, <1>4 DEF Checkpoint

\* Ending a run keeps the types of what it resets.
LEMMA EndRunType ==
    ASSUME EndRun
    PROVE  /\ pc' = "idle"
           /\ job' \in Job
           /\ diskGen' \in Gen \cup {NoGen}
           /\ disk' \in Checkpoint
           /\ lost' \in SUBSET Comp
           /\ report' \in Report
           /\ loaded' \in [Comp -> Nat]
BY BlankTypes DEF EndRun

-----------------------------------------------------------------------------
(* Type correctness, one lemma per group of actions *)

\* The system starts with every variable of its type.
LEMMA InitType == Init => TypeOK
<1> SUFFICES ASSUME Init PROVE TypeOK
    OBVIOUS
<1>1. ledger \in Seq(Publication) /\ \A g \in Gen : cache[g] \in Seq(Checkpoint)
    BY DEF Init
<1>2. nextGen \in 1 .. MaxGen + 1
    BY MaxGenAssumption DEF Init
<1> QED
    BY <1>1, <1>2, BlankTypes DEF Init, TypeOK

\* An adverse outcome is counted.
LEMMA FaultsType ==
    ASSUME TypeOK, NEW kind, Adverse(kind) \/ UNCHANGED faults
    PROVE  faults' \in Nat
BY DEF TypeOK, Adverse

\* A run that leaves the gate keeps the types, and goes to restore a real
\* generation or to create one (gate.py).
LEMMA GateType ==
    ASSUME TypeOK, GateStartNew \/ \E mode \in Modes : GateResume(mode)
    PROVE  TypeOK'
<1>1. CASE GateStartNew
    BY <1>1 DEF GateStartNew, TypeOK
<1>2. ASSUME NEW mode \in Modes, GateResume(mode)
      PROVE  TypeOK'
    <2> DEFINE d == Decision(mode, db)
    <2>1. d.gen \in Gen
        BY <1>2 DEF GateResume, Decision, LiveIn
    <2>2. job' \in Job /\ job'.gen \in Gen
        BY <1>2, <2>1 DEF GateResume, TypeOK, Row, Job
    <2> QED
        BY <1>2, <2>2 DEF GateResume, TypeOK
<1> QED
    BY <1>1, <1>2

\* What the cache brings is a checkpoint (pipeline.yml, the restore step).
LEMMA RestoreType ==
    ASSUME TypeOK, Restore
    PROVE  TypeOK'
<1>1. pc = "restore" /\ job.gen \in Gen
    BY DEF Restore, TypeOK
<1>2. cache[job.gen] \in Seq(Checkpoint)
    BY <1>1 DEF TypeOK
<1>3. faults' \in Nat
    BY FaultsType DEF Restore
<1>4. CASE cache[job.gen] = <<>>
    BY <1>1, <1>3, <1>4 DEF Restore, TypeOK
<1>5. CASE cache[job.gen] # <<>>
    <2>1. Len(cache[job.gen]) \in 1 .. Len(cache[job.gen])
        BY <1>2, <1>5
    <2>2. disk' = cache[job.gen][Len(cache[job.gen])]
        BY <1>5 DEF Restore
    <2>3. disk' \in Checkpoint
        BY <1>2, <2>1, <2>2
    <2>4. lost' \in SUBSET Comp
        BY <1>5, <2>3 DEF Restore, Checkpoint
    <2> QED
        BY <1>1, <1>3, <1>5, <2>3, <2>4 DEF Restore, TypeOK
<1> QED
    BY <1>4, <1>5

\* Whatever action the verifier settles on, the run's own state keeps its type.
LEMMA TakeType ==
    ASSUME TypeOK, NEW action, Take(action), diskGen \in Gen
    PROVE  /\ pc' \in {"idle", "fetch", "load"}
           /\ job' \in Job
           /\ diskGen' \in Gen \cup {NoGen}
           /\ disk' \in Checkpoint
           /\ lost' \in SUBSET Comp
           /\ report' \in Report
           /\ loaded' \in [Comp -> Nat]
           /\ pc' \in {"fetch", "load"} => diskGen' \in Gen
<1>1. CASE EndRun
    BY <1>1, EndRunType
<1>2. CASE pc' = "fetch" /\ report' = [NoReport EXCEPT !.todo = configured]
                         /\ UNCHANGED <<job, diskGen, disk, lost, loaded>>
    BY <1>2 DEF NoReport, Report, TypeOK
<1>3. CASE pc' = "load" /\ UNCHANGED <<job, diskGen, disk, lost, report, loaded>>
    BY <1>3 DEF TypeOK
<1> QED
    BY <1>1, <1>2, <1>3 DEF Take

\* The verifier keeps the types whether it refuses, agrees or reconciles
\* (gate.py _verify).
LEMMA VerifyType ==
    ASSUME TypeOK, Verify
    PROVE  TypeOK'
<1>1. pc = "verify" /\ job.gen \in Gen
    BY DEF Verify, VerifyRefuse, VerifyEqual, VerifyNewer, TypeOK
<1>2. CASE VerifyRefuse
    BY <1>2, EndRunType DEF VerifyRefuse, TypeOK
<1>3. CASE VerifyEqual
    <2>1. diskGen \in Gen
        BY <1>1, <1>3 DEF VerifyEqual, Verified
    <2>2. PICK ok \in BOOLEAN : Reaches(ok)
        BY <1>3 DEF VerifyEqual
    <2>3. faults' \in Nat
        BY <2>2, FaultsType DEF Reaches
    <2>4. PICK action : Take(action)
        BY <1>3 DEF VerifyEqual
    <2> QED
        BY <1>3, <2>1, <2>3, <2>4, TakeType DEF VerifyEqual, TypeOK
<1>4. CASE VerifyNewer
    <2>1. diskGen \in Gen
        BY <1>1, <1>4 DEF VerifyNewer, Verified
    <2>2. PICK ok \in BOOLEAN :
              /\ Reaches(ok)
              /\ db' = [db EXCEPT ![diskGen] =
                           IF ok THEN Reconciled(db[diskGen], disk) ELSE db[diskGen]]
              /\ \E action : Take(action)
        BY <1>4 DEF VerifyNewer
    <2>3. faults' \in Nat
        BY <2>2, FaultsType DEF Reaches
    <2>4. db[diskGen] \in Row /\ Reconciled(db[diskGen], disk) \in Row
        BY <2>1, ReconciledType DEF TypeOK
    <2>5. db' \in [Gen -> Row]
        BY <2>2, <2>4 DEF TypeOK
    <2>6. PICK action : Take(action)
        BY <2>2
    <2> QED
        BY <1>4, <2>1, <2>3, <2>5, <2>6, TakeType DEF VerifyNewer, TypeOK
<1> QED
    BY <1>2, <1>3, <1>4 DEF Verify

\* A generation is created under an id of its own (generations.py create).
LEMMA CreateType ==
    ASSUME TypeOK, CreateGeneration
    PROVE  TypeOK'
<1>1. nextGen' \in 1 .. MaxGen + 1
    BY MaxGenAssumption DEF CreateGeneration, TypeOK
<1>2. report' \in Report
    BY DEF CreateGeneration, NoReport, Report, TypeOK
<1> QED
    BY <1>1, <1>2, BlankTypes DEF CreateGeneration, TypeOK

\* A recorded table is a table.
LEMMA RecordType ==
    ASSUME TypeOK, NEW ok \in BOOLEAN, NEW k \in Checkpoint, Record(ok, k)
    PROVE  db' \in [Gen -> Row]
BY RowOfType DEF Record, TypeOK

\* A refused roster call keeps the types (ingest.py, the loop).
LEMMA RosterRefusedType ==
    ASSUME TypeOK, NEW c \in Comp, RosterRefused(c)
    PROVE  TypeOK'
<1>1. disk' \in Checkpoint
    <2>1. disk \in Checkpoint /\ report.counted \in Nat
        BY DEF TypeOK, Report
    <2> QED
        BY <2>1, VisitedType DEF RosterRefused
<1>2. db' \in [Gen -> Row]
    BY <1>1, RecordType DEF RosterRefused
<1>3. faults' \in Nat
    BY FaultsType DEF RosterRefused
<1>4. PICK fatal \in BOOLEAN :
          report' = [report EXCEPT !.todo = @ \ {c}, !.bad = TRUE, !.fatal = fatal]
    BY DEF RosterRefused
<1>5. report' \in Report
    BY <1>4 DEF TypeOK, Report
<1> QED
    BY <1>1, <1>2, <1>3, <1>5 DEF RosterRefused, Fetching, TypeOK

\* A visit keeps the types, whatever it fetched and however it ended
\* (ingest.py ingest_competition and the loop).
LEMMA FetchPlayersType ==
    ASSUME TypeOK, NEW c \in Comp, FetchPlayers(c)
    PROVE  TypeOK'
<1>1. PICK size \in Merged(c) : \E got \in Held[c] .. size :
          \E cause \in {"none", "deadline", "player", "refused_key"} :
          \E ok \in BOOLEAN : \E seen \in Seen(c, got, cause) :
              Visit(c, size, got, cause, ok, seen)
    BY DEF FetchPlayers
<1>2. PICK got \in Held[c] .. size : \E cause \in {"none", "deadline", "player", "refused_key"} :
          \E ok \in BOOLEAN : \E seen \in Seen(c, got, cause) :
              Visit(c, size, got, cause, ok, seen)
    BY <1>1
<1>3. PICK cause \in {"none", "deadline", "player", "refused_key"}, ok \in BOOLEAN :
          \E seen \in Seen(c, got, cause) : Visit(c, size, got, cause, ok, seen)
    BY <1>2
<1>4. PICK seen \in Seen(c, got, cause) : Visit(c, size, got, cause, ok, seen)
    BY <1>3
<1>5. disk \in Checkpoint /\ report \in Report /\ disk.roster[c] \in Nat
    BY DEF TypeOK, Checkpoint
<1>6. Held[c] \in Nat
    BY <1>5, HeldType
<1>7. size \in Nat /\ got \in Nat
    BY <1>5, <1>6, MaxRosterAssumption DEF Merged
<1>8. seen \in Nat /\ report.counted + seen \in Nat
    BY <1>5, <1>6, <1>7 DEF Seen, Report
<1>9. [disk EXCEPT !.wanted = @ \cup {c}, !.roster[c] = size, !.done[c] = got] \in Checkpoint
    BY <1>5, <1>7 DEF Checkpoint
<1>10. disk' \in Checkpoint
    BY <1>4, <1>8, <1>9, VisitedType DEF Visit
<1>11. report' \in Report
    BY <1>4, <1>5, <1>8 DEF Visit, Report
<1>12. db' \in [Gen -> Row]
    BY <1>4, <1>10, RecordType DEF Visit
<1>13. faults' \in Nat
    BY <1>4, FaultsType DEF Visit
<1>14. lost' \in SUBSET Comp
    BY DEF FetchPlayers, TypeOK
<1> QED
    BY <1>10, <1>11, <1>12, <1>13, <1>14 DEF FetchPlayers, Fetching, TypeOK

\* A deadline between two competitions keeps the types (ingest.py Deadline).
LEMMA OutOfTimeType ==
    ASSUME TypeOK, OutOfTime
    PROVE  TypeOK'
<1>1. report' \in Report
    BY DEF OutOfTime, TypeOK, Report
<1>2. faults' \in Nat
    BY FaultsType DEF OutOfTime
<1> QED
    BY <1>1, <1>2 DEF OutOfTime, TypeOK

\* The last checkpoint of a run keeps the types (ingest.py main, its end).
LEMMA FinishFetchType ==
    ASSUME TypeOK, FinishFetch
    PROVE  TypeOK'
<1> DEFINE whole == EvaluateCompleteness(disk) /\ ReportComplete(report)
           status == IF report.fatal THEN "FAILED"
                     ELSE IF whole THEN "COMPLETE" ELSE disk.status
<1>1. disk' = [disk EXCEPT !.complete = whole, !.status = status,
                           !.completed = report.counted, !.rev = NextRev(disk)]
    BY DEF FinishFetch
<1>2. disk \in Checkpoint /\ report.counted \in Nat /\ NextRev(disk) \in Nat
    BY DEF TypeOK, Checkpoint, Report, NextRev
<1>3. whole \in BOOLEAN /\ status \in Statuses
    BY <1>2 DEF Checkpoint, EvaluateCompleteness, ReportComplete
<1> HIDE DEF whole, status
<1>4. disk' \in Checkpoint
    BY <1>1, <1>2, <1>3 DEF Checkpoint
<1>5. PICK ok \in BOOLEAN : Reaches(ok) /\ Record(ok, disk')
    BY DEF FinishFetch
<1>6. db' \in [Gen -> Row] /\ faults' \in Nat
    BY <1>4, <1>5, RecordType, FaultsType DEF Reaches
<1> QED
    BY <1>4, <1>6 DEF FinishFetch, TypeOK

\* A save appends a checkpoint or nothing (pipeline.yml, the save step).
LEMMA SaveCacheType ==
    ASSUME TypeOK, SaveCache
    PROVE  TypeOK'
<1>1. disk \in Checkpoint /\ Held \in [Comp -> Nat]
    BY HeldType DEF TypeOK
<1>2. [disk EXCEPT !.done = Held] \in Checkpoint
    BY <1>1 DEF Checkpoint
<1>3. diskGen \in Gen /\ cache[diskGen] \in Seq(Checkpoint)
    BY DEF SaveCache, TypeOK
<1>4. Saved(cache[diskGen], [disk EXCEPT !.done = Held]) \in Seq(Checkpoint)
    BY <1>2, <1>3 DEF Saved
<1>5. cache' \in [Gen -> Seq(Checkpoint)]
    BY <1>4 DEF SaveCache, TypeOK
<1>6. faults' \in Nat
    BY FaultsType DEF SaveCache
<1>7. CASE EndRun
    BY <1>5, <1>6, <1>7, EndRunType DEF SaveCache, TypeOK
<1>8. CASE pc' = "load" /\ UNCHANGED <<job, diskGen, disk, lost, report, loaded>>
    BY <1>3, <1>5, <1>6, <1>8 DEF SaveCache, TypeOK
<1> QED
    BY <1>7, <1>8 DEF SaveCache

\* What is loaded is a count per competition (load_providers.py).
LEMMA LoadAndCheckType ==
    ASSUME TypeOK, LoadAndCheck
    PROVE  TypeOK'
<1>1. faults' \in Nat
    BY FaultsType DEF LoadAndCheck
<1>2. CASE EndRun
    BY <1>1, <1>2, EndRunType DEF LoadAndCheck, TypeOK
<1>3. CASE loaded' = Held /\ pc' = "mark" /\ UNCHANGED <<job, diskGen, disk, lost, report, faults>>
    BY <1>1, <1>3, HeldType DEF LoadAndCheck, TypeOK
<1> QED
    BY <1>2, <1>3 DEF LoadAndCheck

\* Moving one row to another status leaves a table.
LEMMA MoveRowType ==
    ASSUME TypeOK, NEW g, NEW s \in Statuses,
           db' = [db EXCEPT ![g].status = s]
    PROVE  db' \in [Gen -> Row]
<1>1. db \in [Gen -> Row]
    BY DEF TypeOK
<1>2. ASSUME g \in Gen
      PROVE  [db[g] EXCEPT !.status = s] \in Row
    <2>1. db[g] \in Row
        BY <1>1, <1>2
    <2> QED
        BY <2>1 DEF Row
<1> QED
    BY <1>1, <1>2

\* mark_validated keeps the types (publish_status.py).
LEMMA MarkValidatedType ==
    ASSUME TypeOK, MarkValidated
    PROVE  TypeOK'
<1>1. diskGen \in Gen /\ db[diskGen] \in Row
    BY DEF MarkValidated, TypeOK
<1>2. CASE EndRun /\ UNCHANGED db
    BY <1>2, EndRunType, FaultsType DEF MarkValidated, TypeOK
<1>3. CASE /\ db' = [db EXCEPT ![diskGen].status = IF @ = "COMPLETE" THEN "VALIDATED" ELSE @]
           /\ disk' = [disk EXCEPT !.status = IF @ = "COMPLETE" THEN "VALIDATED" ELSE @]
           /\ pc' = "promote"
           /\ UNCHANGED <<job, diskGen, lost, report, loaded, faults>>
    <2>1. db' \in [Gen -> Row]
        BY <1>1, <1>3 DEF TypeOK, Row
    <2>2. disk' \in Checkpoint
        BY <1>3 DEF TypeOK, Checkpoint
    <2> QED
        BY <1>1, <1>3, <2>1, <2>2 DEF MarkValidated, TypeOK
<1> QED
    BY <1>2, <1>3 DEF MarkValidated

\* A promotion appends a publication to the ledger (promote.py).
LEMMA PromoteType ==
    ASSUME TypeOK, Promote
    PROVE  TypeOK'
<1>1. diskGen \in Gen
    BY DEF Promote, TypeOK
<1>2. db' \in [Gen -> Row]
    BY MoveRowType DEF Promote, TypeOK
<1>3. [gen |-> diskGen, wanted |-> disk.wanted, roster |-> disk.roster, have |-> loaded]
          \in Publication
    BY <1>1 DEF TypeOK, Checkpoint, Publication
<1>4. ledger' \in Seq(Publication)
    <2> DEFINE p == [gen |-> diskGen, wanted |-> disk.wanted, roster |-> disk.roster,
                     have |-> loaded]
    <2>1. ledger' = Append(ledger, p) \/ ledger' = ledger
        BY DEF Promote
    <2>2. p \in Publication /\ ledger \in Seq(Publication)
        BY <1>3 DEF TypeOK
    <2> HIDE DEF p
    <2> QED
        BY <2>1, <2>2, AppendProperties
<1>5. faults' \in Nat
    BY FaultsType DEF Promote
<1> QED
    BY <1>2, <1>4, <1>5, EndRunType DEF Promote, TypeOK

\* What a person's copy of a directory does to the rows (generations.py main,
\* publish_status.py record).
LEMMA OnDiskRow ==
    ASSUME TypeOK, NEW g \in Gen, NEW i \in DOMAIN cache[g],
           AbandonOnDisk(g, cache[g][i])
    PROVE  /\ db' \in [Gen -> Row]
           /\ db'[g].status = "FAILED" /\ db'[g].rev = cache[g][i].rev
           /\ \A h \in Gen \ {g} : db'[h] = db[h]
           /\ UNCHANGED <<ledger, cache, nextGen, configured, pc, job, diskGen, disk,
                          lost, report, loaded, faults>>
<1>1. PICK k \in Checkpoint : k = cache[g][i]
    BY LenProperties, ElementOfSeq DEF TypeOK
<1> DEFINE row == [RowOf(k) EXCEPT !.status = "FAILED"]
<1>2. row \in Row /\ row.status = "FAILED" /\ row.rev = k.rev
    BY <1>1 DEF RowOf, Row, Checkpoint, Statuses
<1>3. db' = [db EXCEPT ![g] = row]
    BY <1>1 DEF AbandonOnDisk
<1> HIDE DEF row
<1>4. db' \in [Gen -> Row] /\ db'[g] = row /\ \A h \in Gen \ {g} : db'[h] = db[h]
    BY <1>2, <1>3 DEF TypeOK
<1> QED
    BY <1>1, <1>2, <1>4 DEF AbandonOnDisk

\* A crash, an eviction, an exclusion, an abandon and a rollback keep the types.
LEMMA OutsideType ==
    ASSUME TypeOK, Outside
    PROVE  TypeOK'
<1>1. CASE Crash
    BY <1>1, EndRunType, FaultsType DEF Crash, TypeOK
<1>2. ASSUME NEW g \in Gen, Evict(g)
      PROVE  TypeOK'
    <2>1. cache[g] \in Seq(Checkpoint) /\ Len(cache[g]) # 0
        BY <1>2, EmptySeq DEF Evict, TypeOK
    <2>2. SubSeq(cache[g], 1, Len(cache[g]) - 1) \in Seq(Checkpoint)
        BY <2>1
    <2>3. cache' \in [Gen -> Seq(Checkpoint)]
        BY <1>2, <2>2 DEF Evict, TypeOK
    <2> QED
        BY <1>2, <2>3, FaultsType DEF Evict, TypeOK
<1>3. ASSUME NEW g \in Gen, Abandon(g)
      PROVE  TypeOK'
    BY <1>3, MoveRowType DEF Abandon, TypeOK
<1>6. ASSUME NEW g \in Gen, NEW i \in DOMAIN cache[g], AbandonOnDisk(g, cache[g][i])
      PROVE  TypeOK'
    BY <1>6, OnDiskRow DEF TypeOK
<1>4. ASSUME NEW c \in Comp, ExcludeCompetition(c)
      PROVE  TypeOK'
    BY <1>4, FaultsType DEF ExcludeCompetition, TypeOK
<1>5. CASE Rollback
    <2> DEFINE g == ledger[Len(ledger)].gen
               s == IF db[g].status = "PUBLISHED" THEN "VALIDATED" ELSE db[g].status
    <2>1. db' \in [Gen -> Row]
        <3>1. db \in [Gen -> Row]
            BY DEF TypeOK
        <3>2. db' = [db EXCEPT ![g] = [db[g] EXCEPT !.status = s]]
            BY <1>5 DEF Rollback
        <3>3. ASSUME g \in Gen
              PROVE  [db[g] EXCEPT !.status = s] \in Row
            <4>1. db[g] \in Row
                BY <3>1, <3>3
            <4>2. s \in Statuses \cup {Absent}
                BY <4>1 DEF Row, Statuses
            <4> HIDE DEF s
            <4> QED
                BY <4>1, <4>2 DEF Row
        <3> HIDE DEF g, s
        <3> QED
            BY <3>1, <3>2, <3>3
    <2>2. ledger' \in Seq(Publication)
        BY <1>5 DEF Rollback, TypeOK
    <2> QED
        BY <1>5, <2>1, <2>2 DEF Rollback, TypeOK
<1> QED
    BY <1>1, <1>2, <1>3, <1>4, <1>5, <1>6 DEF Outside

\* Every step keeps the types.
LEMMA NextType ==
    ASSUME TypeOK, [Next]_vars
    PROVE  TypeOK'
<1>1. CASE RunStep
    <2>1. CASE \E mode \in Modes : GateResume(mode)
        BY <2>1, GateType
    <2>2. CASE GateStartNew
        BY <2>2, GateType
    <2>3. CASE Restore
        BY <2>3, RestoreType
    <2>4. CASE Verify
        BY <2>4, VerifyType
    <2>5. CASE CreateGeneration
        BY <2>5, CreateType
    <2>6. CASE Fetch
        BY <2>6, OutOfTimeType, FinishFetchType, RosterRefusedType, FetchPlayersType
           DEF Fetch
    <2>7. CASE SaveCache
        BY <2>7, SaveCacheType
    <2>8. CASE LoadAndCheck
        BY <2>8, LoadAndCheckType
    <2>9. CASE MarkValidated
        BY <2>9, MarkValidatedType
    <2>10. CASE Promote
        BY <2>10, PromoteType
    <2> QED
        BY <1>1, <2>1, <2>2, <2>3, <2>4, <2>5, <2>6, <2>7, <2>8, <2>9, <2>10 DEF RunStep
<1>2. CASE Outside
    BY <1>2, OutsideType
<1>3. CASE UNCHANGED vars
    BY <1>3 DEF vars, TypeOK
<1> QED
    BY <1>1, <1>2, <1>3 DEF Next

\* Type correctness: in every reachable state each variable of the pipeline has
\* its type, and a run that creates, restores or works on a generation has one.
THEOREM TypeCorrect == Spec => []TypeOK
<1>1. Init => TypeOK
    BY InitType
<1>2. TypeOK /\ [Next]_vars => TypeOK'
    BY NextType
<1> QED
    BY <1>1, <1>2, PTL DEF Spec

-----------------------------------------------------------------------------
(* The revision in the database *)

Working == {"fetch", "save", "load", "mark", "promote"}

\* Why a record never moves a row back: what a run works on was checked against
\* the revision its gate read, which nobody else can have moved since, and a
\* generation that was never created has no row.
RevisionInv ==
    /\ \A g \in Gen : g >= nextGen => db[g] = NoRow
    /\ pc \in {"restore", "verify"} =>
          job.gen < nextGen /\ db[job.gen].rev <= job.rev
    /\ pc \in Working => diskGen < nextGen /\ db[diskGen].rev <= disk.rev

-----------------------------------------------------------------------------
(* RevisionInv is inductive, and every step keeps the revisions from falling *)

RevisionsRise == \A g \in Gen : db'[g].rev >= db[g].rev

\* A step that leaves the rows' revisions and the absent rows alone, and whose
\* run ends or goes on with the same generation, keeps both.
LEMMA QuietStep ==
    ASSUME TypeOK, TypeOK', RevisionInv, nextGen' = nextGen,
           \A g \in Gen : db'[g].rev = db[g].rev /\ (db[g] = NoRow => db'[g] = NoRow),
           \/ pc' \in {"idle", "create"}
           \/ /\ pc \in Working /\ pc' \in Working
              /\ diskGen' = diskGen /\ disk'.rev >= disk.rev
           \/ /\ pc \in {"restore", "verify"} /\ pc' \in {"restore", "verify"}
              /\ job' = job
    PROVE  RevisionInv' /\ RevisionsRise
<1>1. \A g \in Gen : db[g].rev \in Nat /\ db'[g].rev \in Nat
    BY DEF TypeOK, Row
<1>2. disk.rev \in Nat /\ disk'.rev \in Nat
    BY DEF TypeOK, Checkpoint
<1>3. RevisionsRise
    BY <1>1 DEF RevisionsRise
<1>4. \A g \in Gen : g >= nextGen' => db'[g] = NoRow
    BY DEF RevisionInv
<1>5. pc' \in Working => diskGen' < nextGen' /\ db'[diskGen'].rev <= disk'.rev
    <2>1. CASE pc \in Working /\ diskGen' = diskGen /\ disk'.rev >= disk.rev
        <3>1. diskGen \in Gen /\ diskGen < nextGen /\ db[diskGen].rev <= disk.rev
            BY <2>1 DEF RevisionInv, TypeOK, Working
        <3> QED
            BY <1>1, <1>2, <2>1, <3>1
    <2> QED
        BY <2>1 DEF Working
<1>6. pc' \in {"restore", "verify"} => job'.gen < nextGen' /\ db'[job'.gen].rev <= job'.rev
    <2>1. CASE pc \in {"restore", "verify"} /\ job' = job
        BY <2>1 DEF RevisionInv, TypeOK
    <2> QED
        BY <2>1 DEF Working
<1> QED
    BY <1>3, <1>4, <1>5, <1>6 DEF RevisionInv

\* A record of the checkpoint on disk moves its own row up to it.
LEMMA RecordRises ==
    ASSUME TypeOK, TypeOK', RevisionInv, NEW ok \in BOOLEAN, Record(ok, disk'),
           pc \in Working, pc' \in Working, diskGen' = diskGen, nextGen' = nextGen,
           disk'.rev >= disk.rev
    PROVE  RevisionInv' /\ RevisionsRise
<1>1. diskGen \in Gen /\ diskGen < nextGen /\ db[diskGen].rev <= disk.rev
    BY DEF TypeOK, RevisionInv, Working
<1>2. \A g \in Gen : db[g].rev \in Nat
    BY DEF TypeOK, Row
<1>3. disk.rev \in Nat /\ disk'.rev \in Nat
    BY DEF TypeOK, Checkpoint
<1>4. db'[diskGen].rev = disk'.rev \/ db'[diskGen].rev = db[diskGen].rev
    BY <1>1 DEF Record, RowOf, TypeOK
<1>5. \A g \in Gen \ {diskGen} : db'[g] = db[g]
    BY DEF Record, TypeOK
<1>6. RevisionsRise
    BY <1>1, <1>2, <1>3, <1>4, <1>5 DEF RevisionsRise
<1>7. db'[diskGen].rev <= disk'.rev
    BY <1>1, <1>2, <1>3, <1>4
<1>8. \A g \in Gen : g >= nextGen => db'[g] = NoRow
    <2> SUFFICES ASSUME NEW g \in Gen, g >= nextGen PROVE db'[g] = NoRow
        OBVIOUS
    <2>1. g # diskGen
        BY <1>1 DEF TypeOK
    <2> QED
        BY <1>5, <2>1 DEF RevisionInv
<1> QED
    BY <1>1, <1>6, <1>7, <1>8 DEF RevisionInv, Working

\* The gate hands its run the revision it has just read, of a row that exists.
LEMMA GateRevision ==
    ASSUME TypeOK, TypeOK', RevisionInv, NEW mode \in Modes, GateResume(mode)
    PROVE  RevisionInv' /\ RevisionsRise
<1> DEFINE g == Decision(mode, db).gen
<1>1. g \in Gen /\ db[g].status \in LiveStatuses
    BY DEF GateResume, Decision, LiveIn
<1>2. g < nextGen
    BY <1>1 DEF RevisionInv, NoRow, TypeOK
<1>3. job' = [gen |-> g, rev |-> db[g].rev] /\ pc' = "restore" /\ UNCHANGED <<db, nextGen>>
    BY DEF GateResume
<1> HIDE DEF g
<1>4. \A h \in Gen : db[h].rev \in Nat
    BY DEF TypeOK, Row
<1> QED
    BY <1>1, <1>2, <1>3, <1>4 DEF RevisionInv, RevisionsRise, Working

\* The verifier lets through only a checkpoint at least as new as its row.
LEMMA VerifyRevision ==
    ASSUME TypeOK, TypeOK', RevisionInv, Verify
    PROVE  RevisionInv' /\ RevisionsRise
<1>1. /\ pc = "verify" /\ job.gen \in Gen /\ job.gen < nextGen
      /\ db[job.gen].rev <= job.rev /\ nextGen' = nextGen
    BY DEF Verify, VerifyRefuse, VerifyEqual, VerifyNewer, RevisionInv, TypeOK
<1>2. \A g \in Gen : db[g] \in Row /\ db[g].rev \in Nat
    BY DEF TypeOK, Row
<1>3. disk \in Checkpoint /\ disk.rev \in Nat /\ job.rev \in Nat
    BY DEF TypeOK, Checkpoint, Job
<1>4. CASE VerifyRefuse
    BY <1>4, EndRunType, QuietStep DEF VerifyRefuse
<1>5. ASSUME NEW action, Take(action), diskGen = job.gen, disk.rev >= job.rev,
             \A g \in Gen \ {diskGen} : db'[g] = db[g],
             db'[diskGen].rev >= db[diskGen].rev,
             db'[diskGen].rev <= disk.rev
      PROVE  RevisionInv' /\ RevisionsRise
    <2>1. RevisionsRise
        BY <1>2, <1>5 DEF RevisionsRise
    <2>2. \A g \in Gen : g >= nextGen => db'[g] = NoRow
        <3> SUFFICES ASSUME NEW g \in Gen, g >= nextGen PROVE db'[g] = NoRow
            OBVIOUS
        <3>1. g # diskGen
            BY <1>1, <1>5 DEF TypeOK
        <3> QED
            BY <1>5, <3>1 DEF RevisionInv
    <2>3. CASE EndRun
        BY <1>1, <2>1, <2>2, <2>3, EndRunType DEF RevisionInv, Working
    <2>4. CASE pc' \in {"fetch", "load"} /\ UNCHANGED <<diskGen, disk>>
        BY <1>1, <1>5, <2>1, <2>2, <2>4 DEF RevisionInv, Working
    <2> QED
        BY <1>5, <2>3, <2>4 DEF Take
<1>6. CASE VerifyEqual
    <2>1. PICK action : Take(action)
        BY <1>6 DEF VerifyEqual
    <2>2. db' = db /\ diskGen = job.gen /\ disk.rev >= job.rev
        BY <1>6 DEF VerifyEqual, Verified
    <2> QED
        BY <1>1, <1>2, <1>3, <1>5, <2>1, <2>2
<1>7. CASE VerifyNewer
    <2>1. PICK row \in {db[diskGen], Reconciled(db[diskGen], disk)} :
              db' = [db EXCEPT ![diskGen] = row] /\ \E action : Take(action)
        BY <1>7 DEF VerifyNewer
    <2>2. diskGen = job.gen /\ disk.rev >= job.rev
        BY <1>7 DEF VerifyNewer, Verified
    <2>3. row.rev >= db[diskGen].rev /\ row.rev <= disk.rev
        <3>1. Reconciled(db[diskGen], disk).rev \in {db[diskGen].rev, disk.rev}
            BY DEF Reconciled, RowOf
        <3> QED
            BY <1>1, <1>2, <1>3, <2>1, <2>2, <3>1
    <2>4. db'[diskGen] = row /\ \A g \in Gen \ {diskGen} : db'[g] = db[g]
        BY <1>1, <2>1, <2>2 DEF TypeOK
    <2> QED
        BY <1>5, <2>1, <2>2, <2>3, <2>4
<1> QED
    BY <1>4, <1>6, <1>7 DEF Verify

\* No step of a fetch takes a row's revision back, and the disk stays at least
\* as new as its row (ingest.py, publish_status.py record).
LEMMA FetchRevision ==
    ASSUME TypeOK, TypeOK', RevisionInv, Fetch
    PROVE  RevisionInv' /\ RevisionsRise
<1>1. disk \in Checkpoint /\ disk.rev \in Nat
    BY DEF TypeOK, Checkpoint
<1>2. CASE OutOfTime
    BY <1>1, <1>2, QuietStep DEF OutOfTime, Working
<1>3. CASE FinishFetch
    <2>1. disk'.rev >= disk.rev
        BY <1>1, <1>3 DEF FinishFetch, NextRev, Checkpoint
    <2>2. PICK ok \in BOOLEAN : Record(ok, disk')
        BY <1>3 DEF FinishFetch
    <2> QED
        BY <1>3, <2>1, <2>2, RecordRises DEF FinishFetch, Working
<1>4. ASSUME NEW c \in Comp, RosterRefused(c)
      PROVE  RevisionInv' /\ RevisionsRise
    <2>1. disk'.rev = disk.rev
        BY <1>1, <1>4 DEF RosterRefused, Visited, Checkpoint
    <2>2. PICK ok \in BOOLEAN : Record(ok, disk')
        BY <1>4 DEF RosterRefused
    <2> QED
        <3>1. pc = "fetch" /\ UNCHANGED <<pc, diskGen, nextGen>>
            BY <1>4 DEF RosterRefused, Fetching
        <3>2. disk'.rev >= disk.rev
            BY <1>1, <2>1
        <3> QED
            BY <2>2, <3>1, <3>2, RecordRises DEF Working
<1>5. ASSUME NEW c \in Comp, FetchPlayers(c)
      PROVE  RevisionInv' /\ RevisionsRise
    <2>1. PICK size, got, cause, seen, ok : ok \in BOOLEAN /\ Visit(c, size, got, cause, ok, seen)
        BY <1>5 DEF FetchPlayers
    <2>2. disk'.rev = disk.rev
        BY <1>1, <2>1 DEF Visit, Visited, Checkpoint
    <2>3. ok \in BOOLEAN /\ Record(ok, disk')
        BY <2>1 DEF Visit
    <2> QED
        BY <1>1, <1>5, <2>2, <2>3, RecordRises DEF FetchPlayers, Fetching, Working
<1> QED
    BY <1>2, <1>3, <1>4, <1>5 DEF Fetch

\* A new generation's row has no revision yet (generations.py create).
LEMMA CreateRevision ==
    ASSUME TypeOK, TypeOK', RevisionInv, CreateGeneration
    PROVE  RevisionInv' /\ RevisionsRise
<1>1. nextGen \in Gen /\ db[nextGen] = NoRow
    BY DEF CreateGeneration, RevisionInv, TypeOK
<1>2. \A g \in Gen : db[g].rev \in Nat
    BY DEF TypeOK, Row
<1> QED
    BY <1>1, <1>2 DEF CreateGeneration, RevisionInv, RevisionsRise, NewGeneration, NoRow,
                      Working, TypeOK

\* The steps after the fetch, and those from outside, change statuses only.
LEMMA StatusStep ==
    ASSUME TypeOK, NEW g, NEW s, s # Absent, db' = [db EXCEPT ![g].status = s],
           g \in Gen => db[g].status # Absent
    PROVE  \A h \in Gen : db'[h].rev = db[h].rev /\ (db[h] = NoRow => db'[h] = NoRow)
<1> SUFFICES ASSUME NEW h \in Gen
             PROVE  db'[h].rev = db[h].rev /\ (db[h] = NoRow => db'[h] = NoRow)
    OBVIOUS
<1>1. CASE h = g
    BY <1>1 DEF TypeOK, Row, NoRow
<1>2. CASE h # g
    BY <1>2 DEF TypeOK
<1> QED
    BY <1>1, <1>2

\* From the save to the promotion revisions do not move.
LEMMA LaterRevision ==
    ASSUME TypeOK, TypeOK', RevisionInv,
           SaveCache \/ LoadAndCheck \/ MarkValidated \/ Promote
    PROVE  RevisionInv' /\ RevisionsRise
<1>1. disk \in Checkpoint /\ disk.rev \in Nat
    BY DEF TypeOK, Checkpoint
<1>2. CASE SaveCache \/ LoadAndCheck
    BY <1>1, <1>2, EndRunType, QuietStep DEF SaveCache, LoadAndCheck, Working
<1>3. CASE MarkValidated
    <2>1. CASE EndRun /\ UNCHANGED db
        BY <1>3, <2>1, EndRunType, QuietStep DEF MarkValidated
    <2>2. CASE /\ db[diskGen].status \in {"COMPLETE", "VALIDATED", "PUBLISHED"}
               /\ db' = [db EXCEPT ![diskGen].status =
                            IF @ = "COMPLETE" THEN "VALIDATED" ELSE @]
               /\ disk' = [disk EXCEPT !.status = IF @ = "COMPLETE" THEN "VALIDATED" ELSE @]
               /\ pc' = "promote"
               /\ UNCHANGED diskGen
        <3> DEFINE s == IF db[diskGen].status = "COMPLETE" THEN "VALIDATED"
                        ELSE db[diskGen].status
        <3>1. s # Absent /\ db' = [db EXCEPT ![diskGen].status = s]
            BY <2>2
        <3>2. \A h \in Gen : db'[h].rev = db[h].rev /\ (db[h] = NoRow => db'[h] = NoRow)
            BY <2>2, <3>1, StatusStep
        <3>3. disk'.rev = disk.rev
            BY <1>1, <2>2 DEF Checkpoint
        <3> QED
            BY <1>1, <1>3, <2>2, <3>2, <3>3, QuietStep DEF MarkValidated, Working
    <2> QED
        BY <1>3, <2>1, <2>2 DEF MarkValidated
<1>4. CASE Promote
    <2>1. db' = db \/ ( /\ db[diskGen].status \in AwaitingPublication
                        /\ db' = [db EXCEPT ![diskGen].status = "PUBLISHED"] )
        BY <1>4 DEF Promote
    <2>2. \A h \in Gen : db'[h].rev = db[h].rev /\ (db[h] = NoRow => db'[h] = NoRow)
        BY <2>1, StatusStep
    <2> QED
        BY <1>4, <2>2, EndRunType, QuietStep DEF Promote
<1> QED
    BY <1>2, <1>3, <1>4

\* Nothing that happens from outside moves a revision, but for a person who
\* abandons beside a directory.
LEMMA OutsideRevision ==
    ASSUME TypeOK, TypeOK', RevisionInv, Outside, "abandon_disk" \notin Operator
    PROVE  RevisionInv' /\ RevisionsRise
<1>1. disk \in Checkpoint /\ disk.rev \in Nat
    BY DEF TypeOK, Checkpoint
<1>2. CASE Crash
    BY <1>2, EndRunType, QuietStep DEF Crash
<1>3. CASE \/ \E g \in Gen : Evict(g) \/ Abandon(g)
           \/ \E c \in Comp : ExcludeCompetition(c)
           \/ Rollback
    <2>1. UNCHANGED <<nextGen, pc, job, diskGen, disk>>
        BY <1>3 DEF Evict, Abandon, ExcludeCompetition, Rollback
    <2>2. \/ db' = db
          \/ \E g \in Gen : /\ db[g].status \in LiveStatuses
                            /\ db' = [db EXCEPT ![g].status = "FAILED"]
          \/ \E g : /\ db[g].status = "PUBLISHED"
                    /\ db' = [db EXCEPT ![g].status = "VALIDATED"]
        <3>1. CASE Rollback
            <4> DEFINE g == ledger[Len(ledger)].gen
            <4>1. db' = [db EXCEPT ![g].status = IF @ = "PUBLISHED" THEN "VALIDATED" ELSE @]
                BY <3>1 DEF Rollback
            <4>2. CASE db[g].status = "PUBLISHED"
                BY <4>1, <4>2
            <4>3. CASE db[g].status # "PUBLISHED"
                <5>1. db' = [db EXCEPT ![g].status = db[g].status]
                    BY <4>1, <4>3
                <5>2. CASE g \in Gen
                    <6>1. db[g] = [db[g] EXCEPT !.status = db[g].status]
                        BY <5>2 DEF TypeOK, Row
                    <6>2. db' = [db EXCEPT ![g] = db[g]]
                        BY <5>1, <6>1
                    <6>3. db \in [Gen -> Row]
                        BY DEF TypeOK
                    <6>4. db' = db
                        BY <6>2, <6>3
                    <6> QED
                        BY <6>4
                <5>3. CASE g \notin Gen
                    <6>1. db \in [Gen -> Row]
                        BY DEF TypeOK
                    <6>2. db' = db
                        BY <5>1, <5>3, <6>1
                    <6> QED
                        BY <6>2
                <5> QED
                    BY <5>2, <5>3
            <4> QED
                BY <4>2, <4>3
        <3> QED
            BY <1>3, <3>1 DEF Evict, Abandon, ExcludeCompetition
    <2>3. \A h \in Gen : db'[h].rev = db[h].rev /\ (db[h] = NoRow => db'[h] = NoRow)
        BY <2>2, StatusStep
    <2>4. pc' \in {"idle", "create"} \/ pc' \in Working \/ pc' \in {"restore", "verify"}
        BY DEF TypeOK, Working
    <2> QED
        BY <1>1, <2>1, <2>3, <2>4, QuietStep
<1> QED
    BY <1>2, <1>3 DEF Outside, AbandonOnDisk

\* Every step keeps the revisions in order and takes none back.
LEMMA NextRevision ==
    ASSUME TypeOK, TypeOK', RevisionInv, [Next]_vars, "abandon_disk" \notin Operator
    PROVE  RevisionInv' /\ RevisionsRise
<1>1. disk.rev \in Nat /\ \A g \in Gen : db[g].rev \in Nat
    BY DEF TypeOK, Checkpoint, Row
<1>2. CASE GateStartNew
    BY <1>2, QuietStep DEF GateStartNew
<1>3. CASE Restore
    BY <1>3, QuietStep DEF Restore
<1>4. CASE UNCHANGED vars
    BY <1>1, <1>4 DEF vars, RevisionInv, RevisionsRise
<1> QED
    BY <1>2, <1>3, <1>4, GateRevision, VerifyRevision, CreateRevision, FetchRevision,
       LaterRevision, OutsideRevision
       DEF Next, RunStep

\* The revisions are in order at the start.
LEMMA InitRevision == Init => RevisionInv
BY DEF Init, RevisionInv, Working

\* The revision in the database never goes down, whatever checkpoint a run was
\* given, whichever of its writes were lost and whatever a person rolls back or
\* abandons by id alone: record is an unguarded upsert (publish_status.py), and
\* it is the verifier (gate.py) that keeps it safe.  A person who abandons
\* beside a copy of the directory records that copy with no verifier before it
\* (generations.py main), and may take the revision back.
THEOREM RevisionsNeverRegress ==
    ASSUME "abandon_disk" \notin Operator
    PROVE  Spec => RevisionNeverRegresses
<1>1. Init => TypeOK /\ RevisionInv
    BY InitType, InitRevision
<1>2. TypeOK /\ RevisionInv /\ [Next]_vars => TypeOK' /\ RevisionInv'
    BY NextType, NextRevision
<1>3. TypeOK /\ RevisionInv /\ [Next]_vars => [\A g \in Gen : db'[g].rev >= db[g].rev]_vars
    BY NextType, NextRevision DEF RevisionsRise
<1> QED
    BY <1>1, <1>2, <1>3, PTL DEF Spec, RevisionNeverRegresses

-----------------------------------------------------------------------------
(* Whole universes *)

\* Every competition asked for was visited and is finished.
Whole(k, asked) ==
    /\ k.wanted # {}
    /\ asked \subseteq k.wanted
    /\ k.wanted \subseteq k.finished

\* What a checkpoint claims is so: a finished competition has its whole roster,
\* one never visited has none, and a finished generation is whole.
Honest(k, asked) ==
    /\ \A c \in k.finished : k.done[c] = k.roster[c]
    /\ \A c \in Comp \ k.wanted : k.done[c] = 0 /\ k.roster[c] = 0
    /\ k.status \in Publishable => Whole(k, asked)

\* While it fetches, a run that has met no incomplete competition has visited
\* every one it does not still have to visit.
FetchSound ==
    pc = "fetch" =>
        /\ disk.status = "IN_PROGRESS"
        /\ ~report.bad => configured \subseteq disk.wanted \cup report.todo

\* What was loaded is the whole of a whole generation.
LoadSound ==
    pc \in {"mark", "promote"} => Whole(disk, configured) /\ loaded = disk.roster

IntactWhileWorking == pc \in Working => Intact

SavedHonest == \A g \in Gen : \A i \in DOMAIN cache[g] : Honest(cache[g][i], configured)

WholenessInv ==
    /\ Honest(disk, configured)
    /\ SavedHonest
    /\ IntactWhileWorking
    /\ FetchSound
    /\ LoadSound
    /\ NoPartialUniversePublished

\* A fresh directory claims nothing.
LEMMA NewIsHonest ==
    ASSUME NEW asked
    PROVE  Honest(NewGeneration, asked)
BY DEF NewGeneration, Honest, Empty, Publishable

\* Asking for less keeps a claim true.
LEMMA HonestForFewer ==
    ASSUME NEW k, NEW asked, NEW fewer \in SUBSET asked, Honest(k, asked)
    PROVE  Honest(k, fewer)
BY DEF Honest, Whole

\* The saved checkpoints and the ledger stay as they are, or lose entries: what
\* is said of them stays true when the configuration asks for no more.
LEMMA HistoryKept ==
    ASSUME WholenessInv, configured' \subseteq configured,
           ledger' = ledger, cache' = cache
    PROVE  SavedHonest' /\ NoPartialUniversePublished'
<1>1. SavedHonest'
    BY HonestForFewer DEF WholenessInv, SavedHonest
<1>2. NoPartialUniversePublished'
    BY DEF WholenessInv, NoPartialUniversePublished
<1> QED
    BY <1>1, <1>2

\* A run that ends leaves nothing behind but what it saved.
LEMMA EndKeepsWholeness ==
    ASSUME EndRun, SavedHonest', NoPartialUniversePublished'
    PROVE  WholenessInv'
<1>1. disk' = NewGeneration /\ pc' = "idle"
    BY DEF EndRun
<1>2. Honest(disk', configured')
    BY <1>1, NewIsHonest
<1> QED
    BY <1>1, <1>2 DEF WholenessInv, IntactWhileWorking, FetchSound, LoadSound, Working

\* Steps between runs and before the fetch.
LEMMA GateWholeness ==
    ASSUME TypeOK, WholenessInv, GateStartNew \/ \E mode \in Modes : GateResume(mode)
    PROVE  WholenessInv'
<1>1. /\ UNCHANGED <<ledger, cache, configured, disk, lost, report, loaded>>
      /\ pc' \in {"create", "restore"}
    BY DEF GateStartNew, GateResume
<1> QED
    BY <1>1, HistoryKept DEF WholenessInv, IntactWhileWorking, FetchSound, LoadSound, Working

LEMMA RestoreWholeness ==
    ASSUME TypeOK, WholenessInv, Restore
    PROVE  WholenessInv'
<1>1. UNCHANGED <<ledger, cache, configured>> /\ pc' = "verify"
    BY DEF Restore
<1>2. Honest(disk', configured)
    <2>1. CASE disk' = disk
        BY <2>1 DEF WholenessInv
    <2>2. CASE cache[job.gen] # <<>> /\ disk' = cache[job.gen][Len(cache[job.gen])]
        <3>1. job.gen \in Gen /\ cache[job.gen] \in Seq(Checkpoint)
            BY DEF Restore, TypeOK
        <3>2. Len(cache[job.gen]) \in DOMAIN cache[job.gen]
            BY <2>2, <3>1, EmptySeq, LenProperties
        <3> QED
            BY <2>2, <3>1, <3>2 DEF WholenessInv, SavedHonest
    <2> QED
        BY <2>1, <2>2 DEF Restore
<1> QED
    BY <1>1, <1>2, HistoryKept
       DEF WholenessInv, IntactWhileWorking, FetchSound, LoadSound, Working

LEMMA CreateWholeness ==
    ASSUME TypeOK, WholenessInv, CreateGeneration
    PROVE  WholenessInv'
<1>1. /\ UNCHANGED <<ledger, cache, configured>> /\ pc' = "fetch"
      /\ disk' = NewGeneration /\ lost' = {}
      /\ report'.todo = configured
    BY DEF CreateGeneration, NoReport
<1>2. Honest(disk', configured')
    BY <1>1, NewIsHonest
<1>3. disk'.status = "IN_PROGRESS" /\ disk'.finished \cap lost' = {}
    BY <1>1 DEF NewGeneration
<1> QED
    BY <1>1, <1>2, <1>3, HistoryKept
       DEF WholenessInv, IntactWhileWorking, FetchSound, LoadSound, Intact

\* The verifier hands on an intact checkpoint, and a fetch only of an open one.
LEMMA VerifyWholeness ==
    ASSUME TypeOK, WholenessInv, Verify
    PROVE  WholenessInv'
<1>1. UNCHANGED <<ledger, cache, configured>>
    BY DEF Verify, VerifyRefuse, VerifyEqual, VerifyNewer
<1>2. CASE EndRun
    BY <1>1, <1>2, HistoryKept, EndKeepsWholeness
<1>3. ASSUME Verified, NEW action, Take(action), ~EndRun
      PROVE  WholenessInv'
    <2>1. UNCHANGED <<disk, lost, loaded>> /\ disk.finished \cap lost = {}
        BY <1>3 DEF Take, Verified, Intact
    <2>2. CASE disk.status = "IN_PROGRESS" /\ pc' = "fetch" /\ report'.todo = configured
        BY <1>1, <2>1, <2>2, HistoryKept
           DEF WholenessInv, IntactWhileWorking, FetchSound, LoadSound, Intact
    <2>3. CASE pc' = "load"
        BY <1>1, <2>1, <2>3, HistoryKept
           DEF WholenessInv, IntactWhileWorking, FetchSound, LoadSound, Intact
    <2> QED
        BY <1>3, <2>2, <2>3 DEF Take, NoReport
<1>4. CASE VerifyRefuse
    BY <1>2, <1>4 DEF VerifyRefuse
<1>5. CASE VerifyEqual
    BY <1>2, <1>3, <1>5 DEF VerifyEqual
<1>6. CASE VerifyNewer
    BY <1>2, <1>3, <1>6 DEF VerifyNewer
<1> QED
    BY <1>4, <1>5, <1>6 DEF Verify

\* A visit keeps what a directory claims, as long as the generation is open: c is
\* called finished only with its whole roster there.
LEMMA VisitedHonest ==
    ASSUME NEW c \in Comp, NEW k \in Checkpoint, NEW whole \in BOOLEAN, NEW n \in Nat,
           NEW asked, NEW v, v = Visited(c, k, whole, n),
           k.status \notin Publishable,
           \A d \in k.finished \ {c} : k.done[d] = k.roster[d],
           \A d \in Comp \ k.wanted : k.done[d] = 0 /\ k.roster[d] = 0,
           whole => k.done[c] = k.roster[c]
    PROVE  /\ Honest(v, asked)
           /\ v.status = k.status
           /\ v.wanted = k.wanted
           /\ whole => v.finished = k.finished \cup {c}
           /\ ~whole => v.finished = k.finished \ {c}
<1> DEFINE finished == IF whole THEN k.finished \cup {c} ELSE k.finished \ {c}
<1>1. /\ v.status = k.status /\ v.wanted = k.wanted /\ v.finished = finished
      /\ v.done = k.done /\ v.roster = k.roster
    BY DEF Visited, Checkpoint
<1>2. \A d \in finished : k.done[d] = k.roster[d]
    OBVIOUS
<1> HIDE DEF finished
<1>3. Honest(v, asked)
    BY <1>1, <1>2 DEF Honest
<1> QED
    BY <1>1, <1>3 DEF finished

\* A refused roster call leaves its competition unfinished, so the disk still
\* claims no more than it has (ingest.py, the loop).
LEMMA RosterRefusedWholeness ==
    ASSUME TypeOK, WholenessInv, NEW c \in Comp, RosterRefused(c)
    PROVE  WholenessInv'
<1>1. pc = "fetch" /\ UNCHANGED <<pc, ledger, cache, configured, lost>>
    BY DEF RosterRefused, Fetching
<1>2. disk \in Checkpoint /\ report \in Report /\ report.counted \in Nat
    BY DEF TypeOK, Report
<1>3. disk' = Visited(c, disk, FALSE, report.counted)
    BY DEF RosterRefused
<1>4. disk.status = "IN_PROGRESS" /\ disk.finished \cap lost = {}
    BY <1>1 DEF WholenessInv, FetchSound, IntactWhileWorking, Intact, Working
<1>5. Honest(disk', configured') /\ disk'.status = "IN_PROGRESS"
          /\ disk'.finished = disk.finished \ {c}
    <2>1. /\ disk.status \notin Publishable
          /\ \A d \in disk.finished \ {c} : disk.done[d] = disk.roster[d]
          /\ \A d \in Comp \ disk.wanted : disk.done[d] = 0 /\ disk.roster[d] = 0
        BY <1>4 DEF WholenessInv, Honest, Publishable
    <2>2. PICK w \in BOOLEAN : ~w /\ disk' = Visited(c, disk, w, report.counted)
        BY <1>3
    <2> QED
        BY <1>1, <1>2, <1>4, <2>1, <2>2, VisitedHonest
<1>6. report'.bad
    BY <1>2 DEF RosterRefused, Report
<1> QED
    BY <1>1, <1>4, <1>5, <1>6, HistoryKept
       DEF WholenessInv, IntactWhileWorking, FetchSound, LoadSound, Intact

\* A visit calls its competition finished only with the whole roster on disk
\* (ingest.py ingest_competition).
LEMMA FetchPlayersWholeness ==
    ASSUME TypeOK, WholenessInv, NEW c \in Comp, FetchPlayers(c)
    PROVE  WholenessInv'
<1>1. pc = "fetch" /\ UNCHANGED <<pc, ledger, cache, configured>> /\ lost' = lost \ {c}
    BY DEF FetchPlayers, Fetching
<1>2. disk \in Checkpoint /\ report \in Report /\ report.counted \in Nat
    BY DEF TypeOK, Report
<1>3. PICK size \in Merged(c) : \E got \in Held[c] .. size :
          \E cause, ok : \E seen \in Seen(c, got, cause) : Visit(c, size, got, cause, ok, seen)
    BY DEF FetchPlayers
<1>4. PICK got \in Held[c] .. size :
          \E cause, ok : \E seen \in Seen(c, got, cause) : Visit(c, size, got, cause, ok, seen)
    BY <1>3
<1>5. PICK cause, ok : \E seen \in Seen(c, got, cause) : Visit(c, size, got, cause, ok, seen)
    BY <1>4
<1>6. PICK seen \in Seen(c, got, cause) : Visit(c, size, got, cause, ok, seen)
    BY <1>5
<1>7. Held[c] \in Nat /\ disk.roster[c] \in Nat
    BY <1>2, HeldType DEF Checkpoint
<1>8. size \in Nat /\ got \in Nat /\ got <= size
    BY <1>7, MaxRosterAssumption DEF Merged
<1>9. report.counted + seen \in Nat
    BY <1>2, <1>7, <1>8 DEF Seen
<1> DEFINE k == [disk EXCEPT !.wanted = @ \cup {c}, !.roster[c] = size, !.done[c] = got]
<1>10. /\ k \in Checkpoint /\ k.status = disk.status /\ k.finished = disk.finished
       /\ k.wanted = disk.wanted \cup {c}
       /\ k.roster[c] = size /\ k.done[c] = got
       /\ \A d \in Comp \ {c} : k.roster[d] = disk.roster[d] /\ k.done[d] = disk.done[d]
    BY <1>2, <1>8 DEF Checkpoint
<1>11. disk' = Visited(c, k, got = size, report.counted + seen)
    BY <1>6 DEF Visit
<1> HIDE DEF k
<1>12. disk.status = "IN_PROGRESS" /\ disk.finished \cap lost = {}
    BY <1>1 DEF WholenessInv, FetchSound, IntactWhileWorking, Intact, Working
<1>13. /\ \A d \in k.finished \ {c} : k.done[d] = k.roster[d]
       /\ \A d \in Comp \ k.wanted : k.done[d] = 0 /\ k.roster[d] = 0
    BY <1>2, <1>10 DEF WholenessInv, Honest, Checkpoint
<1>14. /\ Honest(disk', configured') /\ disk'.status = "IN_PROGRESS"
       /\ disk'.wanted = disk.wanted \cup {c}
       /\ disk'.finished \subseteq disk.finished \cup {c}
    <2>1. k.status \notin Publishable /\ (got = size) \in BOOLEAN
        BY <1>10, <1>12 DEF Publishable
    <2>2. (got = size) => k.done[c] = k.roster[c]
        BY <1>10
    <2>3. PICK w \in BOOLEAN : /\ w => got = size
                              /\ disk' = Visited(c, k, w, report.counted + seen)
        BY <1>11
    <2>4. w => k.done[c] = k.roster[c]
        BY <2>2, <2>3
    <2>5. /\ Honest(disk', configured') /\ disk'.status = k.status /\ disk'.wanted = k.wanted
          /\ w => disk'.finished = k.finished \cup {c}
          /\ ~w => disk'.finished = k.finished \ {c}
        BY <1>9, <1>10, <1>13, <2>1, <2>3, <2>4, VisitedHonest
    <2> QED
        BY <1>10, <1>12, <2>5
<1>15. report'.todo = report.todo \ {c} /\ (report.bad => report'.bad)
    BY <1>6 DEF Visit
<1>16. FetchSound'
    BY <1>1, <1>14, <1>15 DEF WholenessInv, FetchSound
<1> QED
    BY <1>1, <1>12, <1>14, <1>16, HistoryKept
       DEF WholenessInv, IntactWhileWorking, LoadSound, Intact

\* The verdict: a generation is called finished only after a run that visited
\* every competition asked for and found each one complete.
LEMMA FinishFetchWholeness ==
    ASSUME TypeOK, WholenessInv, FinishFetch
    PROVE  WholenessInv'
<1> DEFINE whole == EvaluateCompleteness(disk) /\ ReportComplete(report)
           status == IF report.fatal THEN "FAILED"
                     ELSE IF whole THEN "COMPLETE" ELSE disk.status
<1>1. pc = "fetch" /\ pc' = "save" /\ UNCHANGED <<ledger, cache, configured, lost>>
    BY DEF FinishFetch
<1>2. disk \in Checkpoint /\ report \in Report
    BY DEF TypeOK
<1>3. /\ disk'.status = status /\ disk'.wanted = disk.wanted
      /\ disk'.finished = disk.finished /\ disk'.done = disk.done
      /\ disk'.roster = disk.roster
    BY <1>2 DEF FinishFetch, Checkpoint
<1>4. whole => Whole(disk, configured)
    BY <1>1, <1>2 DEF EvaluateCompleteness, ReportComplete, Whole, WholenessInv, FetchSound
<1>5. status \in Publishable => Whole(disk, configured)
    BY <1>1, <1>4 DEF WholenessInv, FetchSound, Publishable
<1> HIDE DEF whole, status
<1>6. Honest(disk', configured')
    BY <1>1, <1>3, <1>5 DEF WholenessInv, Honest, Whole
<1> QED
    BY <1>1, <1>3, <1>6, HistoryKept
       DEF WholenessInv, IntactWhileWorking, FetchSound, LoadSound, Intact, Working

\* Every step of a fetch keeps the disk honest.
LEMMA FetchWholeness ==
    ASSUME TypeOK, WholenessInv, Fetch
    PROVE  WholenessInv'
<1>1. CASE OutOfTime
    <2>1. report'.todo = report.todo /\ report'.bad = report.bad
        BY <1>1 DEF OutOfTime, TypeOK, Report
    <2>2. UNCHANGED <<pc, ledger, cache, configured, disk, lost, loaded>>
        BY <1>1 DEF OutOfTime
    <2> QED
        BY <2>1, <2>2, HistoryKept
           DEF WholenessInv, IntactWhileWorking, FetchSound, LoadSound, Intact
<1> QED
    BY <1>1, FinishFetchWholeness, RosterRefusedWholeness, FetchPlayersWholeness DEF Fetch

\* What is saved is what a reader of the directory would find there.
LEMMA SaveCacheWholeness ==
    ASSUME TypeOK, WholenessInv, SaveCache
    PROVE  WholenessInv'
<1>1. pc = "save" /\ diskGen \in Gen /\ UNCHANGED <<ledger, configured>>
    BY DEF SaveCache, TypeOK
<1>2. disk \in Checkpoint /\ Intact
    BY <1>1 DEF TypeOK, WholenessInv, IntactWhileWorking, Working
<1> DEFINE k == [disk EXCEPT !.done = Held]
<1>3. k \in Checkpoint
    BY <1>2, HeldType DEF Checkpoint
<1>4. Honest(k, configured)
    <2>1. k.wanted = disk.wanted /\ k.finished = disk.finished /\ k.status = disk.status
              /\ k.roster = disk.roster /\ k.done = Held
        BY <1>2 DEF Checkpoint
    <2>2. \A c \in disk.finished : Held[c] = disk.done[c]
        BY <1>2 DEF Held, Intact, Checkpoint
    <2>3. \A c \in Comp : disk.done[c] = 0 => Held[c] = 0
        BY DEF Held
    <2> HIDE DEF k
    <2> QED
        BY <2>1, <2>2, <2>3 DEF WholenessInv, Honest, Whole
<1> HIDE DEF k
<1>5. cache' = cache \/ cache' = [cache EXCEPT ![diskGen] = Saved(@, k)]
    BY DEF SaveCache, k
<1>6. SavedHonest'
    <2> SUFFICES ASSUME NEW g \in Gen, NEW i \in DOMAIN cache'[g]
                 PROVE  Honest(cache'[g][i], configured)
        BY <1>1 DEF SavedHonest
    <2>1. \A j \in DOMAIN cache[g] : Honest(cache[g][j], configured)
        BY DEF WholenessInv, SavedHonest
    <2>2. CASE cache'[g] = cache[g]
        BY <2>1, <2>2
    <2>3. CASE cache'[g] = Append(cache[g], k)
        <3>1. cache[g] \in Seq(Checkpoint) /\ cache'[g] \in Seq(Checkpoint)
            BY <1>3, <2>3, AppendProperties DEF TypeOK
        <3>2. i \in 1 .. Len(cache[g]) + 1 /\ DOMAIN cache[g] = 1 .. Len(cache[g])
            BY <1>3, <2>3, <3>1, AppendProperties, LenProperties
        <3>3. CASE i = Len(cache[g]) + 1
            BY <1>3, <1>4, <2>3, <3>1, <3>3, AppendProperties
        <3>4. CASE i \in 1 .. Len(cache[g])
            BY <1>3, <2>1, <2>3, <3>1, <3>2, <3>4, AppendProperties
        <3> QED
            BY <3>1, <3>2, <3>3, <3>4, LenProperties
    <2> QED
        BY <1>5, <2>2, <2>3 DEF Saved, TypeOK
<1>7. NoPartialUniversePublished'
    BY <1>1 DEF WholenessInv, NoPartialUniversePublished
<1>8. CASE EndRun
    BY <1>6, <1>7, <1>8, EndKeepsWholeness
<1>9. CASE pc' = "load" /\ UNCHANGED <<job, diskGen, disk, lost, report, loaded>>
    BY <1>1, <1>2, <1>6, <1>7, <1>9
       DEF WholenessInv, IntactWhileWorking, FetchSound, LoadSound, Intact
<1> QED
    BY <1>8, <1>9 DEF SaveCache

\* The load takes every player of a whole generation.
LEMMA LoadWholeness ==
    ASSUME TypeOK, WholenessInv, LoadAndCheck
    PROVE  WholenessInv'
<1>1. pc = "load" /\ UNCHANGED <<ledger, cache, configured>>
    BY DEF LoadAndCheck
<1>2. CASE EndRun
    BY <1>1, <1>2, HistoryKept, EndKeepsWholeness
<1>3. CASE /\ disk.status \in Publishable /\ loaded' = Held /\ pc' = "mark"
           /\ UNCHANGED <<disk, lost>>
    <2>1. disk \in Checkpoint /\ Intact
        BY <1>1 DEF TypeOK, WholenessInv, IntactWhileWorking, Working
    <2>2. Whole(disk, configured)
        BY <1>3 DEF WholenessInv, Honest
    <2>3. \A c \in Comp : Held[c] = disk.roster[c]
        BY <2>1, <2>2 DEF Held, Intact, Whole, WholenessInv, Honest, Checkpoint
    <2>4. loaded' = disk.roster
        BY <1>3, <2>1, <2>3 DEF Held, Checkpoint
    <2> QED
        BY <1>1, <1>3, <2>1, <2>2, <2>4, HistoryKept
           DEF WholenessInv, IntactWhileWorking, FetchSound, LoadSound, Intact
<1> QED
    BY <1>2, <1>3 DEF LoadAndCheck

\* Marking a generation validated adds no claim about its files.
LEMMA MarkWholeness ==
    ASSUME TypeOK, WholenessInv, MarkValidated
    PROVE  WholenessInv'
<1>1. pc = "mark" /\ UNCHANGED <<ledger, cache, configured>>
    BY DEF MarkValidated
<1>2. CASE EndRun
    BY <1>1, <1>2, HistoryKept, EndKeepsWholeness
<1>3. CASE /\ disk' = [disk EXCEPT !.status = IF @ = "COMPLETE" THEN "VALIDATED" ELSE @]
           /\ pc' = "promote" /\ UNCHANGED <<lost, loaded>>
    <2>1. disk \in Checkpoint /\ Intact /\ Whole(disk, configured) /\ loaded = disk.roster
        BY <1>1 DEF TypeOK, WholenessInv, IntactWhileWorking, LoadSound, Working
    <2>2. /\ disk'.wanted = disk.wanted /\ disk'.finished = disk.finished
          /\ disk'.done = disk.done /\ disk'.roster = disk.roster
        BY <1>3, <2>1 DEF Checkpoint
    <2>3. Whole(disk', configured') /\ Honest(disk', configured')
        BY <1>1, <2>1, <2>2 DEF Whole, Honest, WholenessInv
    <2> QED
        BY <1>1, <1>3, <2>1, <2>2, <2>3, HistoryKept
           DEF WholenessInv, IntactWhileWorking, FetchSound, LoadSound, Intact
<1> QED
    BY <1>2, <1>3 DEF MarkValidated

\* The ledger gains only what was loaded from a whole generation.
LEMMA PromoteWholeness ==
    ASSUME TypeOK, WholenessInv, Promote
    PROVE  WholenessInv'
<1>1. pc = "promote" /\ EndRun /\ UNCHANGED <<cache, configured>> /\ diskGen \in Gen
    BY DEF Promote, TypeOK
<1>2. SavedHonest'
    BY <1>1 DEF WholenessInv, SavedHonest
<1> DEFINE p == [gen |-> diskGen, wanted |-> disk.wanted, roster |-> disk.roster,
                 have |-> loaded]
<1>3. ledger' = ledger \/ ledger' = Append(ledger, p)
    BY DEF Promote
<1>4. /\ p.wanted # {} /\ configured \subseteq p.wanted /\ p.have = p.roster
      /\ p \in Publication
    BY <1>1 DEF WholenessInv, LoadSound, Whole, TypeOK, Checkpoint, Publication
<1> HIDE DEF p
<1>5. NoPartialUniversePublished'
    <2>1. CASE ledger' = ledger
        BY <1>1, <2>1 DEF WholenessInv, NoPartialUniversePublished
    <2>2. CASE ledger' = Append(ledger, p)
        <3>1. ledger \in Seq(Publication)
            BY DEF TypeOK
        <3> SUFFICES ASSUME NEW i \in DOMAIN ledger'
                     PROVE  /\ ledger'[i].wanted # {}
                            /\ configured \subseteq ledger'[i].wanted
                            /\ ledger'[i].have = ledger'[i].roster
            BY <1>1 DEF NoPartialUniversePublished
        <3>2. i \in 1 .. Len(ledger) + 1 /\ DOMAIN ledger = 1 .. Len(ledger)
            BY <1>4, <2>2, <3>1, AppendProperties, LenProperties
        <3>3. CASE i = Len(ledger) + 1
            BY <1>4, <2>2, <3>1, <3>3, AppendProperties
        <3>4. CASE i \in 1 .. Len(ledger)
            BY <1>4, <2>2, <3>1, <3>2, <3>4, AppendProperties
               DEF WholenessInv, NoPartialUniversePublished
        <3> QED
            BY <3>1, <3>2, <3>3, <3>4, LenProperties
    <2> QED
        BY <1>3, <2>1, <2>2
<1> QED
    BY <1>1, <1>2, <1>5, EndKeepsWholeness

\* Nothing from outside makes a checkpoint or a publication less than whole.
LEMMA OutsideWholeness ==
    ASSUME TypeOK, WholenessInv, Outside
    PROVE  WholenessInv'
<1>1. CASE Crash
    BY <1>1, HistoryKept, EndKeepsWholeness DEF Crash
<1>2. ASSUME NEW g \in Gen, Evict(g)
      PROVE  WholenessInv'
    <2>1. UNCHANGED <<ledger, configured, pc, disk, lost, report, loaded>>
        BY <1>2 DEF Evict
    <2>2. cache[g] \in Seq(Checkpoint) /\ Len(cache[g]) \in Nat \ {0}
        BY <1>2, EmptySeq DEF Evict, TypeOK
    <2>3. cache'[g] = SubSeq(cache[g], 1, Len(cache[g]) - 1)
              /\ \A h \in Gen \ {g} : cache'[h] = cache[h]
        BY <1>2 DEF Evict, TypeOK
    <2>4. \A i \in DOMAIN cache'[g] : i \in DOMAIN cache[g] /\ cache'[g][i] = cache[g][i]
        BY <2>2, <2>3
    <2>5. SavedHonest'
        BY <2>1, <2>3, <2>4 DEF WholenessInv, SavedHonest
    <2> QED
        BY <2>1, <2>5
           DEF WholenessInv, IntactWhileWorking, FetchSound, LoadSound, Intact,
               NoPartialUniversePublished
<1>3. ASSUME NEW g \in Gen, Abandon(g)
      PROVE  WholenessInv'
    BY <1>3, HistoryKept
       DEF Abandon, WholenessInv, IntactWhileWorking, FetchSound, LoadSound, Intact
<1>6. ASSUME NEW g \in Gen, NEW i \in DOMAIN cache[g], AbandonOnDisk(g, cache[g][i])
      PROVE  WholenessInv'
    <2>1. UNCHANGED <<ledger, cache, configured, pc, disk, lost, report, loaded>>
        BY <1>6 DEF AbandonOnDisk
    <2> QED
        BY <2>1, HistoryKept
           DEF WholenessInv, IntactWhileWorking, FetchSound, LoadSound, Intact
<1>4. ASSUME NEW c \in Comp, ExcludeCompetition(c)
      PROVE  WholenessInv'
    <2>1. /\ configured' \subseteq configured
          /\ UNCHANGED <<ledger, cache, pc, disk, lost, report, loaded>>
        BY <1>4 DEF ExcludeCompetition
    <2>2. Honest(disk', configured')
        BY <2>1, HonestForFewer DEF WholenessInv
    <2> QED
        BY <2>1, <2>2, HistoryKept
           DEF WholenessInv, IntactWhileWorking, FetchSound, LoadSound, Intact, Whole
<1>5. CASE Rollback
    <2>1. UNCHANGED <<cache, configured, pc, disk, lost, report, loaded>>
        BY <1>5 DEF Rollback
    <2>2. ledger \in Seq(Publication) /\ Len(ledger) \in Nat \ {0}
        BY <1>5, EmptySeq DEF Rollback, TypeOK
    <2>3. ledger' = SubSeq(ledger, 1, Len(ledger) - 1)
        BY <1>5 DEF Rollback
    <2>4. \A i \in DOMAIN ledger' : i \in DOMAIN ledger /\ ledger'[i] = ledger[i]
        BY <2>2, <2>3
    <2>5. NoPartialUniversePublished'
        BY <2>1, <2>4 DEF WholenessInv, NoPartialUniversePublished
    <2> QED
        BY <2>1, <2>5
           DEF WholenessInv, IntactWhileWorking, FetchSound, LoadSound, Intact, SavedHonest
<1> QED
    BY <1>1, <1>2, <1>3, <1>4, <1>5, <1>6 DEF Outside

\* Every step keeps the strengthening.
LEMMA NextWholeness ==
    ASSUME TypeOK, WholenessInv, [Next]_vars
    PROVE  WholenessInv'
<1>1. CASE UNCHANGED vars
    BY <1>1 DEF vars, WholenessInv, SavedHonest, IntactWhileWorking, FetchSound, LoadSound,
                Intact, NoPartialUniversePublished
<1> QED
    BY <1>1, GateWholeness, RestoreWholeness, VerifyWholeness, CreateWholeness,
       FetchWholeness, SaveCacheWholeness, LoadWholeness, MarkWholeness, PromoteWholeness,
       OutsideWholeness
       DEF Next, RunStep

\* The strengthening holds at the start: nothing is saved, nothing published.
LEMMA InitWholeness == Init => WholenessInv
<1> SUFFICES ASSUME Init PROVE WholenessInv
    OBVIOUS
<1>1. Honest(disk, configured)
    BY NewIsHonest DEF Init
<1>2. SavedHonest
    BY DEF Init, SavedHonest
<1>3. NoPartialUniversePublished
    BY DEF Init, NoPartialUniversePublished
<1> QED
    BY <1>1, <1>2, <1>3 DEF Init, WholenessInv, IntactWhileWorking, FetchSound, LoadSound,
                            Working

\* Only whole universes are ever promoted, whatever is lost, killed, restored in
\* part, abandoned, rolled back or excluded on the way (generations.py
\* evaluate_completeness, ingest.py RunReport.complete, gate.py
\* verify_local_state, load_providers.py _generation_to_load).
THEOREM OnlyWholeUniversesPublished == Spec => []NoPartialUniversePublished
<1>1. Init => TypeOK /\ WholenessInv
    BY InitType, InitWholeness
<1>2. TypeOK /\ WholenessInv /\ [Next]_vars => TypeOK' /\ WholenessInv'
    BY NextType, NextWholeness
<1>3. WholenessInv => NoPartialUniversePublished
    BY DEF WholenessInv
<1> QED
    BY <1>1, <1>2, <1>3, PTL DEF Spec

-----------------------------------------------------------------------------
(* The saved checkpoints *)

Rising(saved) == \A i, j \in DOMAIN saved : i < j => saved[i].rev < saved[j].rev
Newest(k, saved) == \A i \in DOMAIN saved : saved[i].rev <= k.rev
Fresh(k, saved) == \A i \in DOMAIN saved : saved[i].rev < k.rev
Restored(k, saved) == \A i \in DOMAIN saved : saved[i].rev < k.rev \/ saved[i] = k

\* Why a key is never used twice: a run starts on its generation's newest
\* checkpoint, and the next revision is above it and so above all the others.
CacheInv ==
    /\ \A g \in Gen : Rising(cache[g])
    /\ \A g \in Gen : g >= nextGen => cache[g] = <<>>
    /\ pc \in Working \cup {"verify"} => diskGen < nextGen
    /\ pc \in {"idle", "restore"} => diskGen = NoGen
    /\ pc = "verify" => diskGen \in {NoGen, job.gen}
    /\ pc = "verify" /\ diskGen = job.gen => Restored(disk, cache[diskGen])
    /\ pc \in Working \ {"save"} => Newest(disk, cache[diskGen])
    /\ pc = "save" => Fresh(disk, cache[diskGen])

\* What is saved is a checkpoint with a revision.
LEMMA SavedType ==
    ASSUME NEW saved \in Seq(Checkpoint), NEW i \in DOMAIN saved
    PROVE  saved[i] \in Checkpoint /\ saved[i].rev \in Nat
<1>1. saved[i] \in Checkpoint
    BY LenProperties, ElementOfSeq
<1> QED
    BY <1>1 DEF Checkpoint

\* Nothing is saved under a new id, and nobody works yet.
LEMMA InitCache == Init => CacheInv
BY DEF Init, CacheInv, Rising, Working

\* A run that ends, or has not restored anything, knows of no checkpoint.
LEMMA IdleCache ==
    ASSUME CacheInv, UNCHANGED <<cache, nextGen>>,
           \/ pc' = "create"
           \/ pc' \in {"idle", "restore"} /\ diskGen' = NoGen
    PROVE  CacheInv'
BY DEF CacheInv, Working

\* A run that goes on with the revision it has stays on its newest checkpoint.
LEMMA WorkingCache ==
    ASSUME CacheInv, UNCHANGED <<cache, nextGen, diskGen>>, disk'.rev = disk.rev,
           pc \in Working \ {"save"}, pc' \in Working \ {"save"}
    PROVE  CacheInv'
BY DEF CacheInv, Working, Newest

\* What the restore brings is the newest checkpoint there is (pipeline.yml).
LEMMA RestoreCache ==
    ASSUME TypeOK, CacheInv, Restore
    PROVE  CacheInv'
<1>1. /\ pc = "restore" /\ pc' = "verify" /\ job' = job /\ job.gen \in Gen
      /\ diskGen = NoGen /\ UNCHANGED <<cache, nextGen>>
    BY DEF Restore, CacheInv, TypeOK
<1>2. CASE cache[job.gen] = <<>>
    <2>1. diskGen' = NoGen /\ job.gen # NoGen
        BY <1>1, <1>2, MaxGenAssumption DEF Restore
    <2>2. diskGen' # job'.gen
        BY <1>1, <2>1
    <2>3. diskGen' < nextGen'
        BY <1>1, <2>1, MaxGenAssumption DEF TypeOK, NoGen
    <2> QED
        BY <1>1, <2>1, <2>2, <2>3 DEF CacheInv, Working
<1>3. CASE cache[job.gen] # <<>>
    <2> DEFINE saved == cache[job.gen]
    <2>1. saved \in Seq(Checkpoint) /\ Len(saved) \in DOMAIN saved /\ Rising(saved)
        BY <1>1, <1>3, EmptySeq, LenProperties DEF TypeOK, CacheInv
    <2>2. diskGen' = job.gen /\ disk' = saved[Len(saved)]
        BY <1>3 DEF Restore
    <2>3. Restored(disk', saved)
        BY <2>1, <2>2, LenProperties DEF Restored, Rising
    <2>4. diskGen' < nextGen'
        <3>1. job.gen \in Nat /\ nextGen \in Nat /\ ~(job.gen >= nextGen)
            BY <1>1, <1>3, MaxGenAssumption DEF CacheInv, TypeOK
        <3> QED
            BY <1>1, <2>2, <3>1
    <2> QED
        BY <1>1, <2>2, <2>3, <2>4 DEF CacheInv, Working
<1> QED
    BY <1>2, <1>3

\* The verifier hands on what was restored (gate.py).
LEMMA VerifyCache ==
    ASSUME TypeOK, CacheInv, Verify
    PROVE  CacheInv'
<1>1. pc = "verify" /\ UNCHANGED <<cache, nextGen>>
    BY DEF Verify, VerifyRefuse, VerifyEqual, VerifyNewer
<1>2. CASE EndRun
    BY <1>1, <1>2, IdleCache DEF EndRun
<1>3. ASSUME Verified, NEW action, Take(action), ~EndRun
      PROVE  CacheInv'
    <2>1. pc' \in {"fetch", "load"} /\ UNCHANGED <<diskGen, disk>> /\ diskGen = job.gen
        BY <1>3 DEF Take, Verified
    <2>2. diskGen \in Gen /\ cache[diskGen] \in Seq(Checkpoint) /\ disk.rev \in Nat
        BY <1>1, <2>1 DEF TypeOK, Checkpoint
    <2>3. Newest(disk, cache[diskGen])
        <3>1. \A i \in DOMAIN cache[diskGen] : cache[diskGen][i].rev \in Nat
            BY <2>2, SavedType
        <3>2. Restored(disk, cache[diskGen])
            BY <1>1, <2>1 DEF CacheInv
        <3> QED
            BY <2>2, <3>1, <3>2 DEF Restored, Newest
    <2> QED
        BY <1>1, <2>1, <2>3 DEF CacheInv, Working
<1> QED
    BY <1>2, <1>3 DEF Verify, VerifyRefuse, VerifyEqual, VerifyNewer

\* A fetch moves to a revision above every saved one when it ends (ingest.py).
LEMMA FetchCache ==
    ASSUME TypeOK, CacheInv, Fetch
    PROVE  CacheInv'
<1>1. /\ pc = "fetch" /\ diskGen \in Gen /\ disk \in Checkpoint /\ disk.rev \in Nat
      /\ UNCHANGED <<cache, nextGen, diskGen>>
    BY DEF Fetch, OutOfTime, FinishFetch, RosterRefused, FetchPlayers, Fetching, TypeOK,
           Checkpoint
<1>2. CASE OutOfTime
    BY <1>1, <1>2, WorkingCache DEF OutOfTime, Working
<1>3. CASE FinishFetch
    <2>1. disk'.rev = disk.rev + 1 /\ pc' = "save"
        BY <1>1, <1>3 DEF FinishFetch, NextRev, Checkpoint
    <2>2. \A i \in DOMAIN cache[diskGen] : cache[diskGen][i].rev \in Nat
        BY <1>1, SavedType DEF TypeOK
    <2>3. Fresh(disk', cache[diskGen])
        BY <1>1, <2>1, <2>2 DEF CacheInv, Newest, Fresh, Working
    <2> QED
        BY <1>1, <2>1, <2>3 DEF CacheInv, Working
<1>4. ASSUME NEW c \in Comp, RosterRefused(c)
      PROVE  CacheInv'
    <2>1. disk'.rev = disk.rev /\ pc' = pc
        BY <1>1, <1>4 DEF RosterRefused, Visited, Checkpoint
    <2> QED
        BY <1>1, <2>1, WorkingCache DEF Working
<1>5. ASSUME NEW c \in Comp, FetchPlayers(c)
      PROVE  CacheInv'
    <2>1. PICK size, got, cause, seen, ok : Visit(c, size, got, cause, ok, seen)
        BY <1>5 DEF FetchPlayers
    <2>2. disk'.rev = disk.rev /\ pc' = pc
        BY <1>1, <1>5, <2>1 DEF FetchPlayers, Visit, Visited, Checkpoint
    <2> QED
        BY <1>1, <2>2, WorkingCache DEF Working
<1> QED
    BY <1>2, <1>3, <1>4, <1>5 DEF Fetch

\* A generation starts with nothing saved (generations.py create).
LEMMA CreateCache ==
    ASSUME TypeOK, CacheInv, CreateGeneration
    PROVE  CacheInv'
<1>1. /\ pc' = "fetch" /\ diskGen' = nextGen /\ nextGen \in Gen
      /\ nextGen' = nextGen + 1 /\ cache' = cache
    BY DEF CreateGeneration, TypeOK
<1>2. nextGen \in Nat /\ nextGen >= nextGen
    BY <1>1, MaxGenAssumption
<1>3. cache[nextGen] = <<>>
    BY <1>1, <1>2, Zenon DEF CacheInv
<1>4. Newest(disk', cache'[diskGen'])
    BY <1>1, <1>3 DEF Newest
<1>5. \A g \in Gen : g >= nextGen' => cache'[g] = <<>>
    BY <1>1, <1>2 DEF CacheInv
<1>6. diskGen' < nextGen'
    BY <1>1, <1>2
<1> QED
    BY <1>1, <1>4, <1>5, <1>6 DEF CacheInv, Working

\* A sequence extended by a greater revision still rises, up to it.
LEMMA SavedRises ==
    ASSUME NEW saved \in Seq(Checkpoint), NEW k \in Checkpoint,
           Rising(saved), Fresh(k, saved)
    PROVE  /\ Saved(saved, k) = Append(saved, k)
           /\ Rising(Append(saved, k))
           /\ Newest(k, Append(saved, k))
<1>1. \A i \in DOMAIN saved : saved[i].rev \in Nat /\ saved[i].rev < k.rev
    BY SavedType DEF Fresh
<1>2. k.rev \in Nat
    BY DEF Checkpoint
<1>3. Saved(saved, k) = Append(saved, k)
    BY <1>1, <1>2 DEF Saved
<1> DEFINE longer == Append(saved, k)
<1>4. /\ longer \in Seq(Checkpoint) /\ Len(longer) = Len(saved) + 1
      /\ longer[Len(saved) + 1] = k
      /\ \A i \in 1 .. Len(saved) : longer[i] = saved[i]
    BY AppendProperties
<1>5. DOMAIN longer = 1 .. Len(saved) + 1 /\ DOMAIN saved = 1 .. Len(saved)
      /\ Len(saved) \in Nat
    BY <1>4, LenProperties
<1> HIDE DEF longer
<1>6. \A i \in DOMAIN longer : i \in DOMAIN saved \/ i = Len(saved) + 1
    BY <1>5
<1>7. \A i \in DOMAIN longer : longer[i].rev <= k.rev
    BY <1>1, <1>2, <1>4, <1>5, <1>6
<1>8. Rising(longer)
    BY <1>1, <1>2, <1>4, <1>5, <1>6 DEF Rising
<1> QED
    BY <1>3, <1>7, <1>8 DEF Newest, longer

\* The save adds the revision the run has reached (pipeline.yml).
LEMMA SaveCacheCache ==
    ASSUME TypeOK, CacheInv, SaveCache
    PROVE  CacheInv'
<1>1. /\ pc = "save" /\ diskGen \in Gen /\ disk \in Checkpoint /\ nextGen' = nextGen
      /\ diskGen < nextGen /\ nextGen \in Nat
    BY MaxGenAssumption DEF SaveCache, TypeOK, CacheInv, Working
<1> DEFINE k == [disk EXCEPT !.done = Held]
           saved == cache[diskGen]
<1>2. k \in Checkpoint /\ k.rev = disk.rev
    BY <1>1, HeldType DEF Checkpoint
<1>3. saved \in Seq(Checkpoint) /\ Rising(saved) /\ Fresh(k, saved)
    BY <1>1, <1>2 DEF TypeOK, CacheInv, Fresh
<1>4. cache' = cache \/ cache' = [cache EXCEPT ![diskGen] = Saved(@, k)]
    BY DEF SaveCache
<1> HIDE DEF k
<1>5. cache'[diskGen] = saved \/ cache'[diskGen] = Append(saved, k)
    BY <1>1, <1>2, <1>3, <1>4, SavedRises DEF TypeOK
<1>6. \A g \in Gen \ {diskGen} : cache'[g] = cache[g]
    BY <1>4 DEF TypeOK
<1>7. Rising(cache'[diskGen]) /\ Newest(disk, cache'[diskGen])
    <2>1. \A i \in DOMAIN saved : saved[i].rev < disk.rev /\ saved[i].rev \in Nat
        BY <1>2, <1>3, SavedType DEF Fresh
    <2>2. Newest(disk, saved)
        BY <1>1, <2>1 DEF Newest, Checkpoint
    <2>3. Rising(Append(saved, k)) /\ Newest(k, Append(saved, k))
        BY <1>2, <1>3, SavedRises
    <2> QED
        BY <1>2, <1>3, <1>5, <2>2, <2>3 DEF Newest
<1>8. \A g \in Gen : Rising(cache'[g])
    BY <1>6, <1>7 DEF CacheInv
<1>9. \A g \in Gen : g >= nextGen => cache'[g] = <<>>
    <2> SUFFICES ASSUME NEW g \in Gen, g >= nextGen PROVE cache'[g] = <<>>
        OBVIOUS
    <2>1. g # diskGen
        BY <1>1, MaxGenAssumption
    <2> QED
        BY <1>6, <2>1 DEF CacheInv
<1>10. CASE EndRun
    BY <1>1, <1>8, <1>9, <1>10 DEF EndRun, CacheInv, Working
<1>11. CASE pc' = "load" /\ UNCHANGED <<diskGen, disk>>
    BY <1>1, <1>7, <1>8, <1>9, <1>11 DEF CacheInv, Working
<1> QED
    BY <1>10, <1>11 DEF SaveCache

\* After the save the run keeps its revision (load_providers.py,
\* publish_status.py, promote.py).
LEMMA LaterCache ==
    ASSUME TypeOK, CacheInv, LoadAndCheck \/ MarkValidated \/ Promote
    PROVE  CacheInv'
<1>1. pc \in {"load", "mark", "promote"} /\ UNCHANGED <<cache, nextGen>>
    BY DEF LoadAndCheck, MarkValidated, Promote
<1>2. CASE EndRun
    BY <1>1, <1>2, IdleCache DEF EndRun
<1>3. CASE pc' \in {"mark", "promote"} /\ diskGen' = diskGen /\ disk'.rev = disk.rev
    BY <1>1, <1>3, WorkingCache DEF Working
<1> QED
    BY <1>2, <1>3 DEF LoadAndCheck, MarkValidated, Promote, TypeOK, Checkpoint

\* An evicted entry was the newest: what is left was there before.
LEMMA EvictKeeps ==
    ASSUME TypeOK, NEW g \in Gen, Evict(g)
    PROVE  /\ \A h \in Gen \ {g} : cache'[h] = cache[h]
           /\ \A i \in DOMAIN cache'[g] : i \in DOMAIN cache[g] /\ cache'[g][i] = cache[g][i]
<1>1. cache[g] \in Seq(Checkpoint) /\ Len(cache[g]) \in Nat \ {0}
    BY EmptySeq DEF Evict, TypeOK
<1>2. cache'[g] = SubSeq(cache[g], 1, Len(cache[g]) - 1)
          /\ \A h \in Gen \ {g} : cache'[h] = cache[h]
    BY DEF Evict, TypeOK
<1> QED
    BY <1>1, <1>2

\* Nothing from outside adds a checkpoint.
LEMMA OutsideCache ==
    ASSUME TypeOK, CacheInv, Outside
    PROVE  CacheInv'
<1>1. CASE Crash
    BY <1>1, IdleCache DEF Crash, EndRun
<1>2. ASSUME NEW g \in Gen, Evict(g)
      PROVE  CacheInv'
    <2>1. UNCHANGED <<nextGen, pc, job, diskGen, disk>> /\ cache[g] # <<>>
        BY <1>2 DEF Evict
    <2>2. \A h \in Gen : \A i \in DOMAIN cache'[h] :
              i \in DOMAIN cache[h] /\ cache'[h][i] = cache[h][i]
        BY <1>2, EvictKeeps
    <2>3. \A h \in Gen : Rising(cache'[h])
        BY <2>2 DEF CacheInv, Rising
    <2>4. \A h \in Gen : h >= nextGen => cache'[h] = <<>>
        BY <1>2, <2>1, EvictKeeps DEF CacheInv
    <2>5. pc = "verify" /\ diskGen = job.gen => Restored(disk, cache'[diskGen])
        BY <2>2 DEF CacheInv, Restored, TypeOK
    <2>6. pc \in Working => diskGen \in Gen
        BY DEF TypeOK, Working
    <2>7. pc \in Working \ {"save"} => Newest(disk, cache'[diskGen])
        BY <2>2, <2>6 DEF CacheInv, Newest
    <2>8. pc = "save" => Fresh(disk, cache'[diskGen])
        BY <2>2, <2>6 DEF CacheInv, Fresh, Working
    <2> QED
        BY <2>1, <2>3, <2>4, <2>5, <2>7, <2>8 DEF CacheInv
<1>3. CASE \/ \E g \in Gen : Abandon(g)
           \/ \E g \in Gen : \E i \in DOMAIN cache[g] : AbandonOnDisk(g, cache[g][i])
           \/ \E c \in Comp : ExcludeCompetition(c)
           \/ Rollback
    <2>1. UNCHANGED <<cache, nextGen, pc, job, diskGen, disk>>
        BY <1>3 DEF Abandon, AbandonOnDisk, ExcludeCompetition, Rollback
    <2> QED
        BY <2>1 DEF CacheInv
<1> QED
    BY <1>1, <1>2, <1>3 DEF Outside

\* Every step keeps the saved checkpoints in order.
LEMMA NextCache ==
    ASSUME TypeOK, CacheInv, [Next]_vars
    PROVE  CacheInv'
<1>1. CASE GateStartNew \/ \E mode \in Modes : GateResume(mode)
    BY <1>1, IdleCache DEF GateStartNew, GateResume, CacheInv
<1>2. CASE UNCHANGED vars
    BY <1>2 DEF vars, CacheInv
<1> QED
    BY <1>1, <1>2, RestoreCache, VerifyCache, CreateCache, FetchCache, SaveCacheCache,
       LaterCache, OutsideCache
       DEF Next, RunStep

\* No save is ever made under a key that exists, whatever checkpoints were lost
\* and whichever runs were killed, with a person at the terminal or without
\* (ingest.py bumps the revision once per run, pipeline.yml names the key).
THEOREM KeysAreFresh == Spec => []CheckpointKeyIsFresh
<1>1. Init => TypeOK /\ CacheInv
    BY InitType, InitCache
<1>2. TypeOK /\ CacheInv /\ [Next]_vars => TypeOK' /\ CacheInv'
    BY NextType, NextCache
<1>3. TypeOK /\ CacheInv => CheckpointKeyIsFresh
    <2> SUFFICES ASSUME TypeOK, CacheInv, pc = "save", NEW i \in DOMAIN cache[diskGen]
                 PROVE  cache[diskGen][i].rev # disk.rev
        BY DEF CheckpointKeyIsFresh
    <2>1. disk.rev \in Nat /\ cache[diskGen][i].rev < disk.rev
        BY DEF TypeOK, Checkpoint, CacheInv, Fresh
    <2>2. cache[diskGen][i].rev \in Nat
        BY SavedType DEF TypeOK
    <2> QED
        BY <2>1, <2>2
<1> QED
    BY <1>1, <1>2, <1>3, PTL DEF Spec

-----------------------------------------------------------------------------
(* The open generation *)

\* A run knows the only generation that can be live: the one the gate chose, or
\* none when it creates one.
OpenInv ==
    /\ \A g, h \in LiveIn(db) : g = h
    /\ pc = "create" => LiveIn(db) = {}
    /\ pc \in {"restore", "verify"} => LiveIn(db) \subseteq {job.gen}
    /\ pc \in Working => LiveIn(db) \subseteq {diskGen}

\* At the start nothing is live.
LEMMA InitOpen == Init => OpenInv
BY DEF Init, OpenInv, LiveIn, NoRow, Working

\* No row but the run's own is written.
OnlyOwnRow == \A g \in Gen \ {diskGen} : db'[g] = db[g]

\* A run that writes its own row only leaves no other generation live.
LEMMA OwnRowOpen ==
    ASSUME OpenInv, OnlyOwnRow,
           \/ pc \in Working
           \/ pc = "verify" /\ diskGen = job.gen,
           \/ pc' = "idle"
           \/ pc' \in Working /\ diskGen' = diskGen
    PROVE  OpenInv'
<1>1. LiveIn(db) \subseteq {diskGen}
    BY DEF OpenInv
<1>2. LiveIn(db)' \subseteq {diskGen}
    BY <1>1 DEF OnlyOwnRow, LiveIn
<1> QED
    BY <1>2 DEF OpenInv, Working

\* A step that leaves fewer rows live, between runs or within one.
LEMMA FewerOpen ==
    ASSUME OpenInv, LiveIn(db)' \subseteq LiveIn(db),
           \/ pc' = "idle"
           \/ UNCHANGED <<pc, job, diskGen>>
    PROVE  OpenInv'
BY DEF OpenInv, Working

\* The gate goes to the only live generation there is, or to none (gate.py
\* decide_from_state).
LEMMA GateOpen ==
    ASSUME TypeOK, OpenInv, GateStartNew \/ \E mode \in Modes : GateResume(mode)
    PROVE  OpenInv'
<1>1. CASE GateStartNew
    <2>1. LiveIn(db) = {}
        BY <1>1 DEF GateStartNew, Decision
    <2> QED
        BY <1>1, <2>1 DEF GateStartNew, OpenInv, Working
<1>2. ASSUME NEW mode \in Modes, GateResume(mode)
      PROVE  OpenInv'
    <2> DEFINE g == Decision(mode, db).gen
    <2>1. g \in LiveIn(db)
        BY <1>2 DEF GateResume, Decision
    <2>2. LiveIn(db) \subseteq {g}
        BY <2>1 DEF OpenInv
    <2>3. pc' = "restore" /\ job'.gen = g /\ db' = db
        BY <1>2 DEF GateResume
    <2> HIDE DEF g
    <2> QED
        BY <2>2, <2>3 DEF OpenInv, Working
<1> QED
    BY <1>1, <1>2

\* The verifier writes the row of the generation it was sent for (gate.py).
LEMMA VerifyOpen ==
    ASSUME TypeOK, OpenInv, Verify
    PROVE  OpenInv'
<1>1. CASE VerifyRefuse
    BY <1>1, FewerOpen DEF VerifyRefuse, EndRun
<1>2. ASSUME Verified, pc = "verify", NEW action, Take(action), OnlyOwnRow
      PROVE  OpenInv'
    BY <1>2, OwnRowOpen DEF Verified, Take, EndRun, Working
<1>3. CASE VerifyEqual
    BY <1>2, <1>3 DEF VerifyEqual, OnlyOwnRow
<1>4. CASE VerifyNewer
    <2>1. PICK row : db' = [db EXCEPT ![diskGen] = row]
        BY <1>4 DEF VerifyNewer
    <2> QED
        BY <1>2, <1>4, <2>1 DEF VerifyNewer, OnlyOwnRow, TypeOK
<1> QED
    BY <1>1, <1>3, <1>4 DEF Verify

\* From the fetch to the promotion a run writes its own row only (publish_status.py,
\* promote.py).
LEMMA WorkOwnRow ==
    ASSUME TypeOK, Fetch \/ SaveCache \/ LoadAndCheck \/ MarkValidated \/ Promote
    PROVE  /\ pc \in Working
           /\ OnlyOwnRow
           /\ pc' = "idle" \/ (pc' \in Working /\ diskGen' = diskGen)
<1>1. CASE Fetch
    <2>1. pc = "fetch" /\ pc' \in {"fetch", "save"} /\ diskGen' = diskGen
        BY <1>1 DEF Fetch, OutOfTime, FinishFetch, RosterRefused, FetchPlayers, Fetching
    <2>2. db' = db \/ \E ok \in BOOLEAN : Record(ok, disk')
        <3>1. CASE \E c \in Comp : FetchPlayers(c)
            BY <3>1 DEF FetchPlayers, Visit
        <3> QED
            BY <1>1, <3>1 DEF Fetch, OutOfTime, FinishFetch, RosterRefused
    <2>3. OnlyOwnRow
        BY <2>2 DEF Record, OnlyOwnRow, TypeOK
    <2> QED
        BY <2>1, <2>3 DEF Working
<1>2. CASE SaveCache \/ LoadAndCheck \/ MarkValidated \/ Promote
    <2>1. pc \in Working /\ (pc' = "idle" \/ (pc' \in Working /\ diskGen' = diskGen))
        BY <1>2 DEF SaveCache, LoadAndCheck, MarkValidated, Promote, EndRun, Working
    <2>2. db' = db \/ \E s : db' = [db EXCEPT ![diskGen].status = s]
        BY <1>2 DEF SaveCache, LoadAndCheck, MarkValidated, Promote
    <2>3. OnlyOwnRow
        BY <2>2 DEF OnlyOwnRow, TypeOK
    <2> QED
        BY <2>1, <2>3
<1> QED
    BY <1>1, <1>2

\* Giving a generation up opens none; undoing a promotion may.
LEMMA OutsideOpen ==
    ASSUME TypeOK, OpenInv, Outside, "rollback" \notin Operator
    PROVE  OpenInv'
<1>1. CASE Crash
    BY <1>1, FewerOpen DEF Crash, EndRun
<1>2. ASSUME NEW g \in Gen, Abandon(g)
      PROVE  OpenInv'
    <2>1. LiveIn(db)' \subseteq LiveIn(db)
        BY <1>2 DEF Abandon, LiveIn, TypeOK
    <2> QED
        BY <1>2, <2>1, FewerOpen DEF Abandon
<1>3. CASE \/ \E g \in Gen : Evict(g)
           \/ \E c \in Comp : ExcludeCompetition(c)
    BY <1>3, FewerOpen DEF Evict, ExcludeCompetition
<1>4. ASSUME NEW g \in Gen, NEW i \in DOMAIN cache[g], AbandonOnDisk(g, cache[g][i])
      PROVE  OpenInv'
    <2>1. /\ db'[g].status = "FAILED" /\ \A h \in Gen \ {g} : db'[h] = db[h]
          /\ UNCHANGED <<pc, job, diskGen>>
        BY <1>4, OnDiskRow
    <2>2. LiveIn(db)' \subseteq LiveIn(db)
        BY <2>1 DEF LiveIn, LiveStatuses
    <2> QED
        BY <2>1, <2>2, FewerOpen
<1> QED
    BY <1>1, <1>2, <1>3, <1>4 DEF Outside, Rollback

\* Every step keeps one generation open at most.
LEMMA NextOpen ==
    ASSUME TypeOK, OpenInv, [Next]_vars, "rollback" \notin Operator
    PROVE  OpenInv'
<1>1. CASE Restore
    BY <1>1 DEF Restore, OpenInv, Working
<1>2. CASE CreateGeneration
    BY <1>2 DEF CreateGeneration, OpenInv, Working
<1>3. CASE Fetch \/ SaveCache \/ LoadAndCheck \/ MarkValidated \/ Promote
    BY <1>3, WorkOwnRow, OwnRowOpen
<1>4. CASE UNCHANGED vars
    BY <1>4, FewerOpen DEF vars
<1> QED
    BY <1>1, <1>2, <1>3, <1>4, GateOpen, VerifyOpen, OutsideOpen DEF Next, RunStep

\* Two refreshes are never open at once, though a new one's row is written long
\* after the gate found none, whatever is killed, lost or given up on the way
\* (gate.py decide_from_state).  A rollback made while a new one is created
\* would open a second.
THEOREM OneOpenGeneration ==
    ASSUME "rollback" \notin Operator
    PROVE  Spec => []AtMostOneLive
<1>1. Init => TypeOK /\ OpenInv
    BY InitType, InitOpen
<1>2. TypeOK /\ OpenInv /\ [Next]_vars => TypeOK' /\ OpenInv'
    BY NextType, NextOpen
<1>3. OpenInv => AtMostOneLive
    <2> SUFFICES ASSUME OpenInv PROVE AtMostOneLive
        OBVIOUS
    <2>1. CASE LiveIn(db) = {}
        BY <2>1, FS_EmptySet DEF AtMostOneLive
    <2>2. CASE LiveIn(db) # {}
        <3>1. PICK g \in LiveIn(db) : TRUE
            BY <2>2
        <3>2. LiveIn(db) = {g}
            BY <3>1 DEF OpenInv
        <3>3. Cardinality(LiveIn(db)) = 1
            BY <3>2, FS_Singleton, Zenon
        <3> QED
            BY <3>3 DEF AtMostOneLive
    <2> QED
        BY <2>1, <2>2
<1> QED
    BY <1>1, <1>2, <1>3, PTL DEF Spec

-----------------------------------------------------------------------------
(* The statuses *)

Saveable == {"IN_PROGRESS", "COMPLETE", "FAILED"}

\* A checkpoint as new as a row that says finished says so too.
Follows(k, row) ==
    row.status \in Publishable /\ k.rev >= row.rev => k.status \in Publishable

SavedFollow ==
    \A g \in Gen : \A i \in DOMAIN cache[g] :
        cache[g][i].status \in Saveable /\ Follows(cache[g][i], db[g])

\* Why no row is taken back to a fetch: nothing that can be restored is behind
\* its row's status, and a run fetches only for a row that is open or not there.
StatusInv ==
    /\ SavedFollow
    /\ pc = "verify" /\ diskGen = job.gen =>
          disk.status \in Saveable /\ Follows(disk, db[diskGen])
    /\ pc \in {"restore", "verify"} => db[job.gen].status \in LiveStatuses
    /\ pc = "fetch" =>
          disk.status = "IN_PROGRESS" /\ db[diskGen].status \in {Absent, "IN_PROGRESS"}
    /\ pc = "save" => disk.status \in Saveable /\ Follows(disk, db[diskGen])

LifecycleStep ==
    \/ \E g \in Gen : Lifecycle!Pipeline(g)
    \/ \A g \in Gen : db'[g].status = db[g].status

\* The status of one generation moves as the table of generations.py says, by
\* the part of it that is nobody's command.
InTheTable(g) ==
    \/ /\ LiveIn(db) = {} /\ db[g].status = Absent
       /\ db'[g].status \in {"IN_PROGRESS", "COMPLETE", "FAILED"}
    \/ db[g].status = "IN_PROGRESS" /\ db'[g].status = "COMPLETE"
    \/ db[g].status = "IN_PROGRESS" /\ db'[g].status = "FAILED"
    \/ db[g].status = "COMPLETE" /\ db'[g].status = "VALIDATED"
    \/ db[g].status \in AwaitingPublication /\ db'[g].status = "PUBLISHED"

\* A step that moves one status along the table is a step of the abstract
\* lifecycle.
LEMMA TableStep ==
    ASSUME TypeOK, TypeOK', NEW g \in Gen, InTheTable(g),
           \A h \in Gen \ {g} : db'[h].status = db[h].status
    PROVE  LifecycleStep
<1> DEFINE before == [h \in Gen |-> db[h].status]
           after == [h \in Gen |-> db'[h].status]
<1>1. ASSUME NEW from, NEW to, db[g].status \in from, db'[g].status = to
      PROVE  Lifecycle!Move(g, from, to)
    <2>1. before[g] \in from /\ after = [before EXCEPT ![g] = to]
        BY <1>1
    <2> QED
        BY <2>1 DEF Lifecycle!Move
<1>2. CASE /\ LiveIn(db) = {} /\ db[g].status = Absent
           /\ db'[g].status \in {"IN_PROGRESS", "COMPLETE", "FAILED"}
    <2>1. PICK s \in {"IN_PROGRESS", "COMPLETE", "FAILED"} : db'[g].status = s
        BY <1>2
    <2>2. Lifecycle!Move(g, {"ABSENT"}, s)
        BY <1>1, <1>2, <2>1
    <2>3. \A h \in Gen : before[h] \notin {"IN_PROGRESS", "COMPLETE", "VALIDATED"}
        BY <1>2 DEF LiveIn
    <2>4. \E t \in {"IN_PROGRESS", "COMPLETE", "FAILED"} : Lifecycle!Move(g, {"ABSENT"}, t)
        BY <2>2, Zenon
    <2>5. Lifecycle!Appear(g)
        BY <2>3, <2>4, Zenon DEF Lifecycle!Appear, Lifecycle!Live, Lifecycle!Absent
    <2> QED
        BY <2>5, Zenon DEF LifecycleStep, Lifecycle!Pipeline
<1>3. CASE db[g].status = "IN_PROGRESS" /\ db'[g].status = "COMPLETE"
    <2>1. Lifecycle!Complete(g)
        BY <1>1, <1>3 DEF Lifecycle!Complete
    <2> QED
        BY <2>1 DEF LifecycleStep, Lifecycle!Pipeline
<1>4. CASE db[g].status = "IN_PROGRESS" /\ db'[g].status = "FAILED"
    <2>1. Lifecycle!Refuse(g)
        BY <1>1, <1>4 DEF Lifecycle!Refuse
    <2> QED
        BY <2>1 DEF LifecycleStep, Lifecycle!Pipeline
<1>5. CASE db[g].status = "COMPLETE" /\ db'[g].status = "VALIDATED"
    <2>1. Lifecycle!Validate(g)
        BY <1>1, <1>5 DEF Lifecycle!Validate
    <2> QED
        BY <2>1 DEF LifecycleStep, Lifecycle!Pipeline
<1>6. CASE db[g].status \in AwaitingPublication /\ db'[g].status = "PUBLISHED"
    <2>1. Lifecycle!Publish(g)
        BY <1>1, <1>6 DEF Lifecycle!Publish
    <2> QED
        BY <2>1 DEF LifecycleStep, Lifecycle!Pipeline
<1> QED
    BY <1>2, <1>3, <1>4, <1>5, <1>6 DEF InTheTable

\* At the start nothing is saved and no row is there.
LEMMA InitStatus == Init => StatusInv
BY DEF Init, StatusInv, SavedFollow

\* A step that writes no row and saves nothing keeps what was saved true.
LEMMA SavedKept ==
    ASSUME StatusInv, UNCHANGED <<db, cache>>
    PROVE  SavedFollow' /\ LifecycleStep
BY DEF StatusInv, SavedFollow, Follows, LifecycleStep

\* The gate hands a run a live generation (gate.py).
LEMMA GateStatus ==
    ASSUME TypeOK, StatusInv, GateStartNew \/ \E mode \in Modes : GateResume(mode)
    PROVE  StatusInv' /\ LifecycleStep
<1>1. CASE GateStartNew
    BY <1>1, SavedKept DEF GateStartNew, StatusInv
<1>2. ASSUME NEW mode \in Modes, GateResume(mode)
      PROVE  StatusInv' /\ LifecycleStep
    <2>1. db[Decision(mode, db).gen].status \in LiveStatuses
        BY <1>2 DEF GateResume, Decision, LiveIn
    <2> QED
        BY <1>2, <2>1, SavedKept DEF GateResume, StatusInv
<1> QED
    BY <1>1, <1>2

\* A checkpoint that comes back is not behind its row.
LEMMA RestoreStatus ==
    ASSUME TypeOK, CacheInv, StatusInv, Restore
    PROVE  StatusInv' /\ LifecycleStep
<1>1. /\ pc = "restore" /\ pc' = "verify" /\ job.gen \in Gen /\ diskGen = NoGen
      /\ UNCHANGED <<db, cache, job>>
    BY DEF Restore, CacheInv, TypeOK
<1>2. SavedFollow' /\ LifecycleStep
    BY <1>1, SavedKept
<1>3. CASE cache[job.gen] = <<>>
    <2>1. diskGen' # job.gen
        BY <1>1, <1>3, MaxGenAssumption DEF Restore
    <2> QED
        BY <1>1, <1>2, <2>1 DEF StatusInv
<1>4. CASE cache[job.gen] # <<>>
    <2> DEFINE saved == cache[job.gen]
    <2>1. saved \in Seq(Checkpoint) /\ Len(saved) \in DOMAIN saved
        BY <1>1, <1>4, EmptySeq, LenProperties DEF TypeOK
    <2>2. diskGen' = job.gen /\ disk' = saved[Len(saved)]
        BY <1>4 DEF Restore
    <2>3. disk'.status \in Saveable /\ Follows(disk', db[job.gen])
        BY <1>1, <2>1, <2>2 DEF StatusInv, SavedFollow
    <2> QED
        BY <1>1, <1>2, <2>2, <2>3 DEF StatusInv, Follows
<1> QED
    BY <1>3, <1>4

\* A run that ends leaves what was saved.
LEMMA EndStatus ==
    ASSUME SavedFollow', pc' = "idle"
    PROVE  StatusInv'
BY DEF StatusInv

\* A verifier that cannot read the row goes by the disk, which fetches for an
\* open row only; reconciling moves the row along the table (gate.py,
\* publish_status.py reconcile_forward).
LEMMA VerifyStatus ==
    ASSUME TypeOK, TypeOK', RevisionInv, CacheInv, StatusInv, Verify
    PROVE  StatusInv' /\ LifecycleStep
<1>1. pc = "verify" /\ job.gen \in Gen /\ cache' = cache
    BY DEF Verify, VerifyRefuse, VerifyEqual, VerifyNewer, TypeOK
<1>2. CASE VerifyRefuse
    BY <1>2, SavedKept, EndStatus DEF VerifyRefuse, EndRun
<1> DEFINE row == db[diskGen]
<1>3. ASSUME Verified
      PROVE  /\ diskGen = job.gen /\ row.status \in LiveStatuses
             /\ disk.status \in Saveable /\ Follows(disk, row)
             /\ disk.rev \in Nat /\ row.rev \in Nat /\ disk.rev >= row.rev
             /\ disk.status = "IN_PROGRESS" => row.status = "IN_PROGRESS"
    <2>1. diskGen = job.gen /\ disk.rev >= job.rev
        BY <1>3 DEF Verified
    <2>2. disk.rev \in Nat /\ row.rev \in Nat /\ job.rev \in Nat
        BY <1>1, <2>1 DEF TypeOK, Checkpoint, Row, Job
    <2>3. disk.rev >= row.rev
        BY <1>1, <2>1, <2>2 DEF RevisionInv
    <2>4. row.status \in LiveStatuses /\ disk.status \in Saveable /\ Follows(disk, row)
        BY <1>1, <2>1 DEF StatusInv
    <2> QED
        BY <2>1, <2>2, <2>3, <2>4 DEF Follows, Publishable
<1>4. ASSUME SavedFollow', NEW action, Take(action),
             action = "FETCH" => /\ disk.status = "IN_PROGRESS" =>
                                       db'[diskGen].status = "IN_PROGRESS"
      PROVE  StatusInv'
    BY <1>4, EndStatus DEF Take, EndRun, StatusInv
<1>5. CASE VerifyEqual
    BY <1>3, <1>4, <1>5, SavedKept DEF VerifyEqual
<1>6. CASE VerifyNewer
    <2>1. PICK ok \in BOOLEAN :
              LET new == IF ok THEN Reconciled(row, disk) ELSE row
              IN  /\ db' = [db EXCEPT ![diskGen] = new]
                  /\ Take(ActionForStatus(IF ok THEN new.status ELSE disk.status))
        BY <1>6 DEF VerifyNewer
    <2>2. diskGen \in Gen /\ Verified
        BY <1>1, <1>3, <1>6 DEF VerifyNewer
    <2> DEFINE new == db'[diskGen]
    <2>3. new = (IF ok THEN Reconciled(row, disk) ELSE row) /\ OnlyOwnRow
        BY <2>1, <2>2 DEF OnlyOwnRow, TypeOK
    <2>4. \/ new = row
          \/ /\ ok /\ new.rev = disk.rev
             /\ new.status = IF disk.status = "FAILED" THEN "FAILED"
                             ELSE IF disk.status = "COMPLETE" /\ row.status = "IN_PROGRESS"
                             THEN "COMPLETE" ELSE row.status
        BY <1>3, <2>2, <2>3 DEF Reconciled, ReconciledStatus, RowOf, Rank, Saveable
    <2> HIDE DEF new
    <2>5. LifecycleStep
        <3>1. CASE new.status = row.status
            BY <2>2, <2>3, <3>1 DEF LifecycleStep, OnlyOwnRow, new
        <3>2. CASE new.status # row.status
            <4>1. row.status \in Publishable => disk.status \in Publishable
                BY <1>3, <2>2 DEF Follows
            <4>2. disk.status = "FAILED" => row.status = "IN_PROGRESS"
                BY <1>3, <2>2, <4>1 DEF Publishable, LiveStatuses
            <4>3. InTheTable(diskGen)
                BY <1>3, <2>2, <2>4, <3>2, <4>2 DEF InTheTable, new
            <4> QED
                BY <2>2, <2>3, <4>3, TableStep DEF OnlyOwnRow
        <3> QED
            BY <3>1, <3>2
    <2>6. \A i \in DOMAIN cache[diskGen] : Follows(cache[diskGen][i], new)
        <3> SUFFICES ASSUME NEW i \in DOMAIN cache[diskGen], new # row,
                            new.status \in Publishable, cache[diskGen][i].rev >= new.rev
                     PROVE  cache[diskGen][i].status \in Publishable
            BY <2>2 DEF Follows, StatusInv, SavedFollow
        <3>1. cache[diskGen][i].rev \in Nat /\ new.rev = disk.rev
            BY <2>2, <2>4, SavedType DEF TypeOK
        <3>2. cache[diskGen][i] = disk
            BY <1>1, <1>3, <2>2, <3>1 DEF CacheInv, Restored
        <3>3. disk.status \in Publishable
            BY <1>3, <2>2, <2>4 DEF Follows, Publishable
        <3> QED
            BY <3>2, <3>3
    <2>7. SavedFollow'
        BY <1>1, <2>3, <2>6 DEF SavedFollow, OnlyOwnRow, StatusInv, new
    <2>8. Take(ActionForStatus(IF ok THEN new.status ELSE disk.status))
        BY <2>1, <2>3
    <2>9. ~ok => new = row
        BY <2>4
    <2>10. ActionForStatus(IF ok THEN new.status ELSE disk.status) = "FETCH" =>
               (disk.status = "IN_PROGRESS" => new.status = "IN_PROGRESS")
        BY <1>3, <2>2, <2>9 DEF ActionForStatus
    <2> QED
        BY <1>4, <2>5, <2>7, <2>8, <2>10 DEF new
<1> QED
    BY <1>2, <1>5, <1>6 DEF Verify

\* A new generation has no row (generations.py create).
LEMMA CreateStatus ==
    ASSUME TypeOK, RevisionInv, StatusInv, CreateGeneration
    PROVE  StatusInv' /\ LifecycleStep
<1>1. nextGen \in Gen /\ nextGen >= nextGen
    BY MaxGenAssumption DEF CreateGeneration, TypeOK
<1>2. db[nextGen] = NoRow
    BY <1>1, Zenon DEF RevisionInv
<1> QED
    BY <1>2, SavedKept DEF CreateGeneration, StatusInv, NewGeneration, NoRow

\* A record during the fetch opens the row or finds it open (publish_status.py
\* record).
LEMMA RecordStatus ==
    ASSUME TypeOK, TypeOK', OpenInv, StatusInv, pc = "fetch", pc' = "fetch",
           UNCHANGED <<cache, diskGen>>, disk'.status = "IN_PROGRESS",
           NEW ok \in BOOLEAN, Record(ok, disk')
    PROVE  StatusInv' /\ LifecycleStep
<1>1. diskGen \in Gen /\ db[diskGen].status \in {Absent, "IN_PROGRESS"}
    BY DEF TypeOK, StatusInv
<1>2. /\ \A g \in Gen \ {diskGen} : db'[g] = db[g]
      /\ db'[diskGen].status = "IN_PROGRESS" \/ db'[diskGen] = db[diskGen]
    BY <1>1 DEF Record, RowOf, TypeOK
<1>3. SavedFollow'
    BY <1>1, <1>2 DEF StatusInv, SavedFollow, Follows, Publishable
<1>4. LifecycleStep
    <2>1. CASE db'[diskGen].status = db[diskGen].status
        BY <1>2, <2>1 DEF LifecycleStep
    <2>2. CASE db'[diskGen].status # db[diskGen].status
        <3>1. LiveIn(db) = {} /\ db[diskGen].status = Absent
            BY <1>1, <1>2, <2>2 DEF OpenInv, LiveIn, Working
        <3>2. InTheTable(diskGen)
            BY <1>2, <2>2, <3>1 DEF InTheTable
        <3> QED
            BY <1>1, <1>2, <3>2, TableStep
    <2> QED
        BY <2>1, <2>2
<1> QED
    BY <1>1, <1>2, <1>3, <1>4 DEF StatusInv

\* The last record of a run says what the checkpoint says (ingest.py main).
LEMMA FinishStatus ==
    ASSUME TypeOK, TypeOK', OpenInv, CacheInv, StatusInv, FinishFetch
    PROVE  StatusInv' /\ LifecycleStep
<1>1. /\ pc = "fetch" /\ pc' = "save" /\ diskGen \in Gen /\ UNCHANGED <<cache, diskGen>>
      /\ disk \in Checkpoint /\ disk.status = "IN_PROGRESS"
      /\ db[diskGen].status \in {Absent, "IN_PROGRESS"}
    BY DEF FinishFetch, TypeOK, StatusInv
<1>2. disk'.rev = disk.rev + 1 /\ disk'.status \in Saveable /\ disk.rev \in Nat
    BY <1>1 DEF FinishFetch, NextRev, Checkpoint, Saveable
<1>3. PICK ok \in BOOLEAN : Record(ok, disk')
    BY DEF FinishFetch
<1>4. /\ \A g \in Gen \ {diskGen} : db'[g] = db[g]
      /\ db'[diskGen] = RowOf(disk') \/ db'[diskGen] = db[diskGen]
    BY <1>1, <1>3 DEF Record, TypeOK
<1>5. SavedFollow'
    <2> SUFFICES ASSUME NEW i \in DOMAIN cache[diskGen], db'[diskGen] = RowOf(disk')
                 PROVE  Follows(cache[diskGen][i], RowOf(disk'))
        BY <1>1, <1>4 DEF StatusInv, SavedFollow
    <2>1. cache[diskGen][i].rev <= disk.rev
        BY <1>1 DEF CacheInv, Newest, Working
    <2>2. cache[diskGen][i].rev \in Nat
        BY <1>1, SavedType DEF TypeOK
    <2> QED
        BY <1>2, <2>1, <2>2 DEF Follows, RowOf
<1>6. Follows(disk', db'[diskGen])
    BY <1>1, <1>4 DEF Follows, RowOf, Publishable
<1>7. LifecycleStep
    <2>1. CASE db'[diskGen].status = db[diskGen].status
        BY <1>4, <2>1 DEF LifecycleStep
    <2>2. CASE db'[diskGen].status # db[diskGen].status
        <3>1. db'[diskGen].status \in Saveable
            BY <1>2, <1>4, <2>2 DEF RowOf
        <3>2. db[diskGen].status = Absent => LiveIn(db) = {}
            BY <1>1 DEF OpenInv, LiveIn, Working
        <3>3. InTheTable(diskGen)
            BY <1>1, <2>2, <3>1, <3>2 DEF InTheTable, Saveable
        <3> QED
            BY <1>1, <1>4, <3>3, TableStep
    <2> QED
        BY <2>1, <2>2
<1> QED
    BY <1>1, <1>2, <1>5, <1>6, <1>7 DEF StatusInv

\* The steps of a fetch.
LEMMA FetchStatus ==
    ASSUME TypeOK, TypeOK', OpenInv, CacheInv, StatusInv, Fetch
    PROVE  StatusInv' /\ LifecycleStep
<1>1. CASE OutOfTime
    BY <1>1, SavedKept DEF OutOfTime, StatusInv
<1>2. ASSUME NEW c \in Comp, RosterRefused(c)
      PROVE  StatusInv' /\ LifecycleStep
    <2>1. /\ pc = "fetch" /\ disk.status = "IN_PROGRESS" /\ disk \in Checkpoint
          /\ UNCHANGED <<pc, cache, diskGen>>
        BY <1>2 DEF RosterRefused, Fetching, StatusInv, TypeOK
    <2>2. disk'.status = "IN_PROGRESS"
        BY <1>2, <2>1 DEF RosterRefused, Visited, Checkpoint
    <2>3. PICK ok \in BOOLEAN : Record(ok, disk')
        BY <1>2 DEF RosterRefused
    <2> QED
        BY <2>1, <2>2, <2>3, RecordStatus
<1>3. ASSUME NEW c \in Comp, FetchPlayers(c)
      PROVE  StatusInv' /\ LifecycleStep
    <2>1. /\ pc = "fetch" /\ disk.status = "IN_PROGRESS" /\ disk \in Checkpoint
          /\ UNCHANGED <<pc, cache, diskGen>>
        BY <1>3 DEF FetchPlayers, Fetching, StatusInv, TypeOK
    <2>2. PICK size, got, cause, seen, ok : ok \in BOOLEAN /\ Visit(c, size, got, cause, ok, seen)
        BY <1>3 DEF FetchPlayers
    <2>3. disk'.status = "IN_PROGRESS"
        BY <2>1, <2>2 DEF Visit, Visited, Checkpoint
    <2>4. ok \in BOOLEAN /\ Record(ok, disk')
        BY <2>2 DEF Visit
    <2> QED
        BY <2>1, <2>3, <2>4, RecordStatus
<1> QED
    BY <1>1, <1>2, <1>3, FinishStatus DEF Fetch

\* What is saved says what the row was told (pipeline.yml).
LEMMA SaveStatus ==
    ASSUME TypeOK, StatusInv, SaveCache
    PROVE  StatusInv' /\ LifecycleStep
<1>1. /\ pc = "save" /\ db' = db /\ diskGen \in Gen /\ disk \in Checkpoint
      /\ pc' \in {"idle", "load"}
    BY DEF SaveCache, TypeOK, EndRun
<1> DEFINE k == [disk EXCEPT !.done = Held]
           saved == cache[diskGen]
<1>2. /\ k \in Checkpoint /\ k.status = disk.status /\ k.rev = disk.rev
      /\ saved \in Seq(Checkpoint)
    BY <1>1, HeldType DEF Checkpoint, TypeOK
<1>3. k.status \in Saveable /\ Follows(k, db[diskGen])
    BY <1>1, <1>2 DEF StatusInv, Follows
<1>4. cache' = cache \/ cache' = [cache EXCEPT ![diskGen] = Saved(@, k)]
    BY DEF SaveCache
<1> HIDE DEF k
<1>5. cache'[diskGen] = saved \/ cache'[diskGen] = Append(saved, k)
    BY <1>1, <1>4 DEF TypeOK, Saved
<1>6. \A g \in Gen \ {diskGen} : cache'[g] = cache[g]
    BY <1>4 DEF TypeOK
<1>7. \A i \in DOMAIN cache'[diskGen] :
          cache'[diskGen][i] = k \/ \E j \in DOMAIN saved : cache'[diskGen][i] = saved[j]
    <2>1. CASE cache'[diskGen] = Append(saved, k)
        <3>1. /\ Append(saved, k) \in Seq(Checkpoint)
              /\ Len(Append(saved, k)) = Len(saved) + 1
              /\ Append(saved, k)[Len(saved) + 1] = k
              /\ \A j \in 1 .. Len(saved) : Append(saved, k)[j] = saved[j]
            BY <1>2, AppendProperties
        <3>2. /\ DOMAIN Append(saved, k) = 1 .. Len(saved) + 1
              /\ DOMAIN saved = 1 .. Len(saved) /\ Len(saved) \in Nat
            BY <1>2, <3>1, LenProperties
        <3> QED
            BY <2>1, <3>1, <3>2
    <2> QED
        BY <1>5, <2>1
<1>8. SavedFollow'
    BY <1>1, <1>3, <1>6, <1>7 DEF StatusInv, SavedFollow
<1>9. LifecycleStep
    BY <1>1 DEF LifecycleStep
<1> QED
    BY <1>1, <1>8, <1>9 DEF StatusInv

\* The steps that end a publication move an awaiting row only (publish_status.py
\* mark_validated, promote.py).
LEMMA LaterStatus ==
    ASSUME TypeOK, TypeOK', StatusInv, LoadAndCheck \/ MarkValidated \/ Promote
    PROVE  StatusInv' /\ LifecycleStep
<1>1. /\ cache' = cache /\ diskGen \in Gen
      /\ pc' \in {"idle", "mark", "promote"}
    BY DEF LoadAndCheck, MarkValidated, Promote, EndRun, TypeOK
<1>2. CASE db' = db
    BY <1>1, <1>2, SavedKept DEF StatusInv
<1>3. ASSUME NEW s, db' = [db EXCEPT ![diskGen].status = s],
             db[diskGen].status \in Publishable, s = db[diskGen].status \/ InTheTable(diskGen)
      PROVE  StatusInv' /\ LifecycleStep
    <2>1. /\ \A g \in Gen \ {diskGen} : db'[g] = db[g]
          /\ db'[diskGen].status = s /\ db'[diskGen].rev = db[diskGen].rev
        BY <1>1, <1>3 DEF TypeOK, Row
    <2>2. SavedFollow'
        BY <1>1, <1>3, <2>1 DEF StatusInv, SavedFollow, Follows
    <2>3. LifecycleStep
        <3>1. CASE InTheTable(diskGen)
            BY <1>1, <2>1, <3>1, TableStep
        <3>2. CASE s = db[diskGen].status
            BY <2>1, <3>2 DEF LifecycleStep
        <3> QED
            BY <1>3, <3>1, <3>2
    <2> QED
        BY <1>1, <2>2, <2>3 DEF StatusInv
<1>4. CASE /\ db[diskGen].status \in Publishable
           /\ db' = [db EXCEPT ![diskGen].status = IF @ = "COMPLETE" THEN "VALIDATED" ELSE @]
    <2> DEFINE s == IF db[diskGen].status = "COMPLETE" THEN "VALIDATED"
                    ELSE db[diskGen].status
    <2>1. db' = [db EXCEPT ![diskGen].status = s] /\ db'[diskGen].status = s
        BY <1>1, <1>4 DEF TypeOK, Row
    <2>2. s = db[diskGen].status \/ InTheTable(diskGen)
        BY <2>1 DEF InTheTable
    <2> QED
        BY <1>3, <1>4, <2>1, <2>2
<1>5. CASE /\ db[diskGen].status \in AwaitingPublication
           /\ db' = [db EXCEPT ![diskGen].status = "PUBLISHED"]
    <2>1. InTheTable(diskGen) /\ db[diskGen].status \in Publishable
        BY <1>1, <1>5 DEF InTheTable, Publishable, TypeOK, Row
    <2> QED
        BY <1>3, <1>5, <2>1
<1> QED
    BY <1>2, <1>4, <1>5 DEF LoadAndCheck, MarkValidated, Promote, Publishable

\* Killed runs, lost entries and exclusions touch no row.
LEMMA OutsideStatus ==
    ASSUME TypeOK, StatusInv, Outside, Operator = {}
    PROVE  StatusInv' /\ LifecycleStep
<1>1. CASE Crash
    BY <1>1, SavedKept, EndStatus DEF Crash, EndRun
<1>2. ASSUME NEW g \in Gen, Evict(g)
      PROVE  StatusInv' /\ LifecycleStep
    <2>1. UNCHANGED <<db, pc, job, diskGen, disk>>
        BY <1>2 DEF Evict
    <2>2. SavedFollow'
        <3>1. \A h \in Gen : \A i \in DOMAIN cache'[h] :
                  i \in DOMAIN cache[h] /\ cache'[h][i] = cache[h][i]
            BY <1>2, EvictKeeps
        <3> QED
            BY <2>1, <3>1 DEF StatusInv, SavedFollow
    <2> QED
        BY <2>1, <2>2 DEF StatusInv, LifecycleStep
<1>3. ASSUME NEW c \in Comp, ExcludeCompetition(c)
      PROVE  StatusInv' /\ LifecycleStep
    BY <1>3, SavedKept DEF ExcludeCompetition, StatusInv
<1> QED
    BY <1>1, <1>2, <1>3 DEF Outside, Abandon, AbandonOnDisk, Rollback

\* Every step keeps the statuses and is a step of the lifecycle.
LEMMA NextStatus ==
    ASSUME TypeOK, TypeOK', RevisionInv, CacheInv, OpenInv, StatusInv, [Next]_vars,
           Operator = {}
    PROVE  StatusInv' /\ LifecycleStep
<1>1. CASE UNCHANGED vars
    BY <1>1, SavedKept DEF vars, StatusInv
<1> QED
    BY <1>1, GateStatus, RestoreStatus, VerifyStatus, CreateStatus, FetchStatus, SaveStatus,
       LaterStatus, OutsideStatus
       DEF Next, RunStep

\* All that the theorems about the lifecycle rest on.
LifecycleInv == TypeOK /\ RevisionInv /\ CacheInv /\ OpenInv /\ StatusInv

LEMMA LifecycleInvAlways ==
    ASSUME Operator = {}
    PROVE  Spec => []LifecycleInv
<1>1. Init => LifecycleInv
    BY InitType, InitRevision, InitCache, InitOpen, InitStatus DEF LifecycleInv
<1>2. LifecycleInv /\ [Next]_vars => LifecycleInv'
    BY NextType, NextRevision, NextCache, NextOpen, NextStatus DEF LifecycleInv
<1> QED
    BY <1>1, <1>2, PTL DEF Spec

\* When nobody types commands, the statuses in fact_refresh_generation follow the
\* table at the head of generations.py through every failure: a refresh appears
\* only while no other is open, no stale checkpoint takes one back to a fetch,
\* and only an awaiting one is published.
THEOREM StatusesFollowTheTable ==
    ASSUME Operator = {}
    PROVE  Spec => ImplementsLifecycle
<1> DEFINE statuses == [g \in Gen |-> db[g].status]
<1>1. Init => Lifecycle!Init
    BY DEF Init, Lifecycle!Init, NoRow, Lifecycle!Absent
<1>2. ASSUME LifecycleInv, [Next]_vars
      PROVE  [\E g \in Gen : Lifecycle!Pipeline(g)]_statuses
    <2>1. LifecycleStep
        BY <1>2, NextType, NextStatus DEF LifecycleInv
    <2> QED
        BY <2>1 DEF LifecycleStep
<1>3. Spec => []LifecycleInv
    BY LifecycleInvAlways
<1> QED
    BY <1>1, <1>2, <1>3, PTL DEF Spec, ImplementsLifecycle, Lifecycle!Unattended

-----------------------------------------------------------------------------
(* The ledger *)

Before(g) == \A i \in DOMAIN ledger : ledger[i].gen < g

\* What is open, or worked on, is newer than all that was published; nothing
\* published is ever on disk again, so no published row is written.
LedgerInv ==
    /\ \A g \in Gen : db[g].status = "PUBLISHED" => IsPublished(g)
    /\ \A i \in DOMAIN ledger : db[ledger[i].gen].status = "PUBLISHED"
    /\ \A i, j \in DOMAIN ledger : i < j => ledger[i].gen < ledger[j].gen
    /\ Before(nextGen)
    /\ \A g \in LiveIn(db) : Before(g)
    /\ pc \in {"restore", "verify"} => Before(job.gen)
    /\ pc \in Working => Before(diskGen)
    /\ \A g \in Gen : \A i \in DOMAIN cache[g] : cache[g][i].status # "PUBLISHED"
    /\ disk.status # "PUBLISHED"

\* At the start nothing is published.
LEMMA InitLedger == Init => LedgerInv
<1> SUFFICES ASSUME Init PROVE LedgerInv
    OBVIOUS
<1>1. ledger = <<>> /\ DOMAIN ledger = {}
    BY LenProperties, EmptySeq DEF Init
<1> QED
    BY <1>1 DEF Init, LedgerInv, Before, LiveIn, NoRow, Working, NewGeneration

\* The entries of the ledger are generations.
LEMMA LedgerType ==
    ASSUME TypeOK, NEW i \in DOMAIN ledger
    PROVE  ledger[i].gen \in Gen
<1>1. ledger[i] \in Publication
    BY LenProperties, ElementOfSeq DEF TypeOK
<1> QED
    BY <1>1 DEF Publication

\* A generation newer than the ledger is not in it.
LEMMA NewIsUnpublished ==
    ASSUME TypeOK, LedgerInv, NEW g \in Gen, Before(g)
    PROVE  ~IsPublished(g) /\ db[g].status # "PUBLISHED"
<1>1. ~IsPublished(g)
    BY LedgerType DEF Before, IsPublished
<1> QED
    BY <1>1 DEF LedgerInv

\* A step that publishes nothing.
LEMMA QuietLedger ==
    ASSUME TypeOK, LedgerInv, ledger' = ledger,
           \A g \in Gen : db'[g].status = "PUBLISHED" <=> db[g].status = "PUBLISHED",
           \A g \in Gen : db'[g].status \in LiveStatuses => Before(g),
           nextGen' \in {nextGen, nextGen + 1},
           pc' \in {"restore", "verify"} => Before(job'.gen),
           pc' \in Working => Before(diskGen'),
           \A g \in Gen : \A i \in DOMAIN cache'[g] : cache'[g][i].status # "PUBLISHED",
           disk'.status # "PUBLISHED"
    PROVE  LedgerInv'
<1>1. \A i \in DOMAIN ledger : ledger[i].gen \in Gen
    BY LedgerType
<1>2. \A i \in DOMAIN ledger : ledger[i].gen < nextGen'
    BY <1>1 DEF LedgerInv, Before, TypeOK
<1> QED
    BY <1>1, <1>2 DEF LedgerInv, Before, IsPublished, LiveIn

\* The same where no row is written and nothing saved.
LEMMA UnwrittenLedger ==
    ASSUME TypeOK, LedgerInv, UNCHANGED <<db, ledger, cache, nextGen>>,
           pc' \in {"restore", "verify"} => Before(job'.gen),
           pc' \in Working => Before(diskGen'),
           disk'.status # "PUBLISHED"
    PROVE  LedgerInv'
<1>1. \A g \in Gen : db'[g].status \in LiveStatuses => Before(g)
    BY DEF LedgerInv, LiveIn
<1>2. \A g \in Gen : \A i \in DOMAIN cache'[g] : cache'[g][i].status # "PUBLISHED"
    BY DEF LedgerInv
<1> QED
    BY <1>1, <1>2, QuietLedger

\* The same where the run's row is written, with what is not a publication.
LEMMA OwnRowLedger ==
    ASSUME TypeOK, LedgerInv, UNCHANGED <<ledger, cache, nextGen>>,
           OnlyOwnRow, diskGen \in Gen, Before(diskGen), db'[diskGen].status # "PUBLISHED",
           pc' \in {"idle"} \cup Working, pc' \in Working => diskGen' = diskGen,
           disk'.status # "PUBLISHED"
    PROVE  LedgerInv'
<1>1. db[diskGen].status # "PUBLISHED"
    BY NewIsUnpublished
<1>2. \A g \in Gen : db'[g].status = "PUBLISHED" <=> db[g].status = "PUBLISHED"
    BY <1>1 DEF OnlyOwnRow
<1>3. \A g \in Gen : db'[g].status \in LiveStatuses => Before(g)
    BY DEF OnlyOwnRow, LedgerInv, LiveIn
<1>4. \A g \in Gen : \A i \in DOMAIN cache'[g] : cache'[g][i].status # "PUBLISHED"
    BY DEF LedgerInv
<1>5. pc' \notin {"restore", "verify"} /\ (pc' \in Working => Before(diskGen'))
    BY DEF Working
<1> QED
    BY <1>2, <1>3, <1>4, <1>5, QuietLedger

\* The gate hands a run what is open, or sets out to create (gate.py).
LEMMA GateLedger ==
    ASSUME TypeOK, LedgerInv, GateStartNew \/ \E mode \in Modes : GateResume(mode)
    PROVE  LedgerInv'
<1>1. CASE GateStartNew
    BY <1>1, UnwrittenLedger DEF GateStartNew, LedgerInv, Working
<1>2. ASSUME NEW mode \in Modes, GateResume(mode)
      PROVE  LedgerInv'
    <2>1. job'.gen \in LiveIn(db)
        BY <1>2 DEF GateResume, Decision, LiveIn
    <2>2. Before(job'.gen)
        BY <2>1 DEF LedgerInv
    <2> QED
        BY <1>2, <2>2, UnwrittenLedger DEF GateResume, LedgerInv, Working
<1> QED
    BY <1>1, <1>2

\* What comes back was never published.
LEMMA RestoreLedger ==
    ASSUME TypeOK, LedgerInv, Restore
    PROVE  LedgerInv'
<1>1. /\ pc = "restore" /\ pc' = "verify" /\ job.gen \in Gen
      /\ UNCHANGED <<db, ledger, cache, nextGen, job>>
    BY DEF Restore, TypeOK
<1>2. disk'.status # "PUBLISHED"
    <2>1. CASE cache[job.gen] = <<>>
        BY <2>1 DEF Restore, LedgerInv
    <2>2. CASE cache[job.gen] # <<>>
        <3> DEFINE saved == cache[job.gen]
        <3>1. Len(saved) \in DOMAIN saved
            BY <1>1, <2>2, EmptySeq, LenProperties DEF TypeOK
        <3>2. disk' = saved[Len(saved)]
            BY <2>2 DEF Restore
        <3> QED
            BY <1>1, <3>1, <3>2 DEF LedgerInv
    <2> QED
        BY <2>1, <2>2
<1> QED
    BY <1>1, <1>2, UnwrittenLedger DEF LedgerInv, Working

\* A row that is reconciled was not published and is not now.
LEMMA VerifyLedger ==
    ASSUME TypeOK, LedgerInv, Verify
    PROVE  LedgerInv'
<1>1. /\ pc = "verify" /\ job.gen \in Gen /\ Before(job.gen)
      /\ UNCHANGED <<ledger, cache, nextGen>>
    BY DEF Verify, VerifyRefuse, VerifyEqual, VerifyNewer, TypeOK, LedgerInv
<1>2. ASSUME NEW action, Take(action)
      PROVE  /\ pc' \in {"idle"} \cup Working
             /\ pc' \in Working => diskGen' = diskGen
             /\ disk'.status # "PUBLISHED"
    BY <1>2 DEF Take, EndRun, Working, NewGeneration, LedgerInv
<1>3. CASE VerifyRefuse
    BY <1>3, UnwrittenLedger DEF VerifyRefuse, EndRun, Working, NewGeneration
<1>4. CASE VerifyEqual
    <2>1. diskGen = job.gen /\ UNCHANGED db /\ \E action : Take(action)
        BY <1>4 DEF VerifyEqual, Verified
    <2>2. /\ pc' \in {"idle"} \cup Working
          /\ pc' \in Working => diskGen' = diskGen
          /\ disk'.status # "PUBLISHED"
        BY <1>2, <2>1
    <2> QED
        BY <1>1, <2>1, <2>2, UnwrittenLedger DEF Working
<1>5. CASE VerifyNewer
    <2>1. PICK ok \in BOOLEAN :
              LET new == IF ok THEN Reconciled(db[diskGen], disk) ELSE db[diskGen]
              IN  /\ db' = [db EXCEPT ![diskGen] = new]
                  /\ Take(ActionForStatus(IF ok THEN new.status ELSE disk.status))
        BY <1>5 DEF VerifyNewer
    <2>2. diskGen = job.gen /\ diskGen \in Gen /\ Before(diskGen)
        BY <1>1, <1>5 DEF VerifyNewer, Verified
    <2>3. db[diskGen].status # "PUBLISHED"
        BY <2>2, NewIsUnpublished
    <2>4. /\ OnlyOwnRow
          /\ db'[diskGen] = IF ok THEN Reconciled(db[diskGen], disk) ELSE db[diskGen]
        BY <2>1, <2>2 DEF OnlyOwnRow, TypeOK
    <2>5. db'[diskGen].status # "PUBLISHED"
        BY <2>3, <2>4 DEF Reconciled, ReconciledStatus, RowOf, LedgerInv
    <2>6. \E action : Take(action)
        BY <2>1
    <2>7. /\ pc' \in {"idle"} \cup Working
          /\ pc' \in Working => diskGen' = diskGen
          /\ disk'.status # "PUBLISHED"
        BY <1>2, <2>6
    <2> QED
        BY <1>1, <2>2, <2>4, <2>5, <2>7, OwnRowLedger
<1> QED
    BY <1>3, <1>4, <1>5 DEF Verify

\* A new generation is newer than all that was published (generations.py create).
LEMMA CreateLedger ==
    ASSUME TypeOK, LedgerInv, CreateGeneration
    PROVE  LedgerInv'
<1>1. /\ diskGen' = nextGen /\ Before(nextGen) /\ nextGen' = nextGen + 1 /\ pc' = "fetch"
      /\ disk' = NewGeneration /\ UNCHANGED <<db, ledger, cache>>
    BY DEF CreateGeneration, LedgerInv
<1>2. \A g \in Gen : db'[g].status \in LiveStatuses => Before(g)
    BY <1>1 DEF LedgerInv, LiveIn
<1>3. \A g \in Gen : \A i \in DOMAIN cache'[g] : cache'[g][i].status # "PUBLISHED"
    BY <1>1 DEF LedgerInv
<1>4. disk'.status # "PUBLISHED" /\ (pc' \in Working => Before(diskGen'))
    BY <1>1 DEF NewGeneration
<1> QED
    BY <1>1, <1>2, <1>3, <1>4, QuietLedger

\* What a fetch records is what the disk says (ingest.py, publish_status.py record).
LEMMA FetchLedger ==
    ASSUME TypeOK, LedgerInv, Fetch
    PROVE  LedgerInv'
<1>1. /\ pc = "fetch" /\ diskGen \in Gen /\ Before(diskGen)
      /\ db[diskGen].status # "PUBLISHED" /\ disk.status # "PUBLISHED"
    <2>1. pc = "fetch"
        BY DEF Fetch, OutOfTime, FinishFetch, RosterRefused, FetchPlayers, Fetching
    <2>2. diskGen \in Gen /\ Before(diskGen)
        BY <2>1 DEF TypeOK, LedgerInv, Working
    <2> QED
        BY <2>1, <2>2, NewIsUnpublished DEF LedgerInv
<1>2. UNCHANGED <<ledger, cache, nextGen, diskGen>> /\ pc' \in Working
    BY <1>1 DEF Fetch, OutOfTime, FinishFetch, RosterRefused, FetchPlayers, Working
<1>3. ASSUME disk'.status # "PUBLISHED", NEW ok \in BOOLEAN, Record(ok, disk')
      PROVE  LedgerInv'
    <2>1. OnlyOwnRow /\ db'[diskGen].status # "PUBLISHED"
        BY <1>1, <1>3 DEF Record, RowOf, OnlyOwnRow, TypeOK
    <2> QED
        BY <1>1, <1>2, <1>3, <2>1, OwnRowLedger
<1>5. CASE OutOfTime
    <2>1. UNCHANGED <<db, disk>>
        BY <1>5 DEF OutOfTime
    <2> QED
        BY <1>1, <1>2, <2>1, UnwrittenLedger DEF Working
<1>6. CASE FinishFetch
    <2>1. /\ disk'.status \in {"FAILED", "COMPLETE", disk.status}
          /\ \E ok \in BOOLEAN : Record(ok, disk')
        BY <1>6 DEF FinishFetch, TypeOK, Checkpoint
    <2> QED
        BY <1>1, <1>3, <2>1
<1>7. ASSUME NEW c \in Comp, RosterRefused(c)
      PROVE  LedgerInv'
    <2>1. disk' = Visited(c, disk, FALSE, report.counted) /\ \E ok \in BOOLEAN : Record(ok, disk')
        BY <1>7 DEF RosterRefused
    <2>2. disk'.status = disk.status
        BY <2>1 DEF Visited, TypeOK, Checkpoint
    <2> QED
        BY <1>1, <1>3, <2>1, <2>2
<1>8. ASSUME NEW c \in Comp, FetchPlayers(c)
      PROVE  LedgerInv'
    <2>1. PICK size, got, cause, seen, ok : ok \in BOOLEAN /\ Visit(c, size, got, cause, ok, seen)
        BY <1>8 DEF FetchPlayers
    <2>2. ok \in BOOLEAN /\ Record(ok, disk')
        BY <2>1 DEF Visit
    <2>3. disk'.status = disk.status
        BY <2>1 DEF Visit, Visited, TypeOK, Checkpoint
    <2> QED
        BY <1>1, <1>3, <2>2, <2>3
<1> QED
    BY <1>5, <1>6, <1>7, <1>8 DEF Fetch

\* The checkpoint that is saved is not published (footystats-refresh.yml).
LEMMA SaveLedger ==
    ASSUME TypeOK, LedgerInv, SaveCache
    PROVE  LedgerInv'
<1>1. /\ pc = "save" /\ diskGen \in Gen /\ Before(diskGen)
      /\ UNCHANGED <<db, ledger, nextGen>>
      /\ pc' \in {"idle", "load"} /\ (pc' = "load" => diskGen' = diskGen)
      /\ disk' \in {disk, NewGeneration}
    BY DEF SaveCache, TypeOK, LedgerInv, Working, EndRun
<1>2. \A g \in Gen : db'[g].status \in LiveStatuses => Before(g)
    BY <1>1 DEF LedgerInv, LiveIn
<1>3. disk'.status # "PUBLISHED"
    BY <1>1 DEF LedgerInv, NewGeneration
<1>4. \A g \in Gen : \A i \in DOMAIN cache'[g] : cache'[g][i].status # "PUBLISHED"
    <2>1. CASE cache' = cache
        BY <2>1 DEF LedgerInv
    <2>2. CASE cache' # cache
        <3> DEFINE k == [disk EXCEPT !.done = Held]
                   saved == cache[diskGen]
        <3>1. cache' = [cache EXCEPT ![diskGen] = Saved(saved, k)]
            BY <2>2 DEF SaveCache
        <3>2. saved \in Seq(Checkpoint) /\ k.status # "PUBLISHED"
            BY <1>1 DEF TypeOK, LedgerInv, Checkpoint
        <3> HIDE DEF k
        <3>3. \A i \in DOMAIN Append(saved, k) :
                  Append(saved, k)[i].status # "PUBLISHED"
            BY <1>1, <3>2, AppendProperties, LenProperties DEF LedgerInv
        <3>4. \A i \in DOMAIN Saved(saved, k) : Saved(saved, k)[i].status # "PUBLISHED"
            BY <1>1, <3>3 DEF Saved, LedgerInv
        <3> QED
            BY <1>1, <3>1, <3>4 DEF TypeOK, LedgerInv
    <2> QED
        BY <2>1, <2>2
<1> QED
    BY <1>1, <1>2, <1>3, <1>4, QuietLedger DEF Working

\* Checking and marking publish nothing (load_providers.py, publish_status.py
\* mark).
LEMMA MarkLedger ==
    ASSUME TypeOK, LedgerInv, LoadAndCheck \/ MarkValidated
    PROVE  LedgerInv'
<1>1. /\ pc \in Working /\ diskGen \in Gen /\ Before(diskGen)
      /\ db[diskGen].status # "PUBLISHED" /\ disk.status # "PUBLISHED"
    <2>1. pc \in {"load", "mark"}
        BY DEF LoadAndCheck, MarkValidated
    <2>2. diskGen \in Gen /\ Before(diskGen)
        BY <2>1 DEF TypeOK, LedgerInv, Working
    <2> QED
        BY <2>1, <2>2, NewIsUnpublished DEF LedgerInv, Working
<1>2. CASE LoadAndCheck
    <2>1. /\ UNCHANGED <<db, ledger, cache, nextGen>> /\ pc' \in {"idle", "mark"}
          /\ (pc' = "mark" => diskGen' = diskGen) /\ disk' \in {disk, NewGeneration}
        BY <1>2 DEF LoadAndCheck, EndRun
    <2> QED
        BY <1>1, <2>1, UnwrittenLedger DEF Working, NewGeneration
<1>3. CASE MarkValidated
    <2>1. /\ UNCHANGED <<ledger, cache, nextGen>> /\ pc' \in {"idle", "promote"}
          /\ (pc' = "promote" => diskGen' = diskGen)
        BY <1>3 DEF MarkValidated, EndRun
    <2>2. db' = db \/ db' = [db EXCEPT ![diskGen].status =
                                   IF @ = "COMPLETE" THEN "VALIDATED" ELSE @]
        BY <1>3 DEF MarkValidated
    <2>3. OnlyOwnRow /\ db'[diskGen].status # "PUBLISHED"
        <3>1. db \in [Gen -> Row]
            BY DEF TypeOK
        <3>2. db[diskGen] \in Row
            BY <1>1, <3>1
        <3>3. db'[diskGen].status # "PUBLISHED"
            BY <1>1, <2>2, <3>1, <3>2 DEF Row
        <3>4. OnlyOwnRow
            BY <2>2, <3>1 DEF OnlyOwnRow
        <3> QED
            BY <3>3, <3>4
    <2>4. disk'.status # "PUBLISHED"
        BY <1>1, <1>3 DEF MarkValidated, EndRun, NewGeneration, TypeOK, Checkpoint
    <2> QED
        BY <1>1, <2>1, <2>3, <2>4, OwnRowLedger DEF Working
<1> QED
    BY <1>2, <1>3

\* A promotion goes to the end of the ledger, and leaves nothing open
\* (promote.py, publish_status.py).
LEMMA PromoteLedger ==
    ASSUME TypeOK, OpenInv, RevisionInv, LedgerInv, Promote
    PROVE  LedgerInv'
<1>1. /\ pc = "promote" /\ pc' = "idle" /\ diskGen \in Gen /\ Before(diskGen)
      /\ UNCHANGED <<cache, nextGen>> /\ disk'.status # "PUBLISHED"
      /\ LiveIn(db) \subseteq {diskGen} /\ diskGen < nextGen
    BY DEF Promote, EndRun, TypeOK, LedgerInv, Working, OpenInv, RevisionInv, NewGeneration
<1>2. CASE UNCHANGED <<db, ledger>>
    BY <1>1, <1>2, UnwrittenLedger DEF Working
<1>3. CASE ~UNCHANGED <<db, ledger>>
    <2> DEFINE p == [gen |-> diskGen, wanted |-> disk.wanted, roster |-> disk.roster,
                     have |-> loaded]
    <2>1. db' = [db EXCEPT ![diskGen].status = "PUBLISHED"] /\ ledger' = Append(ledger, p)
        BY <1>3 DEF Promote
    <2>2. p \in Publication /\ p.gen = diskGen /\ ledger \in Seq(Publication)
        BY <1>1 DEF TypeOK, Checkpoint, Publication
    <2> HIDE DEF p
    <2>3. /\ DOMAIN ledger = 1 .. Len(ledger) /\ Len(ledger) \in Nat
          /\ DOMAIN ledger' = 1 .. Len(ledger) + 1
          /\ \A i \in 1 .. Len(ledger) : ledger'[i] = ledger[i]
          /\ ledger'[Len(ledger) + 1] = p
        BY <2>1, <2>2, AppendProperties, LenProperties
    <2> DEFINE old == DOMAIN ledger
               new == Len(ledger) + 1
    <2>4. /\ DOMAIN ledger' = old \cup {new} /\ new \notin old
          /\ \A i \in old : ledger'[i].gen = ledger[i].gen
          /\ ledger'[new].gen = diskGen
          /\ \A i, j \in old \cup {new} : i < j => i \in old
          /\ \A i \in old : ~(new < i)
        BY <2>2, <2>3
    <2> HIDE DEF old, new
    <2>5. \A i \in old : ledger[i].gen \in Gen /\ ledger[i].gen < diskGen
        BY <1>1, LedgerType DEF Before, old
    <2>6. /\ db'[diskGen].status = "PUBLISHED"
          /\ \A g \in Gen \ {diskGen} : db'[g] = db[g]
        BY <1>1, <2>1 DEF TypeOK, Row
    <2>7. \A g \in Gen : db'[g].status = "PUBLISHED" => IsPublished(g)'
        <3> SUFFICES ASSUME NEW g \in Gen, db'[g].status = "PUBLISHED"
                     PROVE  \E i \in DOMAIN ledger' : ledger'[i].gen = g
            BY DEF IsPublished
        <3>1. CASE g = diskGen
            BY <2>4, <3>1
        <3>2. CASE g # diskGen
            BY <2>4, <2>6, <3>2 DEF LedgerInv, IsPublished, old
        <3> QED
            BY <3>1, <3>2
    <2>8. \A i \in DOMAIN ledger' : db'[ledger'[i].gen].status = "PUBLISHED"
        BY <2>4, <2>5, <2>6 DEF LedgerInv, old
    <2>9. \A i, j \in DOMAIN ledger' : i < j => ledger'[i].gen < ledger'[j].gen
        <3> SUFFICES ASSUME NEW i \in DOMAIN ledger', NEW j \in DOMAIN ledger', i < j
                     PROVE  ledger'[i].gen < ledger'[j].gen
            OBVIOUS
        <3>1. i \in old
            BY <2>4
        <3>2. CASE j = new
            BY <2>4, <2>5, <3>1, <3>2
        <3>3. CASE j \in old
            BY <2>4, <3>1, <3>3 DEF LedgerInv, old
        <3> QED
            BY <2>4, <3>2, <3>3
    <2>10. \A i \in DOMAIN ledger' : ledger'[i].gen < nextGen'
        BY <1>1, <2>4, <2>5 DEF LedgerInv, Before, old
    <2>11. LiveIn(db') = {}
        BY <1>1, <2>6 DEF LiveIn
    <2>12. \A g \in Gen : \A i \in DOMAIN cache'[g] : cache'[g][i].status # "PUBLISHED"
        BY <1>1 DEF LedgerInv
    <2> QED
        BY <1>1, <2>7, <2>8, <2>9, <2>10, <2>11, <2>12 DEF LedgerInv, Before, LiveIn, Working
<1> QED
    BY <1>2, <1>3

\* What comes from outside publishes nothing and undoes nothing.
LEMMA OutsideLedger ==
    ASSUME TypeOK, LedgerInv, Outside, "rollback" \notin Operator,
           "abandon_disk" \notin Operator
    PROVE  LedgerInv'
<1>1. CASE Crash
    BY <1>1, UnwrittenLedger DEF Crash, EndRun, Working, NewGeneration
<1>2. ASSUME NEW g \in Gen, Abandon(g)
      PROVE  LedgerInv'
    <2>1. /\ db'[g].status = "FAILED" /\ db[g].status \in LiveStatuses
          /\ \A h \in Gen \ {g} : db'[h] = db[h]
          /\ UNCHANGED <<ledger, cache, nextGen, pc, job, diskGen, disk>>
        BY <1>2 DEF Abandon, TypeOK, Row
    <2>2. \A h \in Gen : db'[h].status = "PUBLISHED" <=> db[h].status = "PUBLISHED"
        BY <2>1
    <2>3. \A h \in Gen : db'[h].status \in LiveStatuses => Before(h)
        BY <2>1 DEF LedgerInv, LiveIn
    <2> QED
        BY <2>1, <2>2, <2>3, QuietLedger DEF LedgerInv
<1>3. ASSUME NEW g \in Gen, Evict(g)
      PROVE  LedgerInv'
    <2>1. UNCHANGED <<db, ledger, nextGen, pc, job, diskGen, disk>>
        BY <1>3 DEF Evict
    <2>2. \A h \in Gen : \A i \in DOMAIN cache'[h] : cache'[h][i].status # "PUBLISHED"
        BY <1>3, EvictKeeps DEF LedgerInv
    <2> QED
        BY <2>1, <2>2, QuietLedger DEF LedgerInv, LiveIn
<1>4. ASSUME NEW c \in Comp, ExcludeCompetition(c)
      PROVE  LedgerInv'
    BY <1>4, UnwrittenLedger DEF ExcludeCompetition, LedgerInv
<1> QED
    BY <1>1, <1>2, <1>3, <1>4 DEF Outside, AbandonOnDisk, Rollback

\* Every step keeps the ledger in step with the rows.
LEMMA NextLedger ==
    ASSUME TypeOK, OpenInv, RevisionInv, LedgerInv, [Next]_vars,
           "rollback" \notin Operator, "abandon_disk" \notin Operator
    PROVE  LedgerInv'
<1>1. CASE UNCHANGED vars
    BY <1>1, UnwrittenLedger DEF vars, LedgerInv
<1> QED
    BY <1>1, GateLedger, RestoreLedger, VerifyLedger, CreateLedger, FetchLedger, SaveLedger,
       MarkLedger, PromoteLedger, OutsideLedger
       DEF Next, RunStep

\* The generation the pages call published is the last one of the ledger.
LEMMA PublishedIsLast ==
    ASSUME TypeOK, LedgerInv
    PROVE  RefreshStatus.published = IF ledger = <<>> THEN NoGen ELSE ledger[Len(ledger)].gen
<1> DEFINE recorded == {g \in Gen : db[g].status # Absent}
           done == {g \in recorded : db[g].status = "PUBLISHED"}
<1>1. RefreshStatus.published = NewestOf(done)
    BY DEF RefreshStatus
<1>2. \A g : g \in done <=> g \in Gen /\ \E i \in DOMAIN ledger : ledger[i].gen = g
    BY LedgerType DEF LedgerInv, IsPublished
<1>3. DOMAIN ledger = 1 .. Len(ledger) /\ Len(ledger) \in Nat
    BY LenProperties DEF TypeOK
<1>4. CASE ledger = <<>>
    <2>1. done = {}
        BY <1>2, <1>3, <1>4
    <2> QED
        BY <1>1, <1>4, <2>1 DEF NewestOf
<1>5. CASE ledger # <<>>
    <2> DEFINE last == Len(ledger)
    <2>1. last \in DOMAIN ledger
        BY <1>3, <1>5, EmptySeq DEF TypeOK
    <2>2. ledger[last].gen \in done
        BY <1>2, <2>1, LedgerType
    <2>3. ASSUME NEW h \in done
          PROVE  h <= ledger[last].gen
        <3>1. PICK i \in DOMAIN ledger : ledger[i].gen = h
            BY <1>2
        <3>2. h \in Gen /\ ledger[last].gen \in Gen
            BY <2>1, LedgerType
        <3>3. i = last \/ i < last
            BY <1>3, <3>1
        <3> QED
            BY <2>1, <3>1, <3>2, <3>3 DEF LedgerInv
    <2>4. \A g \in done : (\A h \in done : h <= g) => g = ledger[last].gen
        BY <2>2, <2>3, LedgerType, <2>1
    <2> HIDE DEF done
    <2>5. NewestOf(done) = ledger[last].gen
        BY <2>2, <2>3, <2>4 DEF NewestOf
    <2> QED
        BY <1>1, <1>5, <2>5
<1> QED
    BY <1>4, <1>5

\* What was published is what the ledger says and what the pages call
\* published, each once and in the order of the ids, whatever is killed, lost or
\* given up by its id between the promotion's two writes and the reports of the
\* next refresh (promote.py promote; publish_status.py record, mark_failed;
\* quality_service.py refresh_status).  The two commands it is not said of take a
\* published status away: a rollback, after which an older refresh may be
\* published again, and an abandon beside the directory, which leaves the ledger
\* row of what it fails (generations.py main).
THEOREM LedgerAgrees ==
    ASSUME "rollback" \notin Operator, "abandon_disk" \notin Operator
    PROVE  Spec => []LedgerAgreesWithStatus
<1> DEFINE IInv == TypeOK /\ OpenInv /\ RevisionInv /\ LedgerInv
<1>1. Init => IInv
    BY InitType, InitOpen, InitRevision, InitLedger
<1>2. IInv /\ [Next]_vars => IInv'
    BY NextType, NextOpen, NextRevision, NextLedger
<1>3. IInv => LedgerAgreesWithStatus
    <2> SUFFICES ASSUME IInv PROVE LedgerAgreesWithStatus
        OBVIOUS
    <2>1. \A i, j \in DOMAIN ledger : ledger[i].gen = ledger[j].gen => i = j
        <3> SUFFICES ASSUME NEW i \in DOMAIN ledger, NEW j \in DOMAIN ledger,
                            ledger[i].gen = ledger[j].gen
                     PROVE  i = j
            OBVIOUS
        <3>1. i \in Nat /\ j \in Nat /\ ledger[i].gen \in Gen /\ ledger[j].gen \in Gen
            BY LenProperties, LedgerType DEF TypeOK
        <3>2. ~(i < j) /\ ~(j < i)
            BY <3>1 DEF LedgerInv
        <3> QED
            BY <3>1, <3>2
    <2> QED
        BY <2>1, PublishedIsLast DEF LedgerAgreesWithStatus, LedgerInv
<1> QED
    BY <1>1, <1>2, <1>3, PTL DEF Spec

-----------------------------------------------------------------------------
(* What the cache holds *)

\* The newest saved checkpoint is as new as the row.
Kept(g) == cache[g] # <<>> /\ db[g].rev <= NewestRev(g)

\* The run that works on it has not saved what it has done.
InHand(g) == pc \in {"fetch", "save"} /\ g = diskGen

\* Every generation with a row can be restored, but for the one being fetched, of
\* which the run has everything on its disk and saves it before it ends.
KeptInv ==
    /\ \A g \in Gen : db[g].status # Absent => Kept(g) \/ InHand(g)
    /\ pc \in {"restore", "verify"} => db[job.gen].status # Absent
    /\ pc = "verify" /\ diskGen = job.gen => Kept(diskGen) /\ disk.rev = NewestRev(diskGen)
    /\ pc \in {"fetch", "save"} /\ db[diskGen].status # Absent => db[diskGen].rev <= disk.rev

\* No runner is lost, no save fails and nothing is evicted: the failures that
\* leave a generation for a person to abandon.
Undamaged == Faults \cap {"crash", "evict", "save"} = {}

\* Nothing is in hand at the start.
LEMMA InitKept == Init => KeptInv
BY DEF Init, KeptInv, NoRow

\* A step that neither moves a revision nor saves nor adds a row.
LEMMA QuietKept ==
    ASSUME TypeOK, KeptInv, cache' = cache,
           \A g \in Gen : /\ db'[g].rev = db[g].rev
                          /\ db'[g].status # Absent <=> db[g].status # Absent,
           \/ pc \notin {"fetch", "save"}
           \/ pc' = pc /\ diskGen' = diskGen,
           \/ pc' \notin {"restore", "verify"}
           \/ pc' = pc /\ UNCHANGED <<diskGen, disk, job>>,
           pc' \in {"fetch", "save"} /\ db'[diskGen'].status # Absent =>
               db'[diskGen'].rev <= disk'.rev
    PROVE  KeptInv'
<1>1. \A g \in Gen : Kept(g)' <=> Kept(g)
    BY DEF Kept, NewestRev
<1>2. \A g \in Gen : NewestRev(g)' = NewestRev(g)
    BY DEF NewestRev
<1>3. \A g \in Gen : InHand(g) => InHand(g)'
    BY DEF InHand
<1>4. pc \in {"restore", "verify"} => job.gen \in Gen
    BY DEF TypeOK
<1> QED
    BY <1>1, <1>2, <1>3, <1>4 DEF KeptInv

\* The gate goes on with a generation that has a row (gate.py).
LEMMA GateKept ==
    ASSUME TypeOK, KeptInv, NEW mode \in Modes, GateResume(mode)
    PROVE  KeptInv'
<1>1. pc = "idle" /\ pc' = "restore" /\ UNCHANGED <<db, cache, diskGen>>
    BY DEF GateResume
<1>2. db[job'.gen].status # Absent
    BY DEF GateResume, Decision, LiveIn
<1>3. \A g \in Gen : (Kept(g)' <=> Kept(g)) /\ ~InHand(g)
    BY <1>1 DEF Kept, NewestRev, InHand
<1> QED
    BY <1>1, <1>2, <1>3 DEF KeptInv

\* A restore brings the newest checkpoint (pipeline.yml).
LEMMA RestoreKept ==
    ASSUME TypeOK, CacheInv, KeptInv, Restore
    PROVE  KeptInv'
<1>1. /\ pc = "restore" /\ pc' = "verify" /\ job.gen \in Gen /\ diskGen = NoGen
      /\ UNCHANGED <<db, cache, job>>
    BY DEF Restore, CacheInv, TypeOK
<1>2. \A g \in Gen : /\ Kept(g)' <=> Kept(g)
                     /\ NewestRev(g)' = NewestRev(g)
                     /\ ~InHand(g)
    BY <1>1 DEF Kept, NewestRev, InHand
<1>3. Kept(job.gen) /\ db[job.gen].status # Absent
    BY <1>1, <1>2 DEF KeptInv
<1>4. diskGen' = job.gen /\ disk'.rev = NewestRev(job.gen)
    BY <1>1, <1>3 DEF Restore, Kept, NewestRev
<1> QED
    BY <1>1, <1>2, <1>3, <1>4 DEF KeptInv

\* Reconciling moves a row to the checkpoint that was restored.
LEMMA VerifyKept ==
    ASSUME TypeOK, KeptInv, Verify
    PROVE  KeptInv'
<1>1. pc = "verify" /\ job.gen \in Gen /\ cache' = cache
    BY DEF Verify, VerifyRefuse, VerifyEqual, VerifyNewer, TypeOK
<1>2. pc' \notin {"restore", "verify"}
    BY DEF Verify, VerifyRefuse, VerifyEqual, VerifyNewer, Take, EndRun
<1>3. CASE db' = db
    <2>1. CASE pc' \in {"fetch", "save"}
        <3>1. UNCHANGED <<diskGen, disk>> /\ Verified
            BY <2>1 DEF Verify, VerifyRefuse, VerifyEqual, VerifyNewer, Take, EndRun
        <3>2. db[diskGen].rev <= disk.rev
            BY <1>1, <3>1 DEF KeptInv, Kept, Verified
        <3> QED
            BY <1>1, <1>2, <1>3, <3>1, <3>2, QuietKept
    <2>2. CASE pc' \notin {"fetch", "save"}
        BY <1>1, <1>2, <1>3, <2>2, QuietKept
    <2> QED
        BY <2>1, <2>2
<1>4. CASE VerifyNewer
    <2>1. PICK ok \in BOOLEAN :
              LET row == IF ok THEN Reconciled(db[diskGen], disk) ELSE db[diskGen] IN
              db' = [db EXCEPT ![diskGen] = row]
        BY <1>4 DEF VerifyNewer
    <2>2. diskGen = job.gen /\ Kept(diskGen) /\ disk.rev = NewestRev(diskGen)
        BY <1>1, <1>4 DEF VerifyNewer, Verified, KeptInv
    <2>3. db'[diskGen].rev = db[diskGen].rev \/ db'[diskGen].rev = disk.rev
        BY <1>1, <2>1, <2>2 DEF TypeOK, Reconciled, RowOf
    <2>4. \A g \in Gen \ {diskGen} : db'[g] = db[g]
        BY <2>1 DEF TypeOK
    <2>5. disk.rev \in Nat
        BY DEF TypeOK, Checkpoint
    <2>6. PICK own \in Gen : own = diskGen
        BY <1>1, <2>2
    <2>7. Kept(own)'
        BY <1>1, <2>2, <2>3, <2>5, <2>6 DEF Kept, NewestRev
    <2>8. \A g \in Gen \ {own} : db'[g].status # Absent => Kept(g)'
        BY <1>1, <2>4, <2>6 DEF KeptInv, Kept, NewestRev, InHand
    <2>9. db'[diskGen].rev <= disk.rev
        BY <2>2, <2>3, <2>5 DEF Kept
    <2>10. pc' \in {"fetch", "save"} => UNCHANGED <<diskGen, disk>>
        BY <1>4 DEF VerifyNewer, Take, EndRun
    <2> QED
        BY <1>2, <2>7, <2>8, <2>9, <2>10 DEF KeptInv
<1> QED
    BY <1>3, <1>4 DEF Verify, VerifyRefuse, VerifyEqual

\* A fetch writes the row of what it has in hand, and stays at it.
LEMMA FetchKept ==
    ASSUME TypeOK, KeptInv, Fetch
    PROVE  KeptInv'
<1>1. /\ pc = "fetch" /\ pc' \in {"fetch", "save"} /\ diskGen' = diskGen /\ cache' = cache
      /\ diskGen \in Gen /\ db[diskGen] \in Row /\ disk \in Checkpoint
    BY DEF Fetch, OutOfTime, FinishFetch, RosterRefused, FetchPlayers, Fetching, TypeOK
<1> DEFINE Own == \A g \in Gen \ {diskGen} : db'[g] = db[g]
           Behind == db'[diskGen].status # Absent => db'[diskGen].rev <= disk'.rev
<1>2. Own /\ Behind
    <2>1. CASE OutOfTime
        BY <1>1, <2>1 DEF OutOfTime, KeptInv
    <2>2. ASSUME NEW ok, Record(ok, disk'), disk'.rev \in Nat, disk'.rev >= disk.rev
          PROVE  Own /\ Behind
        <3>1. disk.rev \in Nat /\ db[diskGen].rev \in Nat
            BY <1>1 DEF Checkpoint, Row
        <3>2. db[diskGen].status # Absent => db[diskGen].rev <= disk.rev
            BY <1>1 DEF KeptInv
        <3>3. CASE db' = db
            BY <2>2, <3>1, <3>2, <3>3
        <3>4. CASE db' = [db EXCEPT ![diskGen] = RowOf(disk')]
            BY <1>1, <2>2, <3>4 DEF RowOf, TypeOK
        <3> QED
            BY <2>2, <3>3, <3>4 DEF Record
    <2>3. CASE FinishFetch
        <3>1. disk'.rev = disk.rev + 1
            BY <1>1, <2>3 DEF FinishFetch, NextRev, Checkpoint
        <3>2. PICK ok : Record(ok, disk')
            BY <2>3 DEF FinishFetch
        <3> QED
            BY <1>1, <2>2, <3>1, <3>2 DEF Checkpoint
    <2>4. ASSUME NEW c \in Comp, RosterRefused(c)
          PROVE  Own /\ Behind
        <3>1. disk'.rev = disk.rev
            BY <1>1, <2>4 DEF RosterRefused, Visited, Checkpoint
        <3>2. PICK ok : Record(ok, disk')
            BY <2>4 DEF RosterRefused
        <3> QED
            BY <1>1, <2>2, <3>1, <3>2 DEF Checkpoint
    <2>5. ASSUME NEW c \in Comp, FetchPlayers(c)
          PROVE  Own /\ Behind
        <3>1. PICK size, got, cause, seen, ok : Visit(c, size, got, cause, ok, seen)
            BY <2>5 DEF FetchPlayers
        <3>2. disk'.rev = disk.rev
            BY <1>1, <3>1 DEF Visit, Visited, Checkpoint
        <3>3. Record(ok, disk')
            BY <3>1 DEF Visit
        <3> QED
            BY <1>1, <2>2, <3>2, <3>3 DEF Checkpoint
    <2> QED
        BY <2>1, <2>3, <2>4, <2>5 DEF Fetch
<1>3. \A g \in Gen \ {diskGen} : db'[g].status # Absent => Kept(g)'
    BY <1>1, <1>2 DEF KeptInv, Kept, NewestRev, InHand
<1> QED
    BY <1>1, <1>2, <1>3 DEF KeptInv, InHand

\* The save is of the revision in hand, above any that is there.
LEMMA SaveKept ==
    ASSUME Undamaged, TypeOK, CacheInv, KeptInv, SaveCache
    PROVE  KeptInv'
<1>1. /\ pc = "save" /\ diskGen \in Gen /\ disk \in Checkpoint /\ db' = db
      /\ pc' \in {"idle", "load"}
      /\ db[diskGen].status # Absent => db[diskGen].rev <= disk.rev
    BY DEF SaveCache, EndRun, TypeOK, KeptInv
<1>2. PICK own \in Gen : own = diskGen
    BY <1>1
<1> DEFINE k == [disk EXCEPT !.done = Held]
           saved == cache[own]
<1>3. k \in Checkpoint /\ k.rev = disk.rev
    BY <1>1, HeldType DEF Checkpoint
<1>4. saved \in Seq(Checkpoint) /\ Rising(saved) /\ Fresh(k, saved)
    BY <1>1, <1>2, <1>3 DEF TypeOK, CacheInv, Fresh
<1>5. cache' = [cache EXCEPT ![own] = Saved(@, k)]
    BY <1>2 DEF SaveCache, Adverse, Undamaged
<1> HIDE DEF k
<1>6. cache'[own] = Append(saved, k)
    BY <1>2, <1>3, <1>4, <1>5, SavedRises DEF TypeOK
<1>7. \A g \in Gen \ {own} : cache'[g] = cache[g]
    BY <1>5 DEF TypeOK
<1>8. /\ Len(cache'[own]) = Len(saved) + 1 /\ cache'[own][Len(saved) + 1] = k
      /\ cache'[own] # <<>>
    <2>1. Append(saved, k) # <<>> /\ Len(Append(saved, k)) = Len(saved) + 1
        BY <1>3, <1>4, AppendProperties
    <2>2. Append(saved, k)[Len(saved) + 1] = k
        BY <1>3, <1>4, AppendProperties
    <2> QED
        BY <1>6, <2>1, <2>2
<1>9. db[own].status # Absent => Kept(own)'
    BY <1>1, <1>2, <1>3, <1>8 DEF Kept, NewestRev
<1>10. \A g \in Gen \ {own} : db[g].status # Absent => Kept(g)'
    BY <1>1, <1>2, <1>7 DEF KeptInv, Kept, NewestRev, InHand
<1> QED
    BY <1>1, <1>9, <1>10 DEF KeptInv

\* What comes after the save moves statuses only.
LEMMA LaterKept ==
    ASSUME TypeOK, KeptInv, LoadAndCheck \/ MarkValidated \/ Promote
    PROVE  KeptInv'
<1>1. /\ pc \in {"load", "mark", "promote"}
      /\ pc' \notin {"restore", "verify", "fetch", "save"}
      /\ cache' = cache /\ diskGen \in Gen
    BY DEF LoadAndCheck, MarkValidated, Promote, EndRun, TypeOK
<1>2. CASE db' = db
    BY <1>1, <1>2, QuietKept
<1>3. CASE MarkValidated /\ db' # db
    <2>1. db' = [db EXCEPT ![diskGen].status = IF @ = "COMPLETE" THEN "VALIDATED" ELSE @]
        BY <1>3 DEF MarkValidated
    <2>2. \A g \in Gen : /\ db'[g].rev = db[g].rev
                         /\ db'[g].status # Absent <=> db[g].status # Absent
        BY <1>1, <2>1 DEF TypeOK, Row
    <2> QED
        BY <1>1, <2>2, QuietKept
<1>4. CASE Promote /\ db' # db
    <2>1. /\ db' = [db EXCEPT ![diskGen].status = "PUBLISHED"]
          /\ db[diskGen].status \in AwaitingPublication
        BY <1>4 DEF Promote
    <2>2. \A g \in Gen : /\ db'[g].rev = db[g].rev
                         /\ db'[g].status # Absent <=> db[g].status # Absent
        BY <1>1, <2>1 DEF TypeOK, Row
    <2> QED
        BY <1>1, <2>2, QuietKept
<1> QED
    BY <1>2, <1>3, <1>4 DEF LoadAndCheck

\* A copy of a directory is no newer than the newest one saved, and than what a
\* run has in hand.
LEMMA OnDiskKept ==
    ASSUME TypeOK, CacheInv, KeptInv, NEW g \in Gen, NEW i \in DOMAIN cache[g],
           AbandonOnDisk(g, cache[g][i])
    PROVE  KeptInv'
<1>1. /\ db'[g].status = "FAILED" /\ db'[g].rev = cache[g][i].rev
      /\ \A h \in Gen \ {g} : db'[h] = db[h]
      /\ UNCHANGED <<cache, pc, job, diskGen, disk>>
    BY OnDiskRow
<1>2. \A h \in Gen : NewestRev(h)' = NewestRev(h)
    BY <1>1 DEF NewestRev
<1>3. cache[g] # <<>> /\ cache[g][i].rev <= NewestRev(g)
    <2>1. cache[g] \in Seq(Checkpoint) /\ i \in 1 .. Len(cache[g]) /\ Len(cache[g]) \in Nat
        BY LenProperties DEF TypeOK
    <2>2. cache[g] # <<>> /\ Len(cache[g]) \in DOMAIN cache[g]
        BY <2>1, EmptySeq, LenProperties
    <2>3. cache[g][i].rev \in Nat /\ cache[g][Len(cache[g])].rev \in Nat
        BY <2>1, <2>2, SavedType
    <2>4. i = Len(cache[g]) \/ cache[g][i].rev < cache[g][Len(cache[g])].rev
        BY <2>1, <2>2 DEF CacheInv, Rising
    <2> QED
        BY <2>2, <2>3, <2>4 DEF NewestRev
<1>4. \A h \in Gen : db'[h].status # Absent => Kept(h)' \/ InHand(h)'
    <2>1. Kept(g)'
        BY <1>1, <1>2, <1>3 DEF Kept
    <2>2. \A h \in Gen \ {g} : (Kept(h)' <=> Kept(h)) /\ (InHand(h)' <=> InHand(h))
        BY <1>1, <1>2 DEF Kept, InHand
    <2> QED
        BY <1>1, <2>1, <2>2 DEF KeptInv
<1>5. pc \in {"restore", "verify"} => job.gen \in Gen /\ db'[job.gen].status # Absent
    BY <1>1 DEF KeptInv, TypeOK
<1>6. pc = "verify" /\ diskGen = job.gen => Kept(diskGen)' /\ disk.rev = NewestRev(diskGen)'
    <2> SUFFICES ASSUME pc = "verify", diskGen = job.gen
                 PROVE  Kept(diskGen)' /\ disk.rev = NewestRev(diskGen)'
        OBVIOUS
    <2>1. PICK own \in Gen : own = diskGen
        BY <1>5
    <2>2. Kept(own) /\ disk.rev = NewestRev(own)
        BY <2>1 DEF KeptInv
    <2>3. Kept(own)' /\ disk.rev = NewestRev(own)'
        BY <1>1, <1>2, <1>3, <2>2 DEF Kept
    <2> QED
        BY <1>1, <2>1, <2>3
<1>7. pc \in {"fetch", "save"} /\ db'[diskGen].status # Absent => db'[diskGen].rev <= disk.rev
    <2> SUFFICES ASSUME pc \in {"fetch", "save"}, db'[diskGen].status # Absent
                 PROVE  db'[diskGen].rev <= disk.rev
        OBVIOUS
    <2>1. diskGen \in Gen /\ disk.rev \in Nat /\ cache[g] \in Seq(Checkpoint)
        BY DEF TypeOK, Checkpoint
    <2>2. CASE diskGen = g
        <3>1. cache[g][i].rev < disk.rev \/ cache[g][i].rev <= disk.rev
            BY <2>2 DEF CacheInv, Working, Newest, Fresh
        <3>2. cache[g][i].rev \in Nat
            BY <2>1, SavedType
        <3> QED
            BY <1>1, <2>1, <2>2, <3>1, <3>2
    <2>3. CASE diskGen # g
        BY <1>1, <2>1, <2>3 DEF KeptInv
    <2> QED
        BY <2>2, <2>3
<1> QED
    BY <1>1, <1>4, <1>5, <1>6, <1>7 DEF KeptInv

\* A person moves statuses only, or puts back a row that was saved.
LEMMA OutsideKept ==
    ASSUME Undamaged, TypeOK, CacheInv, KeptInv, Outside,
           ~ \E g \in Gen : \E i \in DOMAIN cache[g] : AbandonOnDisk(g, cache[g][i])
    PROVE  KeptInv'
<1>1. ~Crash /\ \A g \in Gen : ~Evict(g)
    BY DEF Undamaged, Crash, Evict, Adverse
<1>2. UNCHANGED <<cache, pc, job, diskGen, disk>>
    BY <1>1 DEF Outside, Abandon, ExcludeCompetition, Rollback
<1>4. pc \in {"fetch", "save"} => diskGen \in Gen
    BY DEF TypeOK
<1>3. \A g \in Gen : /\ db'[g].rev = db[g].rev
                     /\ db'[g].status # Absent <=> db[g].status # Absent
    <2>1. ASSUME NEW g \in Gen, Abandon(g)
          PROVE  \A h \in Gen : /\ db'[h].rev = db[h].rev
                                /\ db'[h].status # Absent <=> db[h].status # Absent
        BY <2>1 DEF Abandon, TypeOK, Row
    <2>2. ASSUME NEW c \in Comp, ExcludeCompetition(c)
          PROVE  db' = db
        BY <2>2 DEF ExcludeCompetition
    <2>3. CASE Rollback
        <3>1. PICK g : g = ledger[Len(ledger)].gen
            OBVIOUS
        <3>2. db' = [db EXCEPT ![g].status = IF @ = "PUBLISHED" THEN "VALIDATED" ELSE @]
            BY <2>3, <3>1 DEF Rollback
        <3> QED
            BY <3>2 DEF TypeOK, Row
    <2> QED
        BY <1>1, <2>1, <2>2, <2>3 DEF Outside
<1>5. pc' \in {"fetch", "save"} /\ db'[diskGen'].status # Absent =>
          db'[diskGen'].rev <= disk'.rev
    BY <1>2, <1>3, <1>4 DEF KeptInv
<1> QED
    BY <1>2, <1>3, <1>5, QuietKept

\* Every step keeps them.
LEMMA NextKept ==
    ASSUME Undamaged, TypeOK, CacheInv, KeptInv, [Next]_vars
    PROVE  KeptInv'
<1>1. CASE GateStartNew
    BY <1>1, QuietKept DEF GateStartNew
<1>2. ASSUME NEW mode \in Modes, GateResume(mode)
      PROVE  KeptInv'
    BY <1>2, GateKept
<1>3. CASE CreateGeneration
    <2>1. /\ pc = "create" /\ diskGen' = nextGen /\ nextGen \in Gen /\ pc' = "fetch"
          /\ UNCHANGED <<db, cache>>
        BY <1>3 DEF CreateGeneration, TypeOK
    <2>2. cache[nextGen] = <<>>
        <3>1. nextGen \in Nat /\ nextGen >= nextGen
            BY <2>1, MaxGenAssumption
        <3> QED
            BY <2>1, <3>1, Zenon DEF CacheInv
    <2>3. db[nextGen].status = Absent
        BY <2>1, <2>2 DEF KeptInv, Kept, InHand
    <2> QED
        BY <2>1, <2>3, QuietKept
<1>4. CASE UNCHANGED vars
    BY <1>4, QuietKept DEF vars, KeptInv
<1> QED
    BY <1>1, <1>2, <1>3, <1>4, RestoreKept, VerifyKept, FetchKept, SaveKept, LaterKept,
       OnDiskKept, OutsideKept
       DEF Next, RunStep

\* Between runs every live generation can be taken up again from its newest
\* checkpoint, whatever the runs met with, a person at the terminal included, as
\* long as no runner is lost, no save fails and nothing is evicted: the row is
\* written before the cache, but no run ends between the two (pipeline.yml saves
\* always(), gate.py verify_local_state refuses what is older than the row).
THEOREM LiveCanBeRestored ==
    ASSUME Undamaged
    PROVE  Spec => []LiveIsRestorable
<1> DEFINE IInv == TypeOK /\ CacheInv /\ KeptInv
<1>1. Init => IInv
    BY InitType, InitCache, InitKept
<1>2. IInv /\ [Next]_vars => IInv'
    BY NextType, NextCache, NextKept
<1>3. IInv => LiveIsRestorable
    <2> SUFFICES ASSUME TypeOK, KeptInv, pc = "idle", NEW g \in Gen, Unrestorable(g)
                 PROVE  FALSE
        BY DEF LiveIsRestorable
    <2>1. Kept(g)
        BY DEF KeptInv, InHand, Unrestorable
    <2>2. db[g].rev \in Nat /\ NewestRev(g) \in Nat
        <3>1. cache[g] \in Seq(Checkpoint) /\ Len(cache[g]) \in DOMAIN cache[g]
            BY <2>1, EmptySeq, LenProperties DEF Kept, TypeOK
        <3> QED
            BY <2>1, <3>1, SavedType DEF Kept, NewestRev, TypeOK, Row
    <2> QED
        BY <2>1, <2>2 DEF Kept, Unrestorable
<1> QED
    BY <1>1, <1>2, <1>3, PTL DEF Spec
=============================================================================
