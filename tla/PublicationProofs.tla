-------------------------- MODULE PublicationProofs --------------------------
(***************************************************************************)
(* Theorems about Publication, for every set of providers, every number of *)
(* refreshes and runs, and every choice of faults and commands.            *)
(***************************************************************************)
EXTENDS Publication, SequenceTheorems, WellFoundedInduction, TLAPS

USE DEF Refresh, Unnamed, LiveStatuses, Statuses, NoGeneration

-----------------------------------------------------------------------------
(* Sequences whose elements are replaced one by one *)

\* A sequence rewritten in place is a sequence of the same length.
LEMMA RewrittenSeq ==
    ASSUME NEW S, NEW T, NEW q \in Seq(S), NEW f \in [DOMAIN q -> T]
    PROVE  /\ f \in Seq(T)
           /\ Len(f) = Len(q)
           /\ DOMAIN f = 1 .. Len(q)
<1>1. Len(q) \in Nat /\ DOMAIN q = 1 .. Len(q)
    BY LenProperties
<1>2. f \in [1 .. Len(q) -> T]
    BY <1>1
<1>3. f \in Seq(T)
    BY <1>1, <1>2, SeqDef
<1> QED
    BY <1>1, <1>2, <1>3, LenProperties

\* The quality rows a promotion flips are still quality rows, in the same places.
LEMMA FlippedType ==
    ASSUME quality \in Seq(Checks), NEW s, NEW r
    PROVE  Flipped(s, r) \in Seq(Checks) /\ Len(Flipped(s, r)) = Len(quality)
<1>1. \A i \in DOMAIN quality : quality[i] \in Checks
    BY LenProperties, ElementOfSeq
<1>2. Flipped(s, r) \in [DOMAIN quality -> Checks]
    BY <1>1 DEF Flipped, Checks
<1> QED
    BY <1>2, RewrittenSeq

\* So are those a rollback takes back.
LEMMA RetractedType ==
    ASSUME quality \in Seq(Checks), NEW p
    PROVE  Retracted(p) \in Seq(Checks) /\ Len(Retracted(p)) = Len(quality)
<1>1. \A i \in DOMAIN quality : quality[i] \in Checks
    BY LenProperties, ElementOfSeq
<1>2. Retracted(p) \in [DOMAIN quality -> Checks]
    BY <1>1 DEF Retracted, Checks
<1> QED
    BY <1>2, RewrittenSeq

-----------------------------------------------------------------------------
(* Type correctness *)

\* Refreshes are numbered in the order they are made.
LEMMA MadeType ==
    ASSUME TypeOK
    PROVE  /\ Len(made) \in Nat /\ DOMAIN made = 1 .. Len(made)
           /\ DOMAIN made \subseteq Refresh
           /\ \A r \in DOMAIN made : made[r] \in Source
<1>1. made \in Seq(Source) /\ Len(made) <= MaxRefresh
    BY DEF TypeOK
<1>2. Len(made) \in Nat /\ DOMAIN made = 1 .. Len(made)
    BY <1>1, LenProperties
<1>3. \A r \in DOMAIN made : made[r] \in Source
    BY <1>1, <1>2, ElementOfSeq
<1> QED
    BY <1>1, <1>2, <1>3, MaxRefreshAssumption

\* The generation the database offers is one that awaits publication.
LEMMA OfferedGeneration ==
    ASSUME NEW s
    PROVE  PublishableGeneration(s) \in LiveOf(s) \cup {Unnamed}
<1> DEFINE newest == {r \in LiveOf(s) : \A q \in LiveOf(s) : q <= r}
<1>1. CASE newest = {}
    BY <1>1 DEF PublishableGeneration
<1>2. CASE newest # {}
    <2>1. (CHOOSE r \in newest : TRUE) \in newest
        BY <1>2
    <2>2. PublishableGeneration(s) = CHOOSE r \in newest : TRUE
        BY <1>2 DEF PublishableGeneration
    <2> QED
        BY <2>1, <2>2
<1> QED
    BY <1>1, <1>2

\* What a promotion settles on is a row of the ledger.
LEMMA ResolvedType ==
    ASSUME TypeOK, NEW a \in Args
    PROVE  Resolved(a) \in Publications
<1>1. PublishableGeneration(a.src) \in Refresh \cup {Unnamed}
    BY OfferedGeneration, MadeType DEF LiveOf
<1>2. Len(quality) \in Nat
    BY LenProperties DEF TypeOK
<1> QED
    BY <1>1, <1>2 DEF Resolved, Publications, Args

\* A promotion's transaction keeps the types of what it writes.
LEMMA CommitType ==
    ASSUME TypeOK, NEW a \in Args, Commit(a)
    PROVE  /\ serving' \in [Source -> Data] /\ staging' \in [Source -> Data]
           /\ ledger' \in Seq(Publications)
           /\ quality' \in Seq(Checks)
           /\ gen' \in [Refresh -> Statuses \cup {NoGeneration}]
<1>1. serving' \in [Source -> Data] /\ staging' \in [Source -> Data]
    BY DEF Commit, Swap, TypeOK
<1>2. ledger' \in Seq(Publications)
    BY ResolvedType, AppendProperties DEF Commit, TypeOK
<1>3. quality' \in Seq(Checks)
    BY FlippedType DEF Commit, TypeOK
<1>4. gen' \in [Refresh -> Statuses \cup {NoGeneration}]
    BY DEF Commit, TypeOK
<1> QED
    BY <1>1, <1>2, <1>3, <1>4

\* The variables hold what they should in the initial state.
LEMMA InitType == Init => TypeOK
<1> SUFFICES ASSUME Init PROVE TypeOK
    OBVIOUS
<1>1. serving \in [Source -> Data] /\ staging \in [Source -> Data]
    BY RowsAssumption DEF Init, Data
<1>2. run \in [pc : Steps, src : Source, ref : Refresh \cup {Unnamed}]
    BY SourceAssumption DEF Init, IdleRun, Steps
<1>3. made = <<>> /\ Len(made) <= MaxRefresh
    BY MaxRefreshAssumption DEF Init
<1> QED
    BY <1>1, <1>2, <1>3, EmptySeq DEF Init, TypeOK

\* The newest row of the ledger, and what is left without it.
LEMMA DroppedRow ==
    ASSUME ledger \in Seq(Publications), ledger # <<>>,
           NEW rest, rest = SubSeq(ledger, 1, Len(ledger) - 1)
    PROVE  /\ Len(ledger) \in Nat /\ Len(ledger) >= 1
           /\ ledger[Len(ledger)] \in Publications
           /\ rest \in Seq(Publications)
           /\ Len(rest) = Len(ledger) - 1
           /\ \A i \in DOMAIN rest : i \in DOMAIN ledger /\ i # Len(ledger) /\ rest[i] = ledger[i]
           /\ \A i \in DOMAIN ledger : i # Len(ledger) => i \in DOMAIN rest
<1>1. Len(ledger) \in Nat /\ DOMAIN ledger = 1 .. Len(ledger) /\ Len(ledger) >= 1
    BY LenProperties, EmptySeq
<1>2. \A i \in 1 .. Len(ledger) : ledger[i] \in Publications
    BY ElementOfSeq
<1>3. /\ rest \in Seq(Publications)
      /\ Len(rest) = Len(ledger) - 1
      /\ \A i \in 1 .. Len(ledger) - 1 : rest[i] = ledger[i]
    BY <1>1, <1>2, SubSeqProperties
<1>4. DOMAIN rest = 1 .. Len(ledger) - 1
    BY <1>3, LenProperties
<1> QED
    BY <1>1, <1>2, <1>3, <1>4

\* Every step keeps the types.
LEMMA TypeStep == TypeOK /\ [Next]_vars => TypeOK'
<1> SUFFICES ASSUME TypeOK, [Next]_vars PROVE TypeOK'
    OBVIOUS
<1> USE DEF TypeOK
<1>1. ASSUME NEW s \in Source, BeginGeneration(s) PROVE TypeOK'
    <2>1. CASE Make(s) /\ gen' = [gen EXCEPT ![Len(made')] = "COMPLETE"]
        <3>1. made' \in Seq(Source) /\ Len(made') = Len(made) + 1
            BY <2>1, AppendProperties DEF Make
        <3>2. Len(made') <= MaxRefresh /\ Len(made') \in Refresh
            BY <2>1, <3>1, MadeType, MaxRefreshAssumption DEF Make
        <3> QED
            BY <1>1, <2>1, <3>1, <3>2 DEF BeginGeneration, Make, Steps
    <2>2. CASE UNCHANGED <<made, gen>> /\ \E r \in LiveOf(s) : run' = [pc |-> "seed", src |-> s, ref |-> r]
        BY <1>1, <2>2, MadeType DEF BeginGeneration, LiveOf, Steps
    <2> QED
        BY <1>1, <2>1, <2>2 DEF BeginGeneration
<1>2. ASSUME NEW s \in Source, BeginDownload(s) PROVE TypeOK'
    <2>1. made' \in Seq(Source) /\ Len(made') = Len(made) + 1
        BY <1>2, AppendProperties DEF BeginDownload, Make
    <2>2. Len(made') <= MaxRefresh /\ Len(made') \in Refresh
        BY <1>2, <2>1, MadeType, MaxRefreshAssumption DEF BeginDownload, Make
    <2> QED
        BY <1>2, <2>1, <2>2 DEF BeginDownload, Make, Steps
<1>3. ASSUME NEW r \in Refresh, Rerun(r) PROVE TypeOK'
    BY <1>3, MadeType, BoundsAssumption DEF Rerun, Adverse, Steps
<1>4. ASSUME NEW r \in Refresh, Abandon(r) \/ AbandonOnDisk(r) PROVE TypeOK'
    BY <1>4, BoundsAssumption DEF Abandon, AbandonOnDisk, Command
<1> DEFINE Ended == run' \in [pc : Steps, src : Source, ref : Refresh \cup {Unnamed}]
<1>5. ASSUME EndRun PROVE Ended
    BY <1>5, SourceAssumption DEF EndRun, IdleRun, Steps
<1>6. ASSUME NEW step \in Steps, Goto(step) PROVE Ended
    BY <1>6 DEF Goto
<1>7. "load" \in Steps /\ "identity" \in Steps /\ "quality" \in Steps /\ "validate" \in Steps
      /\ "mark" \in Steps /\ "promote" \in Steps /\ "commit" \in Steps
    BY DEF Steps
<1>8. ASSUME NEW f, Adverse(f) PROVE faults' \in Nat
    BY <1>8 DEF Adverse
<1>9. Failed => Ended /\ faults' \in Nat
    BY <1>5, <1>8 DEF Failed
<1>10. ASSUME NEW c, Command(c) PROVE commands' \in Nat
    BY <1>10 DEF Command
<1>11. Persisted("CANDIDATE") \in Seq(Checks)
    <2>1. [src |-> run.src, ref |-> run.ref, context |-> "CANDIDATE"] \in Checks
        BY DEF Checks
    <2> QED
        BY <2>1, AppendProperties DEF Persisted
<1>12. CASE Seed
    <2>1. Ended /\ faults' \in Nat
        BY <1>12, <1>6, <1>7, <1>9 DEF Seed
    <2> QED
        BY <1>12, <2>1 DEF Seed, Seeded
<1>13. CASE Load
    <2>1. Ended /\ faults' \in Nat
        BY <1>13, <1>6, <1>7, <1>9 DEF Load
    <2>2. quality' \in Seq(Checks)
        BY <1>13, <1>11 DEF Load
    <2>3. staging' \in [Source -> Data]
        <3>1. ASSUME NEW n \in Rows,
                     staging' = [staging EXCEPT ![run.src] =
                         [ref |-> run.ref, rows |-> IF run.src \in MarketOnly THEN 0 ELSE n]]
              PROVE  staging' \in [Source -> Data]
            <4>1. n \in Nat /\ run.src \in Source /\ run.ref \in Refresh \cup {Unnamed}
                BY RowsAssumption
            <4>2. [ref |-> run.ref, rows |-> IF run.src \in MarketOnly THEN 0 ELSE n] \in Data
                BY <4>1 DEF Data
            <4> QED
                BY <3>1, <4>1, <4>2
        <3> QED
            BY <1>13, <3>1 DEF Load
    <2> QED
        BY <1>13, <2>1, <2>2, <2>3 DEF Load
<1>14. CASE Identity
    <2>1. Ended /\ faults' \in Nat
        BY <1>14, <1>6, <1>7, <1>9 DEF Identity
    <2> QED
        BY <1>14, <2>1 DEF Identity
<1>15. CASE Quality
    <2>1. Ended /\ faults' \in Nat
        BY <1>15, <1>6, <1>7, <1>9 DEF Quality
    <2> QED
        BY <1>15, <1>11, <2>1 DEF Quality
<1>16. CASE Validate
    <2>1. Ended /\ faults' \in Nat
        BY <1>16, <1>6, <1>7, <1>9 DEF Validate
    <2> QED
        BY <1>16, <2>1 DEF Validate
<1>17. CASE Mark
    <2>1. Ended /\ faults' \in Nat
        BY <1>17, <1>5, <1>6, <1>7, <1>9 DEF Mark
    <2>2. gen' \in [Refresh -> Statuses \cup {NoGeneration}]
        BY <1>17 DEF Mark
    <2> QED
        BY <1>17, <2>1, <2>2 DEF Mark
<1>18. CASE PromoteCheck
    <2>1. Ended
        BY <1>18, <1>5, <1>6, <1>7 DEF PromoteCheck
    <2> QED
        BY <1>18, <2>1 DEF PromoteCheck
<1>19. CASE PromoteCommit
    <2> DEFINE a == ArgsOf(run.src, run.ref)
    <2>1. a \in Args
        BY DEF ArgsOf, Args
    <2>2. Ended
        BY <1>19, <1>5 DEF PromoteCommit
    <2>3. CASE Commit(a) /\ UNCHANGED faults
        <3>1. /\ serving' \in [Source -> Data] /\ staging' \in [Source -> Data]
              /\ ledger' \in Seq(Publications) /\ quality' \in Seq(Checks)
              /\ gen' \in [Refresh -> Statuses \cup {NoGeneration}]
            BY <2>1, <2>3, CommitType
        <3> QED
            BY <1>19, <2>2, <2>3, <3>1 DEF PromoteCommit
    <2>4. CASE Aborted /\ faults' \in Nat
        BY <1>19, <2>2, <2>4 DEF PromoteCommit, Aborted
    <2> QED
        BY <1>19, <1>8, <2>3, <2>4 DEF PromoteCommit
<1>20. CASE Crash
    BY <1>20, <1>5, <1>8 DEF Crash
<1>21. ASSUME NEW s \in Source, NEW r \in Refresh \cup {Unnamed}, NEW force \in BOOLEAN,
              HandCheck(s, r, force)
       PROVE  TypeOK'
    <2>1. ArgsOf(s, r) \in Args
        BY DEF ArgsOf, Args
    <2>2. hand' \in Seq(Args)
        BY <1>21, <2>1 DEF HandCheck
    <2>3. commands' \in Nat
        BY <1>21, <1>10 DEF HandCheck
    <2> QED
        BY <1>21, <2>2, <2>3 DEF HandCheck
<1>22. CASE HandCommit
    <2>1. hand[1] \in Args
        BY <1>22, LenProperties, EmptySeq, ElementOfSeq DEF HandCommit
    <2>2. hand' \in Seq(Args)
        BY <1>22 DEF HandCommit
    <2>3. CASE Commit(hand[1])
        <3>1. /\ serving' \in [Source -> Data] /\ staging' \in [Source -> Data]
              /\ ledger' \in Seq(Publications) /\ quality' \in Seq(Checks)
              /\ gen' \in [Refresh -> Statuses \cup {NoGeneration}]
            BY <2>1, <2>3, CommitType
        <3> QED
            BY <1>22, <2>2, <3>1 DEF HandCommit
    <2>4. CASE Aborted
        BY <1>22, <2>2, <2>4 DEF HandCommit, Aborted
    <2> QED
        BY <1>22, <2>3, <2>4 DEF HandCommit
<1>23. CASE Rollback
    <2>1. commands' \in Nat
        BY <1>23, <1>10 DEF Rollback
    <2>2. ledger' \in Seq(Publications) /\ quality' \in Seq(Checks)
        BY <1>23, DroppedRow, RetractedType DEF Rollback
    <2>3. gen' \in [Refresh -> Statuses \cup {NoGeneration}]
        BY <1>23 DEF Rollback
    <2> QED
        BY <1>23, <2>1, <2>2, <2>3 DEF Rollback, Swap
<1>24. ASSUME NEW s \in Source, HandReport(s) PROVE TypeOK'
    <2>1. [src |-> s, ref |-> serving[s].ref, context |-> "NULL"] \in Checks
        BY DEF Checks, Data
    <2>2. quality' \in Seq(Checks)
        BY <1>24, <2>1, AppendProperties DEF HandReport
    <2>3. commands' \in Nat
        BY <1>24, <1>10 DEF HandReport
    <2> QED
        BY <1>24, <2>2, <2>3 DEF HandReport
<1>25. CASE UNCHANGED vars
    BY <1>25 DEF vars
<1> QED
    BY <1>1, <1>2, <1>3, <1>4, <1>12, <1>13, <1>14, <1>15, <1>16, <1>17, <1>18, <1>19, <1>20,
       <1>21, <1>22, <1>23, <1>24, <1>25 DEF Next

\* Every variable keeps its type.
THEOREM TypeCorrect == Spec => []TypeOK
<1>1. Init => TypeOK
    BY InitType
<1>2. TypeOK /\ [Next]_vars => TypeOK'
    BY TypeStep
<1> QED
    BY <1>1, <1>2, PTL DEF Spec

-----------------------------------------------------------------------------
(* The ledger, the quality rows and the generations agree *)

\* A generation has one ledger row at most.
GenerationOnce ==
    \A i, j \in DOMAIN ledger :
        ledger[i].gen = ledger[j].gen /\ ledger[i].gen # Unnamed => i = j

\* A number that no refresh has yet has no generation.
GenerationsAreMade == \A r \in Refresh : gen[r] # NoGeneration => r <= Len(made)

\* What a status says of the ledger, and what a ledger row says of the status.
StatusKnown ==
    \A r \in Refresh :
        /\ gen[r] = "PUBLISHED" => HasPublication(r)
        /\ HasPublication(r) => gen[r] \in {"PUBLISHED", "FAILED"}

\* A row that was not there is of a generation that has just been published.
NewRowIsPublished ==
    \A r \in Refresh : HasPublication(r)' /\ ~HasPublication(r) => gen'[r] = "PUBLISHED"

\* The inductive invariant.  StatusKnown alone is not inductive: a rollback frees
\* the generation of the row it deletes, which is right only if no other row
\* names it; and a generation that begins is COMPLETE, which is right only if its
\* number has no row.
Records ==
    /\ TypeOK
    /\ PublishedOnce
    /\ QualityFollowsLedger
    /\ StatusKnown
    /\ GenerationOnce
    /\ GenerationsAreMade

\* The rows of the ledger after a publication: the old ones and the new one.
LEMMA AppendedRow ==
    ASSUME ledger \in Seq(Publications), NEW p \in Publications, ledger' = Append(ledger, p)
    PROVE  /\ Len(ledger) \in Nat /\ Len(ledger') = Len(ledger) + 1
           /\ DOMAIN ledger = 1 .. Len(ledger)
           /\ DOMAIN ledger' = 1 .. (Len(ledger) + 1)
           /\ \A i \in DOMAIN ledger : ledger'[i] = ledger[i] /\ ledger[i] \in Publications
           /\ ledger'[Len(ledger) + 1] = p
           /\ \A i \in DOMAIN ledger' : i \in DOMAIN ledger \/ i = Len(ledger) + 1
<1>1. Len(ledger) \in Nat /\ DOMAIN ledger = 1 .. Len(ledger)
    BY LenProperties
<1>2. \A i \in DOMAIN ledger : ledger[i] \in Publications
    BY <1>1, ElementOfSeq
<1>3. /\ ledger' \in Seq(Publications)
      /\ Len(ledger') = Len(ledger) + 1
      /\ \A i \in 1 .. Len(ledger) : ledger'[i] = ledger[i]
      /\ ledger'[Len(ledger) + 1] = p
    BY AppendProperties
<1>4. DOMAIN ledger' = 1 .. (Len(ledger) + 1)
    BY <1>3, LenProperties
<1> QED
    BY <1>1, <1>2, <1>3, <1>4

\* A run of checks persisted with another context than PUBLISHED.
LEMMA PersistedRun ==
    ASSUME TypeOK, QualityFollowsLedger, UNCHANGED ledger,
           NEW q \in Checks, q.context # "PUBLISHED", quality' = Append(quality, q)
    PROVE  QualityFollowsLedger'
<1>1. /\ quality \in Seq(Checks) /\ Len(quality) \in Nat /\ DOMAIN quality = 1 .. Len(quality)
    BY LenProperties DEF TypeOK
<1>2. /\ quality' \in Seq(Checks)
      /\ Len(quality') = Len(quality) + 1
      /\ \A i \in 1 .. Len(quality) : quality'[i] = quality[i]
      /\ quality'[Len(quality) + 1] = q
    BY <1>1, AppendProperties
<1>3. DOMAIN quality' = 1 .. (Len(quality) + 1)
    BY <1>2, LenProperties
<1>4. ASSUME NEW i \in DOMAIN quality', quality'[i].context = "PUBLISHED"
      PROVE  i \in DOMAIN quality /\ quality'[i] = quality[i]
    BY <1>1, <1>2, <1>3, <1>4
<1> QED
    BY <1>4 DEF QualityFollowsLedger, InLedger

\* The transaction of a promotion keeps the four records in agreement.
LEMMA CommitRecords ==
    ASSUME Records, NEW a \in Args, MayCommit(a), Commit(a), UNCHANGED made
    PROVE  PublishedOnce' /\ QualityFollowsLedger' /\ StatusKnown'
           /\ GenerationOnce' /\ GenerationsAreMade' /\ NewRowIsPublished
<1> DEFINE p == Resolved(a)
<1>1. p \in Publications /\ p.src = a.src /\ p.gen \in Refresh \cup {Unnamed}
    BY ResolvedType DEF Records, Resolved, Publications
<1>2. ledger' = Append(ledger, p) /\ quality' = Flipped(p.src, p.ref)
    BY DEF Commit
<1>3. /\ Len(ledger) \in Nat
      /\ \A i \in DOMAIN ledger : i # Len(ledger) + 1 /\ ledger'[i] = ledger[i] /\ i \in DOMAIN ledger'
      /\ ledger'[Len(ledger) + 1] = p /\ Len(ledger) + 1 \in DOMAIN ledger'
      /\ \A i \in DOMAIN ledger' : i \in DOMAIN ledger \/ i = Len(ledger) + 1
    BY <1>1, <1>2, AppendedRow DEF Records, TypeOK
<1>4. PublishedOnce'
    <2>1. \A i \in DOMAIN ledger :
             ~(ledger[i].src = p.src /\ ledger[i].ref = p.ref /\ p.ref # Unnamed)
        BY <1>1 DEF MayCommit, InLedger
    <2> QED
        BY <1>3, <2>1 DEF Records, PublishedOnce
<1>5. QualityFollowsLedger'
    <2> SUFFICES ASSUME NEW i \in DOMAIN quality', quality'[i].context = "PUBLISHED"
                 PROVE  InLedger(quality[i].src, quality[i].ref)'
        BY DEF QualityFollowsLedger
    <2>1. i \in DOMAIN quality
        BY <1>2 DEF Flipped
    <2>2. quality[i] \in Checks
        BY <2>1, LenProperties, ElementOfSeq DEF Records, TypeOK
    <2>3. CASE p.ref # Unnamed /\ quality[i].src = p.src /\ quality[i].ref = p.ref
               /\ quality[i].context = "CANDIDATE"
        <3>1. quality'[i].src = p.src /\ quality'[i].ref = p.ref
            BY <1>2, <2>1, <2>2, <2>3 DEF Flipped, Checks
        <3> QED
            BY <1>3, <2>3, <3>1 DEF InLedger
    <2>4. CASE quality'[i] = quality[i]
        BY <1>3, <2>1, <2>4 DEF Records, QualityFollowsLedger, InLedger
    <2> QED
        BY <1>2, <2>1, <2>3, <2>4 DEF Flipped
<1>6. p.gen # Unnamed => p.gen \in Refresh /\ gen[p.gen] \in LiveStatuses
    <2>1. CASE a.gen # Unnamed
        BY <1>1, <2>1 DEF MayCommit, Resolved
    <2>2. CASE a.gen = Unnamed
        <3>1. p.gen = PublishableGeneration(a.src)
            BY <2>2 DEF Resolved
        <3> QED
            BY <1>1, <3>1, OfferedGeneration DEF LiveOf
    <2> QED
        BY <2>1, <2>2
<1>7. gen' = [r \in Refresh |-> IF r = p.gen THEN "PUBLISHED" ELSE gen[r]]
    <2>1. gen \in [Refresh -> Statuses \cup {NoGeneration}]
        BY DEF Records, TypeOK
    <2>2. CASE p.gen = Unnamed
        BY <2>1, <2>2, MaxRefreshAssumption DEF Commit
    <2>3. CASE p.gen # Unnamed
        BY <1>6, <2>1, <2>3 DEF Commit
    <2> QED
        BY <2>2, <2>3
<1>8. \A i \in DOMAIN ledger : ledger[i].gen # p.gen \/ p.gen = Unnamed
    BY <1>6 DEF Records, StatusKnown, HasPublication
<1>12. \A r \in Refresh : HasPublication(r)' <=> HasPublication(r) \/ r = p.gen
    BY <1>3 DEF HasPublication
<1>9. StatusKnown' /\ NewRowIsPublished
    BY <1>7, <1>12 DEF Records, StatusKnown, NewRowIsPublished
<1>10. GenerationOnce'
    BY <1>3, <1>8 DEF Records, GenerationOnce
<1>11. GenerationsAreMade'
    BY <1>6, <1>7 DEF Records, GenerationsAreMade
<1> QED
    BY <1>4, <1>5, <1>9, <1>10, <1>11

\* So does a rollback, whichever row it deletes.
LEMMA RollbackRecords ==
    ASSUME Records, Rollback
    PROVE  PublishedOnce' /\ QualityFollowsLedger' /\ StatusKnown'
           /\ GenerationOnce' /\ GenerationsAreMade' /\ NewRowIsPublished
<1>1. CASE ledger = <<>>
    <2>1. UNCHANGED <<ledger, quality, gen, made>>
        BY <1>1 DEF Rollback
    <2>2. \A r \in Refresh : HasPublication(r)' <=> HasPublication(r)
        BY <2>1 DEF HasPublication
    <2> QED
        BY <2>1, <2>2 DEF Records, PublishedOnce, QualityFollowsLedger, StatusKnown,
                GenerationOnce, GenerationsAreMade, InLedger, NewRowIsPublished
<1>2. CASE ledger # <<>>
    <2> DEFINE n == Len(ledger)
               p == ledger[n]
    <2>1. ledger \in Seq(Publications)
        BY DEF Records, TypeOK
    <2>2. /\ ledger' = SubSeq(ledger, 1, Len(ledger) - 1)
          /\ quality' = Retracted(p)
          /\ gen' = IF p.gen # Unnamed /\ gen[p.gen] = "PUBLISHED"
                    THEN [gen EXCEPT ![p.gen] = "VALIDATED"] ELSE gen
          /\ UNCHANGED made
        BY <1>2 DEF Rollback
    <2>3. /\ p \in Publications
          /\ n \in DOMAIN ledger
          /\ \A i \in DOMAIN ledger' : i \in DOMAIN ledger /\ i # n /\ ledger'[i] = ledger[i]
          /\ \A i \in DOMAIN ledger : i # n => i \in DOMAIN ledger'
        BY <1>2, <2>1, <2>2, DroppedRow, LenProperties
    <2>4. PublishedOnce' /\ GenerationOnce'
        BY <2>3 DEF Records, PublishedOnce, GenerationOnce
    <2>5. QualityFollowsLedger'
        <3> SUFFICES ASSUME NEW i \in DOMAIN quality', quality'[i].context = "PUBLISHED"
                     PROVE  InLedger(quality[i].src, quality[i].ref)'
            BY DEF QualityFollowsLedger
        <3>1. i \in DOMAIN quality
            BY <2>2 DEF Retracted
        <3>2. quality[i] \in Checks
            BY <3>1, LenProperties, ElementOfSeq DEF Records, TypeOK
        <3>3. /\ quality'[i] = quality[i]
              /\ ~(p.ref # Unnamed /\ quality[i].src = p.src /\ quality[i].ref = p.ref)
            BY <2>2, <3>1, <3>2 DEF Retracted, Checks
        <3>4. InLedger(quality[i].src, quality[i].ref)
            BY <3>1, <3>3 DEF Records, QualityFollowsLedger
        <3> QED
            BY <2>3, <3>3, <3>4 DEF InLedger
    <2>6. p.gen \in Refresh \cup {Unnamed}
        BY <2>3 DEF Publications
    <2>7. p.gen # Unnamed => gen[p.gen] \in {"PUBLISHED", "FAILED"}
        BY <2>3, <2>6 DEF Records, StatusKnown, HasPublication
    <2>8. \A r \in Refresh :
              gen'[r] = IF r = p.gen /\ gen[r] = "PUBLISHED" THEN "VALIDATED" ELSE gen[r]
        <3>1. gen \in [Refresh -> Statuses \cup {NoGeneration}]
            BY DEF Records, TypeOK
        <3>2. CASE p.gen = Unnamed
            BY <2>2, <3>1, <3>2, MaxRefreshAssumption
        <3>3. CASE p.gen # Unnamed
            BY <2>2, <2>6, <3>1, <3>3
        <3> QED
            BY <3>2, <3>3
    <2>9. StatusKnown' /\ NewRowIsPublished
        <3>1. \A r \in Refresh : HasPublication(r)' <=> HasPublication(r) /\ r # p.gen
            <4>1. \A i \in DOMAIN ledger' : ledger'[i].gen # p.gen \/ p.gen = Unnamed
                BY <2>3 DEF Records, GenerationOnce
            <4>2. \A r \in Refresh : r # Unnamed
                BY MaxRefreshAssumption
            <4> QED
                BY <2>3, <4>1, <4>2 DEF HasPublication
        <3>2. ASSUME NEW r \in Refresh
              PROVE  /\ gen[r] = "PUBLISHED" => HasPublication(r)
                     /\ HasPublication(r) => gen[r] \in {"PUBLISHED", "FAILED"}
            BY DEF Records, StatusKnown
        <3> QED
            BY <2>8, <3>1, <3>2 DEF StatusKnown, NewRowIsPublished
    <2>10. GenerationsAreMade'
        BY <2>2, <2>8 DEF Records, GenerationsAreMade
    <2> QED
        BY <2>4, <2>5, <2>9, <2>10
<1> QED
    BY <1>1, <1>2

\* Every step keeps the records in agreement.
LEMMA RecordsStep == Records /\ [Next]_vars => Records' /\ NewRowIsPublished
<1> SUFFICES ASSUME Records, [Next]_vars PROVE Records' /\ NewRowIsPublished
    OBVIOUS
<1>0. TypeOK /\ TypeOK'
    BY TypeStep DEF Records
<1> DEFINE Kept == UNCHANGED <<ledger, quality, made, gen>>
           Rest == /\ PublishedOnce' /\ QualityFollowsLedger' /\ StatusKnown'
                   /\ GenerationOnce' /\ GenerationsAreMade' /\ NewRowIsPublished
<1> SUFFICES Rest
    BY <1>0 DEF Records
<1>25. ledger' = ledger => \A r \in Refresh : HasPublication(r)' <=> HasPublication(r)
    BY DEF HasPublication
<1>3. ASSUME UNCHANGED <<ledger, quality>>, StatusKnown', GenerationsAreMade' PROVE Rest
    BY <1>3, <1>25 DEF Records, PublishedOnce, QualityFollowsLedger, GenerationOnce, InLedger,
                       NewRowIsPublished
<1>26. UNCHANGED <<ledger, made, gen>> => StatusKnown' /\ GenerationsAreMade'
    BY <1>25 DEF Records, StatusKnown, GenerationsAreMade
<1>1. Kept => Rest
    BY <1>3, <1>26
<1>2. ASSUME UNCHANGED <<ledger, made, gen>>, QualityFollowsLedger' PROVE Rest
    BY <1>2, <1>25, <1>26
       DEF Records, PublishedOnce, GenerationOnce, NewRowIsPublished
<1>4. ASSUME NEW s \in Source, Make(s)
      PROVE  /\ Len(made') = Len(made) + 1 /\ Len(made) \in Nat
             /\ Len(made') \in Refresh
             /\ gen[Len(made')] = NoGeneration
    <2>1. Len(made') = Len(made) + 1
        BY <1>0, <1>4, AppendProperties DEF Make, TypeOK
    <2>2. Len(made) \in Nat /\ Len(made') \in Refresh
        BY <1>0, <1>4, <2>1, MadeType, MaxRefreshAssumption DEF Make
    <2> QED
        BY <2>1, <2>2 DEF Records, GenerationsAreMade
<1>5. ASSUME NEW s \in Source, BeginGeneration(s) PROVE Rest
    <2>1. CASE UNCHANGED <<made, gen>>
        BY <1>1, <1>5, <2>1 DEF BeginGeneration
    <2>2. CASE Make(s) /\ gen' = [gen EXCEPT ![Len(made')] = "COMPLETE"]
        <3>1. GenerationsAreMade'
            BY <1>0, <1>4, <2>2 DEF Records, GenerationsAreMade, TypeOK
        <3>2. \A r \in Refresh :
                  gen'[r] # gen[r] => gen[r] = NoGeneration /\ gen'[r] = "COMPLETE"
            BY <1>0, <1>4, <2>2 DEF TypeOK
        <3>4. ledger' = ledger
            BY <1>5 DEF BeginGeneration
        <3>3. StatusKnown'
            BY <1>25, <3>2, <3>4 DEF Records, StatusKnown, NoGeneration
        <3> QED
            BY <1>3, <1>5, <3>1, <3>3 DEF BeginGeneration
    <2> QED
        BY <1>5, <2>1, <2>2 DEF BeginGeneration
<1>6. ASSUME NEW s \in Source, BeginDownload(s) PROVE Rest
    <2>1. GenerationsAreMade'
        BY <1>4, <1>6 DEF BeginDownload, Records, GenerationsAreMade
    <2>2. StatusKnown'
        BY <1>6, <1>25 DEF BeginDownload, Records, StatusKnown
    <2> QED
        BY <1>3, <1>6, <2>1, <2>2 DEF BeginDownload
<1>7. ASSUME NEW r \in Refresh, Rerun(r) PROVE Rest
    BY <1>1, <1>7 DEF Rerun
<1>8. ASSUME UNCHANGED <<ledger, quality, made>>, NEW r \in Refresh,
             gen[r] # NoGeneration, NEW st \in {"VALIDATED", "FAILED"},
             st = "VALIDATED" => gen[r] \in LiveStatuses,
             gen' = [gen EXCEPT ![r] = st]
      PROVE  Rest
    <2>1. \A q \in Refresh : gen'[q] = IF q = r THEN st ELSE gen[q]
        BY <1>0, <1>8 DEF TypeOK
    <2>2. GenerationsAreMade'
        BY <1>8, <2>1 DEF Records, GenerationsAreMade
    <2>4. StatusKnown'
        BY <1>8, <1>25, <2>1 DEF Records, StatusKnown, LiveStatuses
    <2> QED
        BY <1>3, <1>8, <2>2, <2>4
<1>9. ASSUME NEW r \in Refresh, Abandon(r) \/ AbandonOnDisk(r) PROVE Rest
    <2>1. gen[r] # NoGeneration
        BY <1>9 DEF Abandon, AbandonOnDisk, LiveStatuses, NoGeneration
    <2> QED
        BY <1>8, <1>9, <2>1 DEF Abandon, AbandonOnDisk
<1>10. CASE Seed
    BY <1>1, <1>10 DEF Seed
<1>11. ASSUME quality' = Persisted("CANDIDATE"), UNCHANGED <<ledger, made, gen>> PROVE Rest
    <2>1. [src |-> run.src, ref |-> run.ref, context |-> "CANDIDATE"] \in Checks
        BY <1>0 DEF TypeOK, Checks
    <2> QED
        BY <1>2, <1>11, <2>1, PersistedRun DEF Records, Persisted
<1>12. CASE Load
    BY <1>1, <1>11, <1>12 DEF Load
<1>13. CASE Identity
    BY <1>1, <1>13 DEF Identity
<1>14. CASE Quality
    BY <1>11, <1>14 DEF Quality
<1>15. CASE Validate
    BY <1>1, <1>15 DEF Validate
<1>16. CASE Mark
    <2>1. CASE gen' = gen
        BY <1>1, <1>16, <2>1 DEF Mark
    <2>2. CASE /\ gen[run.ref] \in LiveStatuses \cup {"PUBLISHED"}
               /\ gen' = [gen EXCEPT ![run.ref] = IF @ = "COMPLETE" THEN "VALIDATED" ELSE @]
        <3>1. CASE gen[run.ref] = "COMPLETE" /\ run.ref \in Refresh
            BY <1>8, <1>16, <2>2, <3>1 DEF Mark, LiveStatuses, NoGeneration
        <3>2. CASE gen[run.ref] # "COMPLETE" \/ run.ref \notin Refresh
            BY <1>0, <1>1, <1>16, <2>2, <3>2 DEF Mark, TypeOK
        <3> QED
            BY <3>1, <3>2
    <2> QED
        BY <1>16, <2>1, <2>2 DEF Mark
<1>17. CASE PromoteCheck
    BY <1>1, <1>17 DEF PromoteCheck
<1>18. CASE PromoteCommit
    <2> DEFINE a == ArgsOf(run.src, run.ref)
    <2>1. a \in Args
        BY <1>0 DEF ArgsOf, Args, TypeOK
    <2>2. CASE MayCommit(a) /\ Commit(a)
        BY <1>18, <2>1, <2>2, CommitRecords DEF PromoteCommit
    <2>3. CASE Aborted
        BY <1>1, <1>18, <2>3 DEF PromoteCommit, Aborted
    <2> QED
        BY <1>18, <2>2, <2>3 DEF PromoteCommit
<1>19. CASE Crash
    BY <1>1, <1>19 DEF Crash
<1>20. ASSUME NEW s \in Source, NEW r \in Refresh \cup {Unnamed}, NEW force \in BOOLEAN,
              HandCheck(s, r, force)
       PROVE  Rest
    BY <1>1, <1>20 DEF HandCheck
<1>21. CASE HandCommit
    <2>1. hand[1] \in Args
        BY <1>0, <1>21, LenProperties, EmptySeq, ElementOfSeq DEF HandCommit, TypeOK
    <2>2. CASE MayCommit(hand[1]) /\ Commit(hand[1])
        BY <1>21, <2>1, <2>2, CommitRecords DEF HandCommit
    <2>3. CASE Aborted
        BY <1>1, <1>21, <2>3 DEF HandCommit, Aborted
    <2> QED
        BY <1>21, <2>2, <2>3 DEF HandCommit
<1>22. CASE Rollback
    BY <1>22, RollbackRecords
<1>23. ASSUME NEW s \in Source, HandReport(s) PROVE Rest
    <2>1. [src |-> s, ref |-> serving[s].ref, context |-> "NULL"] \in Checks
        BY <1>0 DEF TypeOK, Checks, Data
    <2>2. QualityFollowsLedger'
        BY <1>0, <1>23, <2>1, PersistedRun DEF HandReport, Records
    <2> QED
        BY <1>2, <1>23, <2>2 DEF HandReport
<1>24. CASE UNCHANGED vars
    BY <1>1, <1>24 DEF vars
<1> QED
    BY <1>5, <1>6, <1>7, <1>9, <1>10, <1>12, <1>13, <1>14, <1>15, <1>16, <1>17, <1>18, <1>19,
       <1>20, <1>21, <1>22, <1>23, <1>24 DEF Next

\* The records agree at first: there are none.
LEMMA RecordsInit == Init => Records
    BY InitType DEF Init, Records, PublishedOnce, QualityFollowsLedger, StatusKnown,
                    HasPublication, NoGeneration, GenerationOnce, GenerationsAreMade

\* The records agree in every state of every behaviour, whatever a person does.
THEOREM RecordsAgree == Spec => []Records
    BY RecordsInit, RecordsStep, PTL DEF Spec

\* A named refresh is published once: promotions of the workflow and of a person,
\* rollbacks and re-runs in any order cannot give it two ledger rows (promote.py).
THEOREM RefreshPublishedOnce == Spec => []PublishedOnce
<1>1. Records => PublishedOnce
    BY DEF Records
<1> QED
    BY <1>1, RecordsAgree, PTL

\* A quality row says PUBLISHED only while the ledger holds its refresh.
THEOREM QualityAgreesWithLedger == Spec => []QualityFollowsLedger
<1>1. Records => QualityFollowsLedger
    BY DEF Records
<1> QED
    BY <1>1, RecordsAgree, PTL

\* Whatever a person does, commands of both kinds of abandon included: a
\* generation is PUBLISHED only with a ledger row behind it, no row is written for
\* one that is not published with it, and one that keeps its row without the
\* status was abandoned beside its directory (promote.py, generations.py).
THEOREM StatusAgreesWithLedger == Spec => StatusFollowsLedger
<1>1. Records /\ [Next]_vars =>
          [ \A r \in Refresh :
                /\ gen'[r] = "PUBLISHED" => HasPublication(r)'
                /\ HasPublication(r)' /\ gen'[r] # "PUBLISHED"
                       => HasPublication(r) /\ gen'[r] = "FAILED" ]_vars
    <2> SUFFICES ASSUME Records, [Next]_vars, NEW r \in Refresh
                 PROVE  /\ gen'[r] = "PUBLISHED" => HasPublication(r)'
                        /\ HasPublication(r)' /\ gen'[r] # "PUBLISHED"
                               => HasPublication(r) /\ gen'[r] = "FAILED"
        OBVIOUS
    <2>1. Records' /\ NewRowIsPublished
        BY RecordsStep
    <2>2. /\ gen'[r] = "PUBLISHED" => HasPublication(r)'
          /\ HasPublication(r)' => gen'[r] \in {"PUBLISHED", "FAILED"}
        BY <2>1 DEF Records, StatusKnown
    <2>3. HasPublication(r)' /\ ~HasPublication(r) => gen'[r] = "PUBLISHED"
        BY <2>1 DEF NewRowIsPublished
    <2> QED
        BY <2>2, <2>3
<1> QED
    BY <1>1, RecordsAgree, PTL DEF Spec, StatusFollowsLedger

-----------------------------------------------------------------------------
(* What is served, while only the workflow promotes                          *)

\* The steps at which staging holds the candidate of the run.
Loaded == {"identity", "quality", "validate", "mark", "promote", "commit"}

\* From the seed to the swap staging is what is served, but for the refresh that
\* the run loaded into it.
StagingIsCandidate ==
    /\ hand = <<>>
    /\ run.pc # "idle" => run.ref # Unnamed
    /\ run.pc = "load" => \A s \in Source : staging[s].ref = serving[s].ref
    /\ run.pc \in Loaded =>
          /\ staging[run.src].ref = run.ref
          /\ \A s \in Source \ {run.src} : staging[s].ref = serving[s].ref

\* The inductive invariant.  LedgerDescribesServing alone is not inductive: the
\* swap serves whatever staging holds, so what staging holds must be known.
Aligned == TypeOK /\ StagingIsCandidate /\ LedgerDescribesServing

\* Nothing but the workflow swaps the schemas.
NoSwapByHand == "rollback" \notin Operator /\ "promote" \notin Operator

\* What is served is described as before when neither it nor the ledger changes.
LEMMA SameDescription ==
    ASSUME LedgerDescribesServing, UNCHANGED <<serving, ledger>>
    PROVE  LedgerDescribesServing'
    BY DEF LedgerDescribesServing, PublicationsOf

\* The transaction of the workflow's promotion: readers get the refresh it loaded
\* of one provider, and of every other what they had, and the ledger says so.
LEMMA CommitServes ==
    ASSUME Aligned, run.pc = "commit", Commit(ArgsOf(run.src, run.ref))
    PROVE  /\ LedgerDescribesServing'
           /\ run.ref # Unnamed
           /\ serving'[run.src].ref = run.ref
           /\ \A s \in Source \ {run.src} : serving'[s].ref = serving[s].ref
<1> DEFINE a == ArgsOf(run.src, run.ref)
           p == Resolved(a)
<1>1. a \in Args
    BY DEF Aligned, TypeOK, ArgsOf, Args
<1>2. run.ref # Unnamed /\ run.src \in Source
    BY DEF Aligned, TypeOK, StagingIsCandidate
<1>3. p \in Publications /\ p.src = run.src /\ p.ref = run.ref
    BY <1>1, <1>2, ResolvedType DEF Aligned, Resolved, ArgsOf
<1>4. /\ serving'[run.src].ref = run.ref
      /\ \A s \in Source \ {run.src} : serving'[s].ref = serving[s].ref
    BY DEF Aligned, StagingIsCandidate, Loaded, Commit, Swap
<1>5. /\ Len(ledger) \in Nat
      /\ DOMAIN ledger = 1 .. Len(ledger)
      /\ \A i \in DOMAIN ledger : i < Len(ledger) + 1 /\ ledger'[i] = ledger[i] /\ i \in DOMAIN ledger'
      /\ ledger'[Len(ledger) + 1] = p /\ Len(ledger) + 1 \in DOMAIN ledger'
      /\ \A i \in DOMAIN ledger' : i \in DOMAIN ledger \/ i = Len(ledger) + 1
    BY <1>3, AppendedRow DEF Aligned, TypeOK, Commit
<1>6. LedgerDescribesServing'
    <2> SUFFICES ASSUME NEW s \in Source
                 PROVE  /\ PublicationsOf(s)' = {} => serving'[s].ref = Unnamed
                        /\ \A i \in PublicationsOf(s)' :
                              (\A j \in PublicationsOf(s)' : j <= i) /\ ledger'[i].ref # Unnamed
                                  => serving'[s].ref = ledger'[i].ref
        BY DEF LedgerDescribesServing
    <2>1. CASE s = run.src
        <3>1. Len(ledger) + 1 \in PublicationsOf(s)'
            BY <1>3, <1>5, <2>1 DEF PublicationsOf
        <3>2. ASSUME NEW i \in PublicationsOf(s)', \A j \in PublicationsOf(s)' : j <= i
              PROVE  i = Len(ledger) + 1
            <4>1. i \in DOMAIN ledger \/ i = Len(ledger) + 1
                BY <1>5 DEF PublicationsOf
            <4>2. Len(ledger) + 1 <= i
                BY <3>1, <3>2
            <4> QED
                BY <1>5, <4>1, <4>2
        <3> QED
            BY <1>3, <1>4, <1>5, <2>1, <3>1, <3>2
    <2>2. CASE s # run.src
        <3>1. PublicationsOf(s)' = PublicationsOf(s)
            BY <1>3, <1>5, <2>2 DEF PublicationsOf
        <3>2. \A i \in PublicationsOf(s) : ledger'[i] = ledger[i]
            BY <1>5 DEF PublicationsOf
        <3>3. serving'[s].ref = serving[s].ref
            BY <1>4, <2>2
        <3> QED
            BY <3>1, <3>2, <3>3 DEF Aligned, LedgerDescribesServing
    <2> QED
        BY <2>1, <2>2
<1> QED
    BY <1>2, <1>4, <1>6

\* Every step keeps staging and what is served aligned with the ledger.
LEMMA AlignedStep ==
    ASSUME NoSwapByHand, Aligned, [Next]_vars
    PROVE  Aligned'
<1>0. TypeOK'
    BY TypeStep DEF Aligned
<1> SUFFICES StagingIsCandidate' /\ LedgerDescribesServing'
    BY <1>0 DEF Aligned
<1> USE DEF StagingIsCandidate
<1>1. ASSUME EndRun, hand' = hand PROVE StagingIsCandidate'
    BY <1>1 DEF EndRun, IdleRun, Loaded, Aligned
<1>2. ASSUME NEW step \in Loaded, Goto(step), UNCHANGED <<serving, staging, hand>>,
             run.pc \in Loaded
      PROVE  StagingIsCandidate'
    BY <1>2 DEF Goto, Loaded, Aligned, TypeOK
<1>3. ASSUME NEW s \in Source, NEW r \in Refresh, hand' = hand,
             run' = [pc |-> "seed", src |-> s, ref |-> r]
      PROVE  StagingIsCandidate'
    BY <1>3, MaxRefreshAssumption DEF Loaded, Aligned
<1>4. ASSUME NEW s \in Source, Make(s), hand' = hand PROVE StagingIsCandidate'
    <2>1. Len(made') = Len(made) + 1
        BY <1>4, AppendProperties DEF Make, Aligned, TypeOK
    <2>2. Len(made') \in Refresh
        BY <1>4, <2>1, MadeType, MaxRefreshAssumption DEF Make, Aligned
    <2> QED
        BY <1>3, <1>4, <2>2 DEF Make
<1>5. UNCHANGED <<serving, ledger>> => LedgerDescribesServing'
    BY SameDescription DEF Aligned
<1>6. ASSUME NEW s \in Source, BeginGeneration(s)
      PROVE  StagingIsCandidate' /\ LedgerDescribesServing'
    BY <1>3, <1>4, <1>5, <1>6, MadeType DEF BeginGeneration, LiveOf, Aligned
<1>7. ASSUME NEW s \in Source, BeginDownload(s)
      PROVE  StagingIsCandidate' /\ LedgerDescribesServing'
    BY <1>4, <1>5, <1>7 DEF BeginDownload
<1>8. ASSUME NEW r \in Refresh, Rerun(r)
      PROVE  StagingIsCandidate' /\ LedgerDescribesServing'
    BY <1>3, <1>5, <1>8, MadeType DEF Rerun, Aligned
<1>9. ASSUME NEW r \in Refresh, Abandon(r) \/ AbandonOnDisk(r)
      PROVE  StagingIsCandidate' /\ LedgerDescribesServing'
    BY <1>5, <1>9 DEF Abandon, AbandonOnDisk, Aligned
<1>10. CASE Seed
    <2>1. CASE staging' = Seeded /\ Goto("load")
        BY <1>5, <1>10, <2>1 DEF Seed, Seeded, Goto, Loaded, Aligned, TypeOK
    <2>2. CASE Failed
        BY <1>1, <1>5, <1>10, <2>2 DEF Seed, Failed
    <2> QED
        BY <1>10, <2>1, <2>2 DEF Seed
<1>11. CASE Load
    <2>1. ASSUME NEW n \in Rows,
                 staging' = [staging EXCEPT ![run.src] =
                     [ref |-> run.ref, rows |-> IF run.src \in MarketOnly THEN 0 ELSE n]],
                 Goto("identity")
          PROVE  StagingIsCandidate'
        <3>1. run'.pc = "identity" /\ run'.src = run.src /\ run'.ref = run.ref
            BY <2>1 DEF Goto, Aligned, TypeOK
        <3>2. staging'[run.src].ref = run.ref
              /\ \A s \in Source \ {run.src} : staging'[s] = staging[s]
            BY <2>1 DEF Aligned, TypeOK
        <3> QED
            BY <1>11, <3>1, <3>2 DEF Load, Loaded, Aligned
    <2>2. ASSUME Failed PROVE StagingIsCandidate'
        BY <1>1, <1>11, <2>2 DEF Load, Failed
    <2>3. LedgerDescribesServing'
        BY <1>5, <1>11 DEF Load
    <2> HIDE DEF StagingIsCandidate
    <2>4. StagingIsCandidate'
        BY <1>11, <2>1, <2>2 DEF Load
    <2> QED
        BY <2>3, <2>4
<1>12. CASE Identity
    BY <1>1, <1>2, <1>5, <1>12 DEF Identity, Failed, Loaded
<1>13. CASE Quality
    BY <1>1, <1>2, <1>5, <1>13 DEF Quality, Failed, Loaded
<1>14. CASE Validate
    BY <1>1, <1>2, <1>5, <1>14 DEF Validate, Failed, Loaded
<1>15. CASE Mark
    BY <1>1, <1>2, <1>5, <1>15 DEF Mark, Failed, Loaded
<1>16. CASE PromoteCheck
    BY <1>1, <1>2, <1>5, <1>16 DEF PromoteCheck, Loaded
<1>17. CASE PromoteCommit
    <2>1. StagingIsCandidate'
        BY <1>1, <1>17 DEF PromoteCommit
    <2>2. CASE Commit(ArgsOf(run.src, run.ref))
        BY <1>17, <2>1, <2>2, CommitServes DEF PromoteCommit
    <2>3. CASE Aborted
        BY <1>5, <2>1, <2>3 DEF Aborted
    <2> QED
        BY <1>17, <2>2, <2>3 DEF PromoteCommit
<1>18. CASE Crash
    BY <1>1, <1>5, <1>18 DEF Crash
<1>19. ASSUME NEW s \in Source, NEW r \in Refresh \cup {Unnamed}, NEW force \in BOOLEAN,
              HandCheck(s, r, force)
       PROVE  FALSE
    BY <1>19 DEF HandCheck, Command, NoSwapByHand
<1>20. ~HandCommit
    BY DEF HandCommit, Aligned
<1>21. ~Rollback
    BY DEF Rollback, Command, NoSwapByHand
<1>22. ASSUME NEW s \in Source, HandReport(s)
       PROVE  StagingIsCandidate' /\ LedgerDescribesServing'
    BY <1>5, <1>22 DEF HandReport, Aligned
<1>23. CASE UNCHANGED vars
    BY <1>5, <1>23 DEF vars, Aligned
<1> QED
    BY <1>6, <1>7, <1>8, <1>9, <1>10, <1>11, <1>12, <1>13, <1>14, <1>15, <1>16, <1>17, <1>18,
       <1>19, <1>20, <1>21, <1>22, <1>23 DEF Next

\* At first staging and what is served are the same.
LEMMA AlignedInit == Init => Aligned
<1> SUFFICES ASSUME Init PROVE Aligned
    OBVIOUS
<1>1. ledger = <<>> /\ hand = <<>> /\ run.pc = "idle"
    BY DEF Init, IdleRun
<1>2. \A s \in Source : serving[s].ref = Unnamed /\ PublicationsOf(s) = {}
    BY <1>1 DEF Init, PublicationsOf
<1> QED
    BY <1>1, <1>2, InitType DEF Aligned, StagingIsCandidate, LedgerDescribesServing, Loaded

\* While only the workflow promotes, staging and what is served stay aligned.
THEOREM AlignedAlways ==
    ASSUME NoSwapByHand
    PROVE  Spec => []Aligned
<1>1. Aligned /\ [Next]_vars => Aligned'
    BY AlignedStep
<1> QED
    BY <1>1, AlignedInit, PTL DEF Spec

\* While only the workflow promotes, readers are served, of each provider, what
\* its newest ledger row names, whatever fails and wherever a run is killed.
THEOREM ServedIsRecorded ==
    ASSUME NoSwapByHand
    PROVE  Spec => []LedgerDescribesServing
<1>1. Aligned => LedgerDescribesServing
    BY DEF Aligned
<1> QED
    BY <1>1, AlignedAlways, PTL

-----------------------------------------------------------------------------
(* The refinement: each step publishes one refresh, or readers see no change  *)

\* A step that leaves what is served and the ledger alone is a stutter.
LEMMA UnseenStep ==
    UNCHANGED <<serving, ledger>> =>
        /\ [s \in Source |-> serving[s].ref]' = [s \in Source |-> serving[s].ref]
        /\ [i \in DOMAIN ledger |-> [src |-> ledger[i].src, ref |-> ledger[i].ref]]'
             = [i \in DOMAIN ledger |-> [src |-> ledger[i].src, ref |-> ledger[i].ref]]
    OBVIOUS

\* The transaction of the workflow's promotion publishes the run's refresh.
LEMMA CommitPublishes ==
    ASSUME Aligned, run.pc = "commit",
           MayCommit(ArgsOf(run.src, run.ref)), Commit(ArgsOf(run.src, run.ref))
    PROVE  Published!Publish(run.src, run.ref)
<1> DEFINE a == ArgsOf(run.src, run.ref)
           p == Resolved(a)
           served == [s \in Source |-> serving[s].ref]
           rows == [i \in DOMAIN ledger |-> [src |-> ledger[i].src, ref |-> ledger[i].ref]]
           row == [src |-> run.src, ref |-> run.ref]
           Named == [src : Source, ref : Refresh \cup {Unnamed}]
<1>1. a \in Args /\ run.src \in Source /\ run.ref \in Refresh \cup {Unnamed}
    BY DEF Aligned, TypeOK, ArgsOf, Args
<1>2. /\ run.ref # Unnamed
      /\ serving'[run.src].ref = run.ref
      /\ \A s \in Source \ {run.src} : serving'[s].ref = serving[s].ref
    BY CommitServes
<1>3. p \in Publications /\ p.src = run.src /\ p.ref = run.ref
    BY <1>1, <1>2, ResolvedType DEF Aligned, Resolved, ArgsOf
<1>4. served' = [served EXCEPT ![run.src] = run.ref]
    BY <1>1, <1>2
<1>5. ledger' = Append(ledger, p) /\ ledger \in Seq(Publications)
    BY DEF Commit, Aligned, TypeOK
<1>6. /\ Len(ledger) \in Nat
      /\ DOMAIN ledger = 1 .. Len(ledger)
      /\ DOMAIN ledger' = 1 .. (Len(ledger) + 1)
      /\ \A i \in DOMAIN ledger : ledger'[i] = ledger[i] /\ ledger[i] \in Publications
      /\ ledger'[Len(ledger) + 1] = p
    BY <1>3, <1>5, AppendedRow
<1>7. rows \in Seq(Named) /\ Len(rows) = Len(ledger) /\ row \in Named
    <2>1. rows \in [DOMAIN ledger -> Named]
        BY <1>6 DEF Publications
    <2>2. row \in Named
        BY <1>1
    <2> HIDE DEF rows, row, Named
    <2> QED
        BY <1>5, <2>1, <2>2, RewrittenSeq
<1>8. rows' = Append(rows, row)
    <2>1. /\ Append(rows, row) \in Seq(Named)
          /\ Len(Append(rows, row)) = Len(ledger) + 1
          /\ \A i \in 1 .. Len(ledger) : Append(rows, row)[i] = rows[i]
          /\ Append(rows, row)[Len(ledger) + 1] = row
        BY <1>7, AppendProperties
    <2>2. /\ DOMAIN rows' = 1 .. (Len(ledger) + 1)
          /\ \A i \in 1 .. Len(ledger) : rows'[i] = rows[i]
          /\ rows'[Len(ledger) + 1] = row
        BY <1>3, <1>6
    <2>3. rows' \in Seq(Named) /\ Len(rows') = Len(ledger) + 1
        <3>1. ledger' \in Seq(Publications)
            BY <1>3, <1>5, AppendProperties
        <3>2. \A i \in DOMAIN ledger' : ledger'[i] \in Publications
            BY <3>1, LenProperties, ElementOfSeq
        <3>3. rows' \in [DOMAIN ledger' -> Named]
            BY <3>2 DEF Publications
        <3>4. Len(ledger') = Len(ledger) + 1
            BY <1>3, <1>5, AppendProperties
        <3> QED
            BY <3>1, <3>3, <3>4, RewrittenSeq
    <2> HIDE DEF rows, row, Named
    <2>4. \A i \in 1 .. Len(rows') : rows'[i] = Append(rows, row)[i]
        BY <1>6, <2>1, <2>2, <2>3
    <2> QED
        BY <2>1, <2>3, <2>4, SeqEqual
<1>9. \A i \in DOMAIN rows : rows[i] # row
    <2>1. \A i \in DOMAIN ledger : ~(ledger[i].src = run.src /\ ledger[i].ref = run.ref)
        <3>1. ~InLedger(run.src, run.ref)
            <4>1. ~InLedger(a.src, p.ref)
                BY DEF MayCommit
            <4>2. a.src = run.src
                BY DEF ArgsOf
            <4> QED
                BY <1>3, <4>1, <4>2
        <3> QED
            BY <1>2, <3>1 DEF InLedger
    <2> QED
        BY <2>1
<1> QED
    BY <1>4, <1>8, <1>9 DEF Published!Publish

\* Readers see one provider change at a time, each refresh once, and every other
\* provider kept as it was, while only the workflow promotes.
THEOREM PublicationImplements ==
    ASSUME NoSwapByHand
    PROVE  Spec => ImplementsPublishedDataset
<1> DEFINE served == [s \in Source |-> serving[s].ref]
           rows == [i \in DOMAIN ledger |-> [src |-> ledger[i].src, ref |-> ledger[i].ref]]
<1>1. Init => Published!Init
    BY DEF Init, Published!Init
<1>2. ASSUME Aligned, [Next]_vars PROVE [Published!Next]_<<served, rows>>
    <2>1. CASE UNCHANGED <<serving, ledger>>
        BY <2>1, UnseenStep
    <2>2. CASE PromoteCommit
        <3>1. CASE Aborted
            BY <2>1, <3>1 DEF Aborted
        <3>2. CASE run.pc = "commit" /\ MayCommit(ArgsOf(run.src, run.ref))
                   /\ Commit(ArgsOf(run.src, run.ref))
            <4>1. Published!Publish(run.src, run.ref)
                BY <1>2, <3>2, CommitPublishes
            <4>2. run.src \in Source /\ run.ref \in (Refresh \cup {Unnamed}) \ {0}
                BY <1>2, <3>2 DEF Aligned, TypeOK, StagingIsCandidate
            <4> HIDE DEF served, rows
            <4>3. Published!Next
                BY <4>1, <4>2, Zenon DEF Published!Next, Published!Publish
            <4> QED
                BY <4>3
        <3> QED
            BY <2>2, <3>1, <3>2 DEF PromoteCommit
    <2>3. ~HandCommit /\ ~Rollback
        BY <1>2 DEF HandCommit, Aligned, StagingIsCandidate, Rollback, Command, NoSwapByHand
    <2>4. ASSUME NEW s \in Source, BeginGeneration(s) \/ BeginDownload(s) \/ HandReport(s)
          PROVE  UNCHANGED <<serving, ledger>>
        BY <2>4 DEF BeginGeneration, BeginDownload, HandReport
    <2>5. ASSUME NEW r \in Refresh, Rerun(r) \/ Abandon(r) \/ AbandonOnDisk(r)
          PROVE  UNCHANGED <<serving, ledger>>
        BY <2>5 DEF Rerun, Abandon, AbandonOnDisk
    <2>6. CASE Seed \/ Load \/ Identity \/ Quality \/ Validate \/ Mark \/ PromoteCheck \/ Crash
        <3>1. UNCHANGED <<serving, ledger>>
            BY <2>6 DEF Seed, Load, Identity, Quality, Validate, Mark, PromoteCheck, Crash
        <3> QED
            BY <2>1, <3>1
    <2>7. ASSUME NEW s \in Source, NEW r \in Refresh \cup {Unnamed}, NEW force \in BOOLEAN,
                 HandCheck(s, r, force)
          PROVE  UNCHANGED <<serving, ledger>>
        BY <2>7 DEF HandCheck
    <2>8. CASE UNCHANGED vars
        BY <2>1, <2>8 DEF vars
    <2> HIDE DEF served, rows
    <2> QED
        BY <1>2, <2>1, <2>2, <2>3, <2>4, <2>5, <2>6, <2>7, <2>8 DEF Next
<1>3. Spec => []Aligned
    BY AlignedAlways
<1> QED
    BY <1>1, <1>2, <1>3, PTL DEF Spec, ImplementsPublishedDataset, Published!Spec

-----------------------------------------------------------------------------
(* What the data quality page shows                                          *)

\* Nothing happens to production but what the workflow does, once for each refresh;
\* a person may still abandon a generation.
Unattended == NoSwapByHand /\ "report" \notin Operator /\ "rerun" \notin Faults

\* A refresh is the newest of its provider.
NewestMade(r) == r \in DOMAIN made /\ \A q \in DOMAIN made : made[q] = made[r] => q <= r

\* Quality rows and ledger rows are of refreshes of their provider, and none is
\* newer in the ledger than what is served.
RowsNamed ==
    /\ \A i \in DOMAIN quality :
          /\ quality[i].context # "NULL"
          /\ quality[i].ref \in DOMAIN made /\ made[quality[i].ref] = quality[i].src
    /\ \A k \in DOMAIN ledger :
          /\ ledger[k].ref \in DOMAIN made /\ made[ledger[k].ref] = ledger[k].src
          /\ ledger[k].src \in Generational => ledger[k].gen = ledger[k].ref
          /\ ledger[k].ref <= serving[ledger[k].src].ref

\* A generation that awaits publication is the newest refresh of its provider.
LiveAreNewest ==
    \A r \in Refresh : gen[r] \in LiveStatuses => NewestMade(r) /\ made[r] \in Generational

\* The checks of a provider are of refreshes in the order they were made, and
\* those persisted after a publication are of newer refreshes than it published.
RowsInOrder ==
    /\ \A i, j \in DOMAIN quality :
          quality[i].src = quality[j].src /\ i < j => quality[i].ref <= quality[j].ref
    /\ \A i \in DOMAIN quality, k \in DOMAIN ledger :
          quality[i].src = ledger[k].src /\ i > ledger[k].at => quality[i].ref > ledger[k].ref

\* The run is about the newest refresh of its provider, not in the ledger yet, and
\* has persisted checks of it once it is loaded.
RunIsNewest ==
    /\ run.pc # "idle" =>
          /\ NewestMade(run.ref) /\ made[run.ref] = run.src
          /\ \A k \in DOMAIN ledger : ledger[k].src = run.src => ledger[k].ref < run.ref
    /\ run.pc \in Loaded =>
          \E i \in DOMAIN quality : quality[i].src = run.src /\ quality[i].ref = run.ref

\* If any checks describe a provider, some are of what is served.
ServedIsChecked ==
    \A s \in Source :
        Describing(s) # {} => \E i \in Describing(s) : quality[i].ref = serving[s].ref

\* The inductive invariant.  What the page shows is chosen by position, the newest
\* row of some kind, and is right only because the positions of the quality rows
\* and of the ledger rows follow the order of the refreshes.
PageInv ==
    /\ Records /\ Aligned
    /\ RowsNamed /\ LiveAreNewest /\ RowsInOrder /\ RunIsNewest /\ ServedIsChecked

\* A run that goes on with its refresh, or ends.
LEMMA RunGoesOn ==
    ASSUME RunIsNewest, UNCHANGED <<made, ledger, quality>>,
           \/ run'.pc = "idle"
           \/ /\ run.pc # "idle" /\ run'.src = run.src /\ run'.ref = run.ref
              /\ run'.pc \in Loaded => run.pc \in Loaded
    PROVE  RunIsNewest'
<1>1. CASE run'.pc = "idle"
    BY <1>1 DEF RunIsNewest, Loaded
<1>2. CASE /\ run.pc # "idle" /\ run'.src = run.src /\ run'.ref = run.ref
           /\ run'.pc \in Loaded => run.pc \in Loaded
    BY <1>2 DEF RunIsNewest, NewestMade
<1> QED
    BY <1>1, <1>2

\* The rows are what they were while neither they nor the refreshes change.
LEMMA RowsKept ==
    ASSUME PageInv, UNCHANGED <<serving, quality, ledger, made>>
    PROVE  RowsNamed' /\ RowsInOrder' /\ ServedIsChecked'
<1>1. RowsNamed'
    BY DEF PageInv, RowsNamed
<1>2. RowsInOrder'
    BY DEF PageInv, RowsInOrder
<1>3. ServedIsChecked'
    BY DEF PageInv, ServedIsChecked, Describing
<1> QED
    BY <1>1, <1>2, <1>3

LEMMA LiveKept ==
    ASSUME LiveAreNewest, UNCHANGED <<gen, made>>
    PROVE  LiveAreNewest'
BY DEF LiveAreNewest, NewestMade

\* The facts about the records' types.
LEMMA RecordsTyped ==
    ASSUME PageInv
    PROVE  /\ Len(quality) \in Nat /\ DOMAIN quality = 1 .. Len(quality)
           /\ \A i \in DOMAIN quality : quality[i] \in Checks /\ quality[i].ref \in Nat
           /\ Len(ledger) \in Nat /\ DOMAIN ledger = 1 .. Len(ledger)
           /\ \A k \in DOMAIN ledger : ledger[k] \in Publications /\ ledger[k].ref \in Nat \ {0}
           /\ Len(made) \in Nat /\ DOMAIN made = 1 .. Len(made) /\ DOMAIN made \subseteq Refresh
           /\ \A s \in Source : serving[s].ref \in Nat
<1>1. TypeOK
    BY DEF PageInv, Records
<1>2. Refresh \cup {Unnamed} \subseteq Nat
    BY MaxRefreshAssumption
<1>3. /\ Len(quality) \in Nat /\ DOMAIN quality = 1 .. Len(quality)
      /\ \A i \in DOMAIN quality : quality[i] \in Checks
    BY <1>1, LenProperties, ElementOfSeq DEF TypeOK
<1>4. \A i \in DOMAIN quality : quality[i].ref \in Nat
    BY <1>2, <1>3 DEF Checks
<1>5. /\ Len(ledger) \in Nat /\ DOMAIN ledger = 1 .. Len(ledger)
      /\ \A k \in DOMAIN ledger : ledger[k] \in Publications
    BY <1>1, LenProperties, ElementOfSeq DEF TypeOK
<1>6. /\ Len(made) \in Nat /\ DOMAIN made = 1 .. Len(made) /\ DOMAIN made \subseteq Refresh
    BY <1>1, MadeType
<1>7. \A k \in DOMAIN ledger : ledger[k].ref \in DOMAIN made
    BY DEF PageInv, RowsNamed
<1>8. \A k \in DOMAIN ledger : ledger[k].ref \in Nat \ {0}
    BY <1>6, <1>7
<1>9. \A s \in Source : serving[s].ref \in Nat
    BY <1>1, <1>2 DEF TypeOK, Data
<1> QED
    BY <1>3, <1>4, <1>5, <1>6, <1>8, <1>9

\* A run persists checks of its refresh as a candidate's.
LEMMA PersistedPage ==
    ASSUME PageInv, run.pc # "idle", quality' = Persisted("CANDIDATE"),
           UNCHANGED <<serving, ledger, made, gen>>,
           run'.pc = "idle" \/ (run'.src = run.src /\ run'.ref = run.ref)
    PROVE  RowsNamed' /\ LiveAreNewest' /\ RowsInOrder' /\ RunIsNewest' /\ ServedIsChecked'
<1> DEFINE q == [src |-> run.src, ref |-> run.ref, context |-> "CANDIDATE"]
<1>0. PICK n \in Nat : n = Len(quality)
    BY RecordsTyped
<1>1. q \in Checks /\ quality \in Seq(Checks)
    BY DEF PageInv, Records, TypeOK, Checks
<1>2. /\ quality' = Append(quality, q) /\ q.src = run.src /\ q.ref = run.ref /\ q.context = "CANDIDATE"
    BY DEF Persisted
<1> HIDE DEF q
<1>3. /\ DOMAIN quality = 1 .. n /\ DOMAIN quality' = 1 .. n + 1
      /\ \A i \in 1 .. n : quality'[i] = quality[i]
      /\ quality'[n + 1] = q
    BY <1>0, <1>1, <1>2, RecordsTyped, AppendProperties, LenProperties
<1>4. /\ NewestMade(run.ref) /\ made[run.ref] = run.src
      /\ \A k \in DOMAIN ledger : ledger[k].src = run.src => ledger[k].ref < run.ref
    BY DEF PageInv, RunIsNewest
<1>5. ASSUME NEW i \in DOMAIN quality'
      PROVE  \/ i \in DOMAIN quality /\ quality'[i] = quality[i]
             \/ i = n + 1 /\ quality'[i] = q
  <2>1. \A k \in 1 .. n + 1 : k \in 1 .. n \/ k = n + 1
    OBVIOUS
  <2>2. i \in 1 .. n + 1
    BY <1>3
  <2> QED
    BY <1>3, <2>1, <2>2
<1>6. RowsNamed'
  <2>1. \A k \in DOMAIN ledger :
          /\ ledger[k].ref \in DOMAIN made /\ made[ledger[k].ref] = ledger[k].src
          /\ ledger[k].src \in Generational => ledger[k].gen = ledger[k].ref
          /\ ledger[k].ref <= serving[ledger[k].src].ref
    BY DEF PageInv, RowsNamed
  <2>2. ASSUME NEW i \in DOMAIN quality'
        PROVE  /\ quality'[i].context # "NULL"
               /\ quality'[i].ref \in DOMAIN made /\ made[quality'[i].ref] = quality'[i].src
    BY <1>2, <1>4, <1>5, <2>2 DEF PageInv, RowsNamed, NewestMade
  <2> QED
    BY <2>1, <2>2 DEF RowsNamed
<1>7. LiveAreNewest'
    BY LiveKept DEF PageInv
<1>8. RowsInOrder'
  <2>1. ASSUME NEW i \in DOMAIN quality, quality[i].src = run.src
        PROVE  quality[i].ref <= run.ref
    BY <1>4, <2>1 DEF PageInv, RowsNamed, NewestMade
  <2>2. ASSUME NEW i \in DOMAIN quality', NEW j \in DOMAIN quality',
               quality'[i].src = quality'[j].src, i < j
        PROVE  quality'[i].ref <= quality'[j].ref
    <3>1. CASE j \in DOMAIN quality /\ quality'[j] = quality[j]
      <4>1. i \in DOMAIN quality /\ quality'[i] = quality[i]
        BY <1>3, <2>2, <3>1
      <4> QED
        BY <2>2, <3>1, <4>1 DEF PageInv, RowsInOrder
    <3>2. CASE j = n + 1 /\ quality'[j] = q
      <4>1. i \in DOMAIN quality /\ quality'[i] = quality[i]
        BY <1>3, <2>2, <3>2
      <4> QED
        BY <1>2, <2>1, <2>2, <3>2, <4>1
    <3> QED
      BY <1>5, <3>1, <3>2
  <2>3. ASSUME NEW i \in DOMAIN quality', NEW k \in DOMAIN ledger,
               quality'[i].src = ledger[k].src, i > ledger[k].at
        PROVE  quality'[i].ref > ledger[k].ref
    <3>1. CASE i \in DOMAIN quality /\ quality'[i] = quality[i]
      BY <2>3, <3>1 DEF PageInv, RowsInOrder
    <3>2. CASE i = n + 1 /\ quality'[i] = q
      <4>1. ledger[k].ref < run.ref
        BY <1>2, <1>4, <2>3, <3>2
      <4> QED
        BY <1>2, <3>2, <4>1
    <3> QED
      BY <1>5, <3>1, <3>2
  <2> QED
    BY <2>2, <2>3 DEF RowsInOrder
<1>9. RunIsNewest'
  <2>1. CASE run'.pc = "idle"
    BY <2>1 DEF RunIsNewest, Loaded
  <2>2. CASE run'.src = run.src /\ run'.ref = run.ref
    <3>1. n + 1 \in DOMAIN quality' /\ quality'[n + 1].src = run'.src /\ quality'[n + 1].ref = run'.ref
      BY <1>2, <1>3, <2>2
    <3>2. NewestMade(run.ref)'
      BY <1>4, <2>2 DEF NewestMade
    <3> QED
      BY <1>4, <2>2, <3>1, <3>2 DEF RunIsNewest
  <2> QED
    BY <2>1, <2>2
<1>10. ServedIsChecked'
  <2>1. ASSUME NEW s \in Source
        PROVE  Describing(s)' = Describing(s)
    BY <1>2, <1>3, <1>5 DEF Describing
  <2>2. \A s \in Source : \A i \in Describing(s) : quality'[i] = quality[i]
    BY <1>3 DEF Describing
  <2> QED
    BY <2>1, <2>2 DEF PageInv, ServedIsChecked
<1> QED
    BY <1>6, <1>7, <1>8, <1>9, <1>10

\* A new refresh is newer than every other of its provider.
LEMMA MadePage ==
    ASSUME PageInv, NEW s \in Source, Make(s), UNCHANGED <<serving, quality, ledger>>,
           \/ gen' = gen /\ s \notin Generational
           \/ s \in Generational /\ LiveOf(s) = {} /\ gen' = [gen EXCEPT ![Len(made')] = "COMPLETE"]
    PROVE  RowsNamed' /\ LiveAreNewest' /\ RowsInOrder' /\ RunIsNewest' /\ ServedIsChecked'
<1>0. PICK n \in Nat : n = Len(made)
    BY RecordsTyped
<1>1. made \in Seq(Source) /\ gen \in [Refresh -> Statuses \cup {NoGeneration}]
    BY DEF PageInv, Records, TypeOK
<1>2. /\ DOMAIN made = 1 .. n /\ DOMAIN made' = 1 .. n + 1 /\ Len(made') = n + 1
      /\ \A r \in 1 .. n : made'[r] = made[r]
      /\ made'[n + 1] = s
    BY <1>0, <1>1, RecordsTyped, AppendProperties, LenProperties DEF Make
<1>3. n + 1 \in Refresh
    BY <1>0, <1>2, MaxRefreshAssumption DEF Make
<1>4. run'.pc = "seed" /\ run'.src = s /\ run'.ref = n + 1
    BY <1>2 DEF Make
<1>5. /\ \A i \in DOMAIN quality : quality[i].ref \in DOMAIN made
      /\ \A k \in DOMAIN ledger : ledger[k].ref \in DOMAIN made
    BY DEF PageInv, RowsNamed
<1>6. RowsNamed'
  <2>1. \A r \in DOMAIN made : r \in DOMAIN made' /\ made'[r] = made[r]
    BY <1>2
  <2>2. ASSUME NEW i \in DOMAIN quality
        PROVE  /\ quality[i].context # "NULL"
               /\ quality[i].ref \in DOMAIN made' /\ made'[quality[i].ref] = quality[i].src
    BY <1>5, <2>1 DEF PageInv, RowsNamed
  <2>3. ASSUME NEW k \in DOMAIN ledger
        PROVE  /\ ledger[k].ref \in DOMAIN made' /\ made'[ledger[k].ref] = ledger[k].src
               /\ ledger[k].src \in Generational => ledger[k].gen = ledger[k].ref
               /\ ledger[k].ref <= serving[ledger[k].src].ref
    BY <1>5, <2>1 DEF PageInv, RowsNamed
  <2> QED
    BY <2>2, <2>3 DEF RowsNamed
<1>7. NewestMade(n + 1)'
    BY <1>2 DEF NewestMade
<1>8. LiveAreNewest'
  <2> SUFFICES ASSUME NEW r \in Refresh, gen'[r] \in LiveStatuses
               PROVE  NewestMade(r)' /\ made'[r] \in Generational
    BY DEF LiveAreNewest
  <2>1. CASE gen'[r] = gen[r]
    <3>1. NewestMade(r) /\ made[r] \in Generational
      BY <2>1 DEF PageInv, LiveAreNewest
    <3>2. r \in 1 .. n
      BY <1>2, <3>1 DEF NewestMade
    <3>3. made[r] # s
      BY <1>2, <2>1, <3>1, <3>2 DEF LiveOf
    <3> QED
      BY <1>2, <3>1, <3>2, <3>3 DEF NewestMade
  <2>2. CASE gen'[r] # gen[r]
    <3>1. r = n + 1 /\ s \in Generational
      BY <1>1, <1>2, <2>2
    <3> QED
      BY <1>2, <1>7, <3>1
  <2> QED
    BY <2>1, <2>2
<1>9. RunIsNewest'
  <2>1. \A k \in DOMAIN ledger : ledger[k].ref < n + 1
    BY <1>2, <1>5
  <2>2. run'.pc \notin Loaded
    BY <1>4 DEF Loaded
  <2> QED
    BY <1>2, <1>4, <1>7, <2>1, <2>2 DEF RunIsNewest
<1>10. RowsInOrder' /\ ServedIsChecked'
    BY DEF PageInv, RowsInOrder, ServedIsChecked, Describing
<1> QED
    BY <1>6, <1>8, <1>9, <1>10

\* A status that moves along leaves the newest refresh the newest.
LEMMA StatusPage ==
    ASSUME PageInv, UNCHANGED <<serving, quality, ledger, made>>,
           \A r \in Refresh : gen'[r] \in LiveStatuses => gen[r] \in LiveStatuses,
           \/ run'.pc = "idle"
           \/ run' = run
           \/ /\ run.pc # "idle" /\ run'.src = run.src /\ run'.ref = run.ref
              /\ run'.pc \in Loaded => run.pc \in Loaded
    PROVE  RowsNamed' /\ LiveAreNewest' /\ RowsInOrder' /\ RunIsNewest' /\ ServedIsChecked'
<1>1. LiveAreNewest'
    BY DEF PageInv, LiveAreNewest, NewestMade
<1>2. RunIsNewest /\ (run' = run => RunIsNewest')
    BY DEF PageInv, RunIsNewest, NewestMade
<1>3. RunIsNewest'
    BY <1>2, RunGoesOn
<1> QED
    BY <1>1, <1>3, RowsKept

\* A run begins with the refresh of its provider that awaits publication.
LEMMA ResumedPage ==
    ASSUME PageInv, NEW s \in Source, NEW r \in LiveOf(s), run' = [pc |-> "seed", src |-> s, ref |-> r],
           UNCHANGED <<serving, quality, ledger, made, gen>>
    PROVE  RowsNamed' /\ LiveAreNewest' /\ RowsInOrder' /\ RunIsNewest' /\ ServedIsChecked'
<1>1. r \in DOMAIN made /\ r \in Refresh /\ made[r] = s /\ gen[r] \in LiveStatuses
    BY RecordsTyped DEF LiveOf
<1>2. NewestMade(r) /\ s \in Generational
    BY <1>1 DEF PageInv, LiveAreNewest
<1>3. ASSUME NEW k \in DOMAIN ledger, ledger[k].src = s
      PROVE  ledger[k].ref < r
  <2>1. ledger[k].gen = ledger[k].ref /\ ledger[k].ref \in DOMAIN made /\ made[ledger[k].ref] = s
    BY <1>2, <1>3 DEF PageInv, RowsNamed
  <2>2. ledger[k].ref <= r
    BY <1>1, <1>2, <2>1 DEF NewestMade
  <2>3. ledger[k].ref # r
    BY <1>1, <2>1 DEF PageInv, Records, StatusKnown, HasPublication
  <2> QED
    BY <1>1, <2>2, <2>3, RecordsTyped
<1>4. RunIsNewest'
  <2>1. run'.pc = "seed" /\ run'.src = s /\ run'.ref = r
    OBVIOUS
  <2>2. NewestMade(r)'
    BY <1>2 DEF NewestMade
  <2> QED
    BY <1>1, <1>3, <2>1, <2>2 DEF RunIsNewest, Loaded
<1> QED
    BY <1>4, RowsKept, LiveKept DEF PageInv

\* The transaction of the workflow's promotion: the checks of the refresh become
\* the newest that describe its provider.
LEMMA CommitPage ==
    ASSUME PageInv, run.pc = "commit", Commit(ArgsOf(run.src, run.ref)), run'.pc = "idle",
           UNCHANGED made
    PROVE  RowsNamed' /\ LiveAreNewest' /\ RowsInOrder' /\ RunIsNewest' /\ ServedIsChecked'
<1> DEFINE a == ArgsOf(run.src, run.ref)
           p == Resolved(a)
<1>1. /\ run.ref # Unnamed /\ run.ref \in DOMAIN made /\ made[run.ref] = run.src
      /\ \A k \in DOMAIN ledger : ledger[k].src = run.src => ledger[k].ref < run.ref
      /\ run.src \in Source
  <2>1. Aligned /\ RunIsNewest
    BY DEF PageInv
  <2> QED
    BY <2>1 DEF Aligned, StagingIsCandidate, TypeOK, RunIsNewest, NewestMade
<1>2. /\ p \in Publications /\ p.src = run.src /\ p.ref = run.ref /\ p.at = Len(quality)
      /\ run.src \in Generational => p.gen = run.ref
  <2>1. a \in Args
    BY DEF PageInv, Records, TypeOK, ArgsOf, Args
  <2>2. p \in Publications
    BY <2>1, ResolvedType DEF PageInv, Records
  <2> QED
    BY <1>1, <2>2 DEF Resolved, ArgsOf
<1>3. /\ ledger' = Append(ledger, p) /\ quality' = Flipped(p.src, p.ref)
      /\ gen' = IF p.gen \in Refresh /\ gen[p.gen] \in LiveStatuses
                THEN [gen EXCEPT ![p.gen] = "PUBLISHED"] ELSE gen
    BY DEF Commit
<1>4. /\ serving'[run.src].ref = run.ref
      /\ \A s \in Source \ {run.src} : serving'[s].ref = serving[s].ref
    BY CommitServes DEF PageInv
<1> HIDE DEF p
<1>5. PICK n \in Nat :
        /\ DOMAIN ledger = 1 .. n /\ DOMAIN ledger' = 1 .. n + 1
        /\ \A k \in DOMAIN ledger : ledger'[k] = ledger[k] /\ ledger[k] \in Publications
        /\ ledger'[n + 1] = p
    BY <1>2, <1>3, AppendedRow DEF PageInv, Records, TypeOK
<1>6. ASSUME NEW k \in DOMAIN ledger'
      PROVE  \/ k \in DOMAIN ledger /\ ledger'[k] = ledger[k]
             \/ ledger'[k] = p
  <2>1. \A j \in 1 .. n + 1 : j \in 1 .. n \/ j = n + 1
    OBVIOUS
  <2> QED
    BY <1>5, <2>1
<1>7. /\ DOMAIN quality' = DOMAIN quality
      /\ \A i \in DOMAIN quality :
            /\ quality'[i].src = quality[i].src /\ quality'[i].ref = quality[i].ref
            /\ IF quality[i].src = run.src /\ quality[i].ref = run.ref
                  /\ quality[i].context = "CANDIDATE"
               THEN quality'[i].context = "PUBLISHED"
               ELSE quality'[i].context = quality[i].context
  <2>1. \A i \in DOMAIN quality : quality[i] \in Checks
    BY RecordsTyped
  <2> QED
    BY <1>1, <1>2, <1>3, <2>1 DEF Flipped, Checks
<1>8. RowsNamed'
  <2>1. ASSUME NEW i \in DOMAIN quality'
        PROVE  /\ quality'[i].context # "NULL"
               /\ quality'[i].ref \in DOMAIN made /\ made[quality'[i].ref] = quality'[i].src
    <3>1. /\ quality[i].context # "NULL"
          /\ quality[i].ref \in DOMAIN made /\ made[quality[i].ref] = quality[i].src
      BY <1>7 DEF PageInv, RowsNamed
    <3> QED
      BY <1>7, <3>1
  <2>2. ASSUME NEW k \in DOMAIN ledger'
        PROVE  /\ ledger'[k].ref \in DOMAIN made /\ made[ledger'[k].ref] = ledger'[k].src
               /\ ledger'[k].src \in Generational => ledger'[k].gen = ledger'[k].ref
               /\ ledger'[k].ref <= serving'[ledger'[k].src].ref
    <3>1. CASE k \in DOMAIN ledger /\ ledger'[k] = ledger[k]
      <4>1. /\ ledger[k].ref \in DOMAIN made /\ made[ledger[k].ref] = ledger[k].src
            /\ ledger[k].src \in Generational => ledger[k].gen = ledger[k].ref
            /\ ledger[k].ref <= serving[ledger[k].src].ref
            /\ ledger[k].src \in Source
        BY <1>5, <3>1 DEF PageInv, RowsNamed, Publications
      <4>2. CASE ledger[k].src = run.src
        <5>1. ledger[k].ref < run.ref /\ ledger[k].ref \in Nat /\ run.ref \in Nat
          BY <1>1, <3>1, <4>2, RecordsTyped
        <5> QED
          BY <1>4, <3>1, <4>1, <4>2, <5>1
      <4>3. CASE ledger[k].src # run.src
        BY <1>4, <3>1, <4>1, <4>3
      <4> QED
        BY <4>2, <4>3
    <3>2. CASE ledger'[k] = p
      <4>1. run.ref <= run.ref
        BY <1>1, RecordsTyped
      <4> QED
        BY <1>1, <1>2, <1>4, <3>2, <4>1
    <3> QED
      BY <1>6, <3>1, <3>2
  <2> QED
    BY <2>1, <2>2 DEF RowsNamed
<1>9. LiveAreNewest'
  <2>1. gen \in [Refresh -> Statuses \cup {NoGeneration}]
    BY DEF PageInv, Records, TypeOK
  <2>2. \A r \in Refresh : gen'[r] \in LiveStatuses => gen[r] \in LiveStatuses
    BY <1>3, <2>1
  <2> QED
    BY <2>2 DEF PageInv, LiveAreNewest, NewestMade
<1>10. RowsInOrder'
  <2>1. ASSUME NEW i \in DOMAIN quality', NEW j \in DOMAIN quality',
               quality'[i].src = quality'[j].src, i < j
        PROVE  quality'[i].ref <= quality'[j].ref
    BY <1>7, <2>1 DEF PageInv, RowsInOrder
  <2>2. ASSUME NEW i \in DOMAIN quality', NEW k \in DOMAIN ledger',
               quality'[i].src = ledger'[k].src, i > ledger'[k].at
        PROVE  quality'[i].ref > ledger'[k].ref
    <3>1. CASE k \in DOMAIN ledger /\ ledger'[k] = ledger[k]
      <4>1. quality[i].ref > ledger[k].ref
        BY <1>7, <2>2, <3>1 DEF PageInv, RowsInOrder
      <4> QED
        BY <1>7, <3>1, <4>1
    <3>2. CASE ledger'[k] = p
      <4>1. i \in 1 .. Len(quality) /\ Len(quality) \in Nat
        BY <1>7, RecordsTyped
      <4> QED
        BY <1>2, <2>2, <3>2, <4>1
    <3> QED
      BY <1>6, <3>1, <3>2
  <2> QED
    BY <2>1, <2>2 DEF RowsInOrder
<1>11. RunIsNewest'
    BY DEF RunIsNewest, Loaded
<1>12. ServedIsChecked'
  <2> SUFFICES ASSUME NEW s \in Source, Describing(s)' # {}
               PROVE  \E i \in Describing(s)' : quality'[i].ref = serving'[s].ref
    BY DEF ServedIsChecked
  <2>1. CASE s = run.src
    <3>1. PICK i \in DOMAIN quality : quality[i].src = run.src /\ quality[i].ref = run.ref
      BY DEF PageInv, RunIsNewest, Loaded
    <3>2. quality[i].context # "PUBLISHED"
      <4>1. ~InLedger(run.src, run.ref)
        BY <1>1, RecordsTyped DEF InLedger
      <4> QED
        BY <3>1, <4>1 DEF PageInv, Records, QualityFollowsLedger
    <3>3. quality[i].context = "CANDIDATE"
      BY <3>2, RecordsTyped DEF PageInv, RowsNamed, Checks
    <3>4. i \in Describing(s)'
      BY <1>7, <2>1, <3>1, <3>3 DEF Describing
    <3> QED
      BY <1>4, <1>7, <2>1, <3>1, <3>4
  <2>2. CASE s # run.src
    <3>1. Describing(s)' = Describing(s)
      BY <1>7, <2>2 DEF Describing
    <3>2. PICK i \in Describing(s) : quality[i].ref = serving[s].ref
      BY <3>1 DEF PageInv, ServedIsChecked
    <3>3. quality'[i].ref = quality[i].ref
      BY <1>7, <3>2 DEF Describing
    <3> QED
      BY <1>4, <2>2, <3>1, <3>2, <3>3
  <2> QED
    BY <2>1, <2>2
<1> QED
    BY <1>8, <1>9, <1>10, <1>11, <1>12

\* Every step keeps the rows in order.
LEMMA PageStep ==
    ASSUME Unattended, PageInv, [Next]_vars
    PROVE  PageInv'
<1> DEFINE Rest == RowsNamed' /\ LiveAreNewest' /\ RowsInOrder' /\ RunIsNewest' /\ ServedIsChecked'
<1>1. Records' /\ Aligned'
    BY RecordsStep, AlignedStep DEF PageInv, Unattended
<1>2. TypeOK /\ hand = <<>> /\ RunIsNewest
    BY DEF PageInv, Aligned, StagingIsCandidate
<1> SUFFICES Rest
    BY <1>1 DEF PageInv
<1>3. ASSUME UNCHANGED <<serving, quality, ledger, made, gen>>,
             \/ EndRun
             \/ run' = run
             \/ /\ run.pc # "idle" /\ run'.src = run.src /\ run'.ref = run.ref
                /\ run'.pc \in Loaded => run.pc \in Loaded
      PROVE  Rest
  <2>1. EndRun => run'.pc = "idle"
    BY DEF EndRun, IdleRun
  <2> QED
    BY <1>3, <2>1, StatusPage
<1>4. ASSUME NEW step, Goto(step)
      PROVE  run'.pc = step /\ run'.src = run.src /\ run'.ref = run.ref
    BY <1>2, <1>4 DEF Goto, TypeOK
<1>5. Failed => EndRun
    BY DEF Failed
<1>6. ASSUME NEW s \in Source, BeginGeneration(s) PROVE Rest
    <2>1. CASE UNCHANGED <<made, gen>> /\ \E r \in LiveOf(s) : run' = [pc |-> "seed", src |-> s, ref |-> r]
        BY <1>6, <2>1, ResumedPage DEF BeginGeneration
    <2>2. CASE LiveOf(s) = {} /\ Make(s) /\ gen' = [gen EXCEPT ![Len(made')] = "COMPLETE"]
        BY <1>6, <2>2, MadePage DEF BeginGeneration
    <2> QED
        BY <1>6, <2>1, <2>2 DEF BeginGeneration
<1>7. ASSUME NEW s \in Source, BeginDownload(s) PROVE Rest
    BY <1>7, MadePage DEF BeginDownload
<1>8. ASSUME NEW r \in Refresh, Rerun(r) PROVE FALSE
    BY <1>8 DEF Rerun, Adverse, Unattended
<1>9. ASSUME NEW r \in Refresh, Abandon(r) \/ AbandonOnDisk(r) PROVE Rest
    <2>1. gen' = [gen EXCEPT ![r] = "FAILED"] /\ UNCHANGED <<serving, quality, ledger, made, run>>
        BY <1>9 DEF Abandon, AbandonOnDisk
    <2>2. \A q \in Refresh : gen'[q] \in LiveStatuses => gen[q] \in LiveStatuses
        BY <1>2, <2>1 DEF TypeOK
    <2> QED
        BY <2>1, <2>2, StatusPage
<1>10. CASE Seed
    BY <1>3, <1>4, <1>5, <1>10 DEF Seed, Loaded
<1>11. CASE Load
    <2>1. CASE Failed /\ UNCHANGED <<staging, quality>>
        BY <1>3, <1>5, <1>11, <2>1 DEF Load
    <2>2. CASE quality' = Persisted("CANDIDATE") /\ Goto("identity")
        BY <1>4, <1>11, <2>2, PersistedPage DEF Load
    <2> QED
        BY <1>11, <2>1, <2>2 DEF Load
<1>12. CASE Identity
    BY <1>3, <1>4, <1>5, <1>12 DEF Identity, Loaded
<1>13. CASE Quality
    <2>1. run'.pc = "idle" \/ (run'.src = run.src /\ run'.ref = run.ref)
        BY <1>4, <1>5, <1>13 DEF Quality, EndRun, IdleRun
    <2> QED
        BY <1>13, <2>1, PersistedPage DEF Quality
<1>14. CASE Validate
    BY <1>3, <1>4, <1>5, <1>14 DEF Validate, Loaded
<1>15. CASE Mark
    <2>1. UNCHANGED <<serving, quality, ledger, made>> /\ run.pc = "mark"
        BY <1>15 DEF Mark
    <2>2. \A r \in Refresh : gen'[r] \in LiveStatuses => gen[r] \in LiveStatuses
        BY <1>2, <1>15 DEF Mark, TypeOK
    <2>3. \/ run'.pc = "idle"
          \/ run'.src = run.src /\ run'.ref = run.ref
        BY <1>4, <1>5, <1>15 DEF Mark, EndRun, IdleRun
    <2> QED
        BY <2>1, <2>2, <2>3, StatusPage DEF Loaded
<1>16. CASE PromoteCheck
    BY <1>3, <1>4, <1>16 DEF PromoteCheck, Loaded
<1>17. CASE PromoteCommit
    <2>1. run'.pc = "idle" /\ run.pc = "commit" /\ UNCHANGED made
        BY <1>17 DEF PromoteCommit, EndRun, IdleRun
    <2>2. CASE Commit(ArgsOf(run.src, run.ref))
        BY <2>1, <2>2, CommitPage
    <2>3. CASE Aborted
        BY <1>3, <1>17, <2>1, <2>3 DEF PromoteCommit, Aborted
    <2> QED
        BY <1>17, <2>2, <2>3 DEF PromoteCommit
<1>18. CASE Crash
    BY <1>3, <1>18 DEF Crash
<1>19. ASSUME NEW s \in Source, NEW r \in Refresh \cup {Unnamed}, NEW force \in BOOLEAN,
              HandCheck(s, r, force)
       PROVE  FALSE
    BY <1>19 DEF HandCheck, Command, Unattended, NoSwapByHand
<1>20. ~HandCommit /\ ~Rollback
    BY <1>2 DEF HandCommit, Rollback, Command, Unattended, NoSwapByHand
<1>21. ASSUME NEW s \in Source, HandReport(s) PROVE FALSE
    BY <1>21 DEF HandReport, Command, Unattended
<1>22. CASE UNCHANGED vars
    BY <1>3, <1>22 DEF vars
<1> QED
    BY <1>6, <1>7, <1>8, <1>9, <1>10, <1>11, <1>12, <1>13, <1>14, <1>15, <1>16, <1>17, <1>18,
       <1>19, <1>20, <1>21, <1>22 DEF Next

LEMMA PageInit == Init => PageInv
<1> SUFFICES ASSUME Init PROVE PageInv
    OBVIOUS
<1>1. Records /\ Aligned
    BY RecordsInit, AlignedInit
<1>2. quality = <<>> /\ ledger = <<>> /\ run.pc = "idle" /\ gen = [r \in Refresh |-> NoGeneration]
    BY DEF Init, IdleRun
<1>3. \A s \in Source : Describing(s) = {}
    BY <1>2 DEF Describing
<1> QED
    BY <1>1, <1>2, <1>3 DEF PageInv, RowsNamed, LiveAreNewest, RowsInOrder, RunIsNewest,
                            ServedIsChecked, Loaded

\* Some numbers have a greatest one.
LEMMA NewestIsOne ==
    ASSUME NEW n \in Nat, NEW S \in SUBSET (1 .. n), S # {}
    PROVE  Newest(S) \in S /\ \A j \in S : j <= Newest(S)
<1>1. \E i \in S : \A j \in S : j <= i
  <2> DEFINE T == {n - i : i \in S}
  <2>1. T \in SUBSET Nat /\ T # {}
    <3>1. \A i \in 1 .. n : n - i \in Nat
      OBVIOUS
    <3> QED
      BY <3>1
  <2>2. \A i, j \in Nat : i < j => <<i, j>> \in OpToRel(<, Nat)
    BY DEF OpToRel
  <2>3. PICK m \in T : \A t \in T : ~(<<t, m>> \in OpToRel(<, Nat))
    <3> HIDE DEF T
    <3>1. \E m \in T : \A t \in T : ~(<<t, m>> \in OpToRel(<, Nat))
      BY ONLY <2>1, NatLessThanWellFounded, WFMin
    <3> QED
      BY <3>1
  <2>4. PICK i \in S : m = n - i
    BY <2>3
  <2>5. ASSUME NEW j \in S
        PROVE  j <= i
    <3>1. n - j \in T /\ n - j \in Nat /\ m \in Nat
      BY <2>1
    <3>2. ~(n - j < m)
      BY <2>2, <2>3, <3>1
    <3> QED
      BY <2>4, <3>2
  <2> QED
    BY <2>5
<1> QED
    BY <1>1 DEF Newest

\* What the page shows, from the order of the rows.
LEMMA PageShows ==
    ASSUME PageInv
    PROVE  ShownChecksDescribeServing /\ CandidateIsWaiting
<1>1. /\ RowsNamed /\ RowsInOrder /\ ServedIsChecked /\ QualityFollowsLedger
      /\ LedgerDescribesServing
    BY DEF PageInv, Records, Aligned
<1>2. /\ Len(quality) \in Nat /\ DOMAIN quality = 1 .. Len(quality)
      /\ \A i \in DOMAIN quality : quality[i] \in Checks /\ quality[i].ref \in Nat
      /\ Len(ledger) \in Nat /\ DOMAIN ledger = 1 .. Len(ledger)
      /\ \A k \in DOMAIN ledger : ledger[k] \in Publications /\ ledger[k].ref \in Nat \ {0}
      /\ \A s \in Source : serving[s].ref \in Nat
    BY RecordsTyped
<1>3. ASSUME NEW s \in Source, PublicationsOf(s) # {}
      PROVE  /\ Newest(PublicationsOf(s)) \in PublicationsOf(s)
             /\ serving[s].ref = ledger[Newest(PublicationsOf(s))].ref
             /\ serving[s].ref # Unnamed
  <2>1. PublicationsOf(s) \in SUBSET (1 .. Len(ledger))
    BY <1>2 DEF PublicationsOf
  <2>2. /\ Newest(PublicationsOf(s)) \in PublicationsOf(s)
        /\ \A j \in PublicationsOf(s) : j <= Newest(PublicationsOf(s))
    BY <1>2, <1>3, <2>1, NewestIsOne
  <2>3. ledger[Newest(PublicationsOf(s))].ref # Unnamed
    BY <1>2, <2>2 DEF PublicationsOf
  <2> QED
    BY <1>1, <2>2, <2>3 DEF LedgerDescribesServing
<1>4. ASSUME NEW s \in Source, NEW i \in Describing(s)
      PROVE  quality[i].ref <= serving[s].ref /\ PublicationsOf(s) # {}
  <2>1. i \in DOMAIN quality /\ quality[i].src = s /\ quality[i].context = "PUBLISHED"
    BY <1>1, <1>2 DEF Describing, RowsNamed, Checks
  <2>2. PICK k \in DOMAIN ledger : ledger[k].src = s /\ ledger[k].ref = quality[i].ref
    BY <1>1, <2>1 DEF QualityFollowsLedger, InLedger
  <2> QED
    BY <1>1, <2>2 DEF RowsNamed, PublicationsOf
<1>5. ASSUME NEW s \in Source, Describing(s) # {}
      PROVE  /\ Newest(Describing(s)) \in Describing(s)
             /\ quality[Newest(Describing(s))].ref = serving[s].ref
             /\ quality[Newest(Describing(s))].context # "NULL"
  <2>1. Describing(s) \in SUBSET (1 .. Len(quality))
    BY <1>2 DEF Describing
  <2>2. /\ Newest(Describing(s)) \in Describing(s)
        /\ \A j \in Describing(s) : j <= Newest(Describing(s))
    BY <1>2, <1>5, <2>1, NewestIsOne
  <2>3. \A j \in 1 .. Len(quality) : j \in Nat
    BY <1>2
  <2>4. Newest(Describing(s)) \in Nat
    BY <2>1, <2>2, <2>3
  <2>5. PICK n \in Nat : n = Newest(Describing(s)) /\ n \in Describing(s)
                         /\ \A j \in Describing(s) : j <= n
    BY <2>2, <2>4
  <2>6. PICK i \in Describing(s) : quality[i].ref = serving[s].ref
    BY <1>1, <1>5 DEF ServedIsChecked
  <2>7. i \in DOMAIN quality /\ n \in DOMAIN quality /\ quality[i].src = s /\ quality[n].src = s
    BY <2>5, <2>6 DEF Describing
  <2>8. i = n \/ i < n
    BY <1>2, <2>5, <2>6, <2>7
  <2>9. quality[i].ref <= quality[n].ref
    BY <1>1, <1>2, <2>7, <2>8 DEF RowsInOrder
  <2>10. quality[n].ref <= serving[s].ref
    BY <1>4, <2>5
  <2>11. quality[n].ref = serving[s].ref
    BY <1>2, <2>6, <2>7, <2>9, <2>10
  <2> QED
    BY <1>1, <2>5, <2>7, <2>11 DEF RowsNamed
<1>6. ShownChecksDescribeServing
  <2>1. ASSUME NEW s \in Source, PublishedChecks(s) # <<>>
        PROVE  /\ PublishedChecks(s)[1].refresh = serving[s].ref
               /\ PublishedChecks(s)[1].checked => quality[Newest(Describing(s))].ref = serving[s].ref
    <3>1. CASE Describing(s) # {}
      <4>1. serving[s].ref # Unnamed
        BY <1>3, <1>4, <1>5, <3>1
      <4>2. PublishedChecks(s)[1].refresh = quality[Newest(Describing(s))].ref
        BY <1>5, <3>1, <4>1 DEF PublishedChecks
      <4> QED
        BY <1>5, <3>1, <4>2
    <3>2. CASE Describing(s) = {}
      <4>1. PublicationsOf(s) # {}
        BY <2>1, <3>2 DEF PublishedChecks, LatestPublication
      <4>2. PICK row : row = ledger[Newest(PublicationsOf(s))]
        OBVIOUS
      <4>3. LatestPublication(s) = <<row>> /\ <<row>> # <<>>
        BY <4>1, <4>2 DEF LatestPublication
      <4>4. PublishedChecks(s)[1].refresh = row.ref
        BY <3>2, <4>3 DEF PublishedChecks
      <4>5. ~PublishedChecks(s)[1].checked
        BY <3>2, <4>3 DEF PublishedChecks
      <4> QED
        BY <1>3, <4>1, <4>2, <4>4, <4>5
    <3> QED
      BY <3>1, <3>2
  <2>2. ASSUME NEW s \in Source, Describing(s) # {}, PublicationsOf(s) # {}
        PROVE  /\ Freshness[s].publishedAt = DataFreshness[s]
               /\ Freshness[s].checkedAt <= DataFreshness[s]
    <3> DEFINE k == Newest(PublicationsOf(s))
    <3>1. LatestPublication(s) = <<ledger[k]>>
      BY <2>2 DEF LatestPublication
    <3>2. DataFreshness[s] = ledger[k].at
      BY <2>2, <3>1 DEF DataFreshness
    <3>3. Freshness[s].publishedAt = ledger[k].at /\ Freshness[s].checkedAt = Newest(Describing(s))
      BY <2>2, <3>1 DEF Freshness
    <3>4. k \in DOMAIN ledger /\ ledger[k].src = s /\ ledger[k].ref = serving[s].ref /\ ledger[k].at \in Nat
      BY <1>2, <1>3, <2>2 DEF PublicationsOf, Publications
    <3> HIDE DEF k
    <3>5. PICK i \in DOMAIN quality :
             i = Newest(Describing(s)) /\ quality[i].src = s /\ quality[i].ref = serving[s].ref
      BY <1>5, <2>2 DEF Describing
    <3>6. ~(quality[i].ref > ledger[k].ref)
      BY <1>2, <3>4, <3>5
    <3>7. ~(i > ledger[k].at)
      BY <1>1, <3>4, <3>5, <3>6 DEF RowsInOrder
    <3> QED
      BY <1>2, <3>2, <3>3, <3>4, <3>5, <3>7
  <2>3. \A s \in DOMAIN ProviderQuality : s \in Source /\ ProviderQuality[s].published = PublishedChecks(s)
    BY DEF ProviderQuality
  <2>4. \A s \in DOMAIN Freshness \cap DOMAIN DataFreshness :
           s \in Source /\ Describing(s) # {} /\ PublicationsOf(s) # {}
    BY DEF Freshness, DataFreshness
  <2> QED
    BY <2>1, <2>2, <2>3, <2>4 DEF ShownChecksDescribeServing
<1>7. CandidateIsWaiting
  <2> SUFFICES ASSUME NEW s \in Source, ProviderQuality[s].candidate # Unnamed,
                      s \in DOMAIN ProviderQuality
               PROVE  /\ ProviderQuality[s].candidate > serving[s].ref
                      /\ ~InLedger(s, ProviderQuality[s].candidate)
    BY DEF CandidateIsWaiting, ProviderQuality
  <2>1. /\ ProviderQuality[s].candidate = quality[Newest(Waiting(s))].ref
        /\ Waiting(s) # {}
    BY DEF ProviderQuality
  <2>2. Waiting(s) \in SUBSET (1 .. Len(quality))
    BY <1>2 DEF Waiting
  <2>3. PICK i \in Waiting(s) : i = Newest(Waiting(s))
    BY <1>2, <2>1, <2>2, NewestIsOne
  <2>4. i \in DOMAIN quality /\ quality[i].src = s /\ quality[i].ref # Unnamed /\ quality[i].ref \in Nat
    BY <1>2, <2>1, <2>3 DEF Waiting
  <2>5. quality[i].ref > serving[s].ref
    <3>1. CASE PublicationsOf(s) = {}
      BY <1>1, <2>4, <3>1 DEF LedgerDescribesServing
    <3>2. CASE PublicationsOf(s) # {}
      <4>1. i > ledger[Newest(PublicationsOf(s))].at
        BY <2>3, <3>2 DEF Waiting
      <4>2. Newest(PublicationsOf(s)) \in DOMAIN ledger /\ ledger[Newest(PublicationsOf(s))].src = s
        BY <1>3, <3>2 DEF PublicationsOf
      <4>3. quality[i].ref > ledger[Newest(PublicationsOf(s))].ref
        BY <1>1, <2>4, <4>1, <4>2 DEF RowsInOrder
      <4> QED
        BY <1>3, <3>2, <4>3
    <3> QED
      BY <3>1, <3>2
  <2>6. ~InLedger(s, quality[i].ref)
    <3> SUFFICES ASSUME NEW k \in DOMAIN ledger, ledger[k].src = s, ledger[k].ref = quality[i].ref
                 PROVE  FALSE
      BY DEF InLedger
    <3>1. ledger[k].ref <= serving[s].ref
      BY <1>1 DEF RowsNamed
    <3> QED
      BY <1>2, <2>4, <2>5, <3>1
  <2> QED
    BY <2>1, <2>3, <2>5, <2>6
<1> QED
    BY <1>6, <1>7

\* While only the workflow publishes and each refresh has one run, the quality page
\* describes the refresh that is served: the checks it shows, the name beside
\* them and the time of the publication agree.
THEOREM PageDescribesServing ==
    ASSUME Unattended
    PROVE  Spec => []ShownChecksDescribeServing
<1>1. PageInv /\ [Next]_vars => PageInv'
    BY PageStep
<1>2. PageInv => ShownChecksDescribeServing
    BY PageShows
<1> QED
    BY <1>1, <1>2, PageInit, PTL DEF Spec

\* Under the same conditions a refresh is shown as a candidate only while it is
\* newer than what is served and not in the ledger.
THEOREM CandidatesWait ==
    ASSUME Unattended
    PROVE  Spec => []CandidateIsWaiting
<1>1. PageInv /\ [Next]_vars => PageInv'
    BY PageStep
<1>2. PageInv => CandidateIsWaiting
    BY PageShows
<1> QED
    BY <1>1, <1>2, PageInit, PTL DEF Spec

=============================================================================
