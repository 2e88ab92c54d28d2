--------------------------- MODULE ServingProofs ----------------------------
(***************************************************************************)
(* What readers of the API may rely on, for any number of requests at      *)
(* once, promotions, rollbacks and failures: an "ok" of /health, and the   *)
(* answer of a reload.                                                     *)
(*                                                                         *)
(* A view's fingerprint is compared with the database's, so the invariant  *)
(* says which dataset a time of checks can stand for: the ledger's rows    *)
(* grow in time and in dataset, a dataset that is neither served nor       *)
(* staged never comes back, and no view carries a candidate's time.        *)
(***************************************************************************)
EXTENDS Serving, SequenceTheorems, WellFoundedInduction, TLAPS

Publication == [check : Time \ {0}, dataset : Dataset \ {Empty}]

Typed ==
    /\ serving \in Dataset /\ staged \in Dataset /\ loads \in Dataset
    /\ ledger \in Seq(Publication)
    /\ reports \in SUBSET (Time \ {0}) /\ clock \in Time
    /\ restored \in BOOLEAN
    /\ cache \in View /\ thread \in [Thread -> Request]
    /\ run \in {"idle", "loaded", "reload", "reloading", "revalidate"}
    /\ page \in [from : SUBSET Dataset, stale : BOOLEAN]
    /\ told \in Dataset /\ faults \in Nat

-----------------------------------------------------------------------------
(* The database.  The publication 0 is the empty dataset, never checked. *)

Published(i) == IF i = 0 THEN Empty ELSE ledger[i].dataset
CheckedAt(i) == IF i = 0 THEN 0 ELSE ledger[i].check

InOrder ==
    \A i, j \in 0 .. Len(ledger) :
        i < j => CheckedAt(i) < CheckedAt(j) /\ Published(i) < Published(j)

\* Neither what is served nor, but for the last publication, what is staged is
\* older than a publication.
NothingOlder ==
    \A i \in 0 .. Len(ledger) :
        /\ Published(i) <= serving
        /\ i < Len(ledger) => Published(i) <= staged

\* What a rollback has passed over is gone.
StrayedForGood == Strayed => staged # LastPublished

Bounded ==
    /\ serving <= loads /\ staged <= loads
    /\ \A i \in 0 .. Len(ledger) : Published(i) <= loads /\ CheckedAt(i) <= clock
    /\ \A r \in reports : r <= clock

\* A candidate is newer than everything there is, and nobody has seen its checks.
CandidateIsNew ==
    run = "loaded" =>
        /\ LastLoaded \in 1 .. clock \ reports
        /\ \A i \in 0 .. Len(ledger) : Published(i) < staged /\ CheckedAt(i) < LastLoaded

Database == InOrder /\ NothingOlder /\ StrayedForGood /\ Bounded /\ CandidateIsNew

-----------------------------------------------------------------------------
(* The views that are in the cache or on their way to it *)

Views == {cache} \cup {thread[t].view : t \in Building}

\* A time of checks stands for the dataset served when it was read, or for one
\* that never comes back.
Agrees(v) ==
    \A i \in 0 .. Len(ledger) :
        v.check = CheckedAt(i) =>
            v.checked = Published(i) \/ Published(i) \notin {serving, staged}

\* Without a rollback nothing was served since but what the time stands for.
Whole(v) == ~restored /\ v.check = CheckedAt(Len(ledger)) => v.from \subseteq {serving}

Unseen(v) == run = "loaded" => v.check # LastLoaded

\* What was read since the last reload that counts.
Clean(v) == v.survivor \/ v.from \subseteq {serving}

ViewsAgree == \A v \in Views : Agrees(v) /\ Whole(v) /\ Unseen(v) /\ v.check <= clock

\* The tables come last, and a view has them all when it is kept.
Read ==
    /\ cache # NoView => cache.from # {}
    /\ \A t \in Building : IF thread[t].done <= 2 THEN thread[t].view.from = {}
                           ELSE thread[t].view.from # {}

-----------------------------------------------------------------------------
(* The reload *)

HasCleared(t) == thread[t].awaited /\ (thread[t].step = "get" \/ thread[t].leg = 2)

Reloading ==
    /\ \A t \in Thread : thread[t].awaited => run = "reloading"
    /\ \A t, u \in Thread : thread[t].awaited /\ thread[u].awaited => t = u
    /\ run \in {"reload", "reloading", "revalidate"} => serving # Empty
    /\ told # Empty => told = serving
    /\ told # Empty \/ (\E t \in Thread : HasCleared(t)) => \A v \in Views : Clean(v)

ServingInv == Typed /\ Database /\ ViewsAgree /\ Read /\ Reloading

-----------------------------------------------------------------------------
(* Times and datasets *)

LEMMA Least ==
    ASSUME NEW S \in SUBSET Nat, S # {}
    PROVE  \E m \in S : \A k \in S : m <= k
<1>1. PICK m \in S : \A k \in S : ~(<<k, m>> \in OpToRel(<, Nat))
  <2>1. \E m \in S : \A k \in S : ~(<<k, m>> \in OpToRel(<, Nat))
    BY ONLY S \in SUBSET Nat, S # {}, NatLessThanWellFounded, WFMin
  <2> QED
    BY <2>1
<1>2. \A k, n \in Nat : k < n => <<k, n>> \in OpToRel(<, Nat)
  BY DEF OpToRel
<1>3. ASSUME NEW k \in S
      PROVE  m <= k
  <2>1. k \in Nat /\ m \in Nat /\ ~(k < m)
    BY <1>1, <1>2
  <2> QED
    BY <2>1
<1> QED
  BY <1>3

\* The latest of some times is one of them.
LEMMA LatestIsOne ==
    ASSUME NEW n \in Nat, NEW S \in SUBSET (1 .. n), S # {}
    PROVE  Latest(S) \in S /\ \A u \in S : u <= Latest(S)
<1> DEFINE T == {n - i : i \in S}
<1>1. T \in SUBSET Nat /\ T # {}
  <2>1. \A i \in 1 .. n : n - i \in Nat
    OBVIOUS
  <2> QED
    BY <2>1
<1>2. PICK m \in T : \A k \in T : m <= k
  <2> HIDE DEF T
  <2> QED
    BY <1>1, Least
<1>3. PICK i \in S : m = n - i
  BY <1>2
<1>4. ASSUME NEW u \in S
      PROVE  u <= i
  <2>1. n - u \in T /\ m <= n - u
    BY <1>2
  <2> QED
    BY <1>3, <2>1
<1> QED
  BY <1>4 DEF Latest

LEMMA LedgerIs ==
    ASSUME Typed
    PROVE  /\ Len(ledger) \in Nat /\ DOMAIN ledger = 1 .. Len(ledger)
           /\ ledger = << >> <=> Len(ledger) = 0
           /\ \A i \in 1 .. Len(ledger) :
                /\ ledger[i] \in Publication
                /\ Published(i) = ledger[i].dataset /\ CheckedAt(i) = ledger[i].check
           /\ \A i \in 0 .. Len(ledger) : Published(i) \in Nat /\ CheckedAt(i) \in Nat
           /\ \A i \in 1 .. Len(ledger) : Published(i) > 0 /\ CheckedAt(i) > 0
           /\ Published(0) = 0 /\ CheckedAt(0) = 0
           /\ clock \in Nat /\ serving \in Nat /\ staged \in Nat /\ loads \in Nat
           /\ LastPublished = Published(Len(ledger))
           /\ \A r \in reports : r \in Nat /\ r > 0
<1>1. /\ Len(ledger) \in Nat /\ DOMAIN ledger = 1 .. Len(ledger)
      /\ ledger = << >> <=> Len(ledger) = 0
      /\ \A i \in 1 .. Len(ledger) : ledger[i] \in Publication
  <2>1. ledger \in Seq(Publication)
    BY DEF Typed
  <2> QED
    BY <2>1, LenProperties, EmptySeq, ElementOfSeq
<1>2. \A p \in Publication : p.check \in Nat /\ p.check > 0 /\ p.dataset \in Nat /\ p.dataset > 0
  BY BoundAssumption DEF Publication, Time, Dataset, Empty
<1>3. \A i \in 1 .. Len(ledger) : Published(i) = ledger[i].dataset /\ CheckedAt(i) = ledger[i].check
  BY <1>1 DEF Published, CheckedAt
<1>4. Published(0) = 0 /\ CheckedAt(0) = 0
  BY DEF Published, CheckedAt, Empty
<1>5. \A i \in 1 .. Len(ledger) : /\ Published(i) \in Nat /\ CheckedAt(i) \in Nat
                                  /\ Published(i) > 0 /\ CheckedAt(i) > 0
  BY <1>1, <1>2, <1>3
<1>6. \A i \in 0 .. Len(ledger) : Published(i) \in Nat /\ CheckedAt(i) \in Nat
  <2>1. \A i \in 0 .. Len(ledger) : i = 0 \/ i \in 1 .. Len(ledger)
    BY <1>1
  <2> QED
    BY <1>4, <1>5, <2>1
<1>7. /\ clock \in Nat /\ serving \in Nat /\ staged \in Nat /\ loads \in Nat
      /\ \A r \in reports : r \in Nat /\ r > 0
  BY BoundAssumption DEF Typed, Time, Dataset
<1>8. LastPublished = Published(Len(ledger))
  BY <1>1 DEF LastPublished, Published
<1> QED
  BY <1>1, <1>3, <1>4, <1>5, <1>6, <1>7, <1>8

\* The last served check is the last publication's or a later report's, and no
\* candidate's.
LEMMA LastServed ==
    ASSUME Typed, Database
    PROVE  /\ LastServedCheck \in Time /\ LastServedCheck <= clock
           /\ \A i \in 0 .. Len(ledger) : LastServedCheck = CheckedAt(i) => i = Len(ledger)
           /\ ~Masked => LastServedCheck = CheckedAt(Len(ledger))
           /\ run = "loaded" => LastServedCheck # LastLoaded
<1>1. PICK n \in Nat : n = Len(ledger)
  BY LedgerIs
<1>2. PICK k \in Nat : k = clock /\ k \in Time
  BY LedgerIs DEF Typed
<1>3. /\ \A i \in 1 .. n : /\ CheckedAt(i) \in Nat /\ CheckedAt(i) > 0 /\ CheckedAt(i) <= k
                           /\ CheckedAt(i) <= CheckedAt(n)
      /\ \A i \in 0 .. n : CheckedAt(i) = CheckedAt(n) => i = n
      /\ CheckedAt(0) = 0 /\ CheckedAt(n) \in Nat /\ CheckedAt(n) <= k
  <2>1. \A i \in 0 .. n : i = n \/ i < n
    OBVIOUS
  <2>2. \A i \in 0 .. n : i < n => CheckedAt(i) < CheckedAt(n)
    BY <1>1 DEF Database, InOrder
  <2>3. \A i \in 0 .. n : CheckedAt(i) <= k /\ CheckedAt(i) \in Nat
    BY <1>1, <1>2, LedgerIs DEF Database, Bounded
  <2>4. \A i \in 0 .. n : CheckedAt(i) <= CheckedAt(n) /\ (CheckedAt(i) = CheckedAt(n) => i = n)
    BY <2>1, <2>2, <2>3
  <2> QED
    BY <1>1, <2>3, <2>4, LedgerIs
<1>4. ChecksPublished = {CheckedAt(i) : i \in 1 .. n}
  BY <1>1, LedgerIs DEF ChecksPublished
<1>5. \A r \in reports : r \in Nat /\ r > 0 /\ r <= k
  BY <1>2, LedgerIs DEF Database, Bounded
<1>6. ServedChecks \in SUBSET (1 .. k)
  BY <1>3, <1>4, <1>5 DEF ServedChecks
<1>7. /\ LastServedCheck \in 0 .. k
      /\ \A u \in ServedChecks : u <= LastServedCheck
      /\ LastServedCheck \in ServedChecks \/ (ServedChecks = {} /\ LastServedCheck = 0)
  <2>1. CASE ServedChecks = {}
    BY <2>1 DEF LastServedCheck, Latest
  <2>2. CASE ServedChecks # {}
    <3>1. Latest(ServedChecks) \in ServedChecks /\ \A u \in ServedChecks : u <= Latest(ServedChecks)
      BY <1>6, <2>2, LatestIsOne
    <3>2. LastServedCheck = Latest(ServedChecks)
      BY DEF LastServedCheck
    <3>3. LastServedCheck \in ServedChecks /\ \A u \in ServedChecks : u <= LastServedCheck
      BY <3>1, <3>2
    <3>4. LastServedCheck \in 1 .. k
      BY <1>6, <3>3
    <3> QED
      BY <3>3, <3>4
  <2> QED
    BY <2>1, <2>2
<1>8. n # 0 => CheckedAt(n) \in ServedChecks
  BY <1>4 DEF ServedChecks
<1>9. CheckedAt(n) <= LastServedCheck
  BY <1>3, <1>7, <1>8
<1>10. ASSUME NEW i \in 0 .. n, LastServedCheck = CheckedAt(i)
       PROVE  i = n
  <2>1. CheckedAt(i) <= CheckedAt(n) /\ CheckedAt(i) \in Nat
    BY <1>3
  <2> QED
    BY <1>3, <1>9, <1>10, <2>1
<1>11. ASSUME ~Masked
       PROVE  LastServedCheck = CheckedAt(n)
  <2>1. Latest(ChecksPublished) = CheckedAt(n)
    <3>1. CASE n = 0
      BY <1>3, <1>4, <3>1 DEF Latest
    <3>2. CASE n # 0
      <4>1. ChecksPublished \in SUBSET (1 .. k) /\ ChecksPublished # {} /\ CheckedAt(n) \in ChecksPublished
        BY <1>3, <1>4, <3>2
      <4>2. /\ Latest(ChecksPublished) \in ChecksPublished
            /\ \A u \in ChecksPublished : u <= Latest(ChecksPublished)
        BY <4>1, LatestIsOne
      <4>3. PICK i \in 1 .. n : Latest(ChecksPublished) = CheckedAt(i)
        BY <1>4, <4>2
      <4> QED
        BY <1>3, <4>1, <4>2, <4>3
    <3> QED
      BY <3>1, <3>2
  <2>2. \A r \in reports : r < CheckedAt(n)
    BY <1>3, <1>5, <1>11, <2>1 DEF Masked
  <2>3. \A u \in ServedChecks : u <= CheckedAt(n)
    BY <1>3, <1>4, <1>5, <2>2 DEF ServedChecks
  <2> QED
    BY <1>3, <1>7, <1>9, <2>3
<1>12. ASSUME run = "loaded"
       PROVE  LastServedCheck # LastLoaded
  <2>1. LastLoaded \in Nat /\ LastLoaded > 0 /\ LastLoaded \notin reports
    BY <1>2, <1>12 DEF Database, CandidateIsNew
  <2>2. \A i \in 1 .. n : CheckedAt(i) < LastLoaded
    BY <1>1, <1>12 DEF Database, CandidateIsNew
  <2>3. LastLoaded \notin ServedChecks
    BY <1>3, <1>4, <2>1, <2>2 DEF ServedChecks
  <2> QED
    BY <1>7, <2>1, <2>3
<1>13. LastServedCheck \in Time /\ LastServedCheck <= clock
  BY <1>2, <1>7, BoundAssumption DEF Time
<1> QED
  BY <1>1, <1>10, <1>11, <1>12, <1>13

-----------------------------------------------------------------------------
(* The database, step by step *)

\* Everything but what the database holds.
TypedElsewhere ==
    /\ cache \in View /\ thread \in [Thread -> Request]
    /\ run \in {"idle", "loaded", "reload", "reloading", "revalidate"}
    /\ page \in [from : SUBSET Dataset, stale : BOOLEAN]
    /\ told \in Dataset /\ faults \in Nat

TypedDatabase ==
    /\ serving \in Dataset /\ staged \in Dataset /\ loads \in Dataset
    /\ ledger \in Seq(Publication)
    /\ reports \in SUBSET (Time \ {0}) /\ clock \in Time
    /\ restored \in BOOLEAN

LEMMA TypedIs == Typed <=> TypedDatabase /\ TypedElsewhere
BY DEF Typed, TypedDatabase, TypedElsewhere

LEMMA LoadKeepsDatabase ==
    ASSUME Typed, Database, Load
    PROVE  TypedDatabase' /\ Database' /\ LastLoaded' = clock + 1
<1>1. /\ loads' = loads + 1 /\ staged' = loads + 1 /\ clock' = clock + 1 /\ run' = "loaded"
      /\ serving' = serving /\ ledger' = ledger /\ reports' = reports /\ restored' = restored
      /\ loads < MaxDataset /\ clock < MaxCheck
  BY DEF Load
<1>2. /\ clock \in Nat /\ serving \in Nat /\ staged \in Nat /\ loads \in Nat
      /\ \A i \in 0 .. Len(ledger) : Published(i) \in Nat /\ CheckedAt(i) \in Nat
      /\ LastPublished = Published(Len(ledger)) /\ Len(ledger) \in Nat
  BY LedgerIs
<1>3. TypedDatabase'
  BY <1>1, <1>2, BoundAssumption DEF Typed, TypedDatabase, Dataset, Time
<1>4. \A i : Published(i)' = Published(i) /\ CheckedAt(i)' = CheckedAt(i)
  BY <1>1 DEF Published, CheckedAt
<1>5. Strayed' = Strayed /\ LastPublished' = LastPublished
  BY <1>1 DEF Strayed, LastPublished
<1>6. /\ serving <= loads /\ staged <= loads
      /\ \A i \in 0 .. Len(ledger) : Published(i) <= loads /\ CheckedAt(i) <= clock
      /\ \A r \in reports : r <= clock /\ r \in Nat
  BY LedgerIs DEF Database, Bounded
<1>7. InOrder'
  BY <1>1, <1>4 DEF Database, InOrder
<1>8. NothingOlder'
  <2>1. \A i \in 0 .. Len(ledger) : Published(i) <= serving /\ Published(i) <= loads + 1
    BY <1>2, <1>6 DEF Database, NothingOlder
  <2> QED
    BY <1>1, <1>4, <2>1 DEF NothingOlder
<1>9. StrayedForGood'
  <2>1. LastPublished <= loads /\ LastPublished \in Nat
    BY <1>2, <1>6
  <2> QED
    BY <1>1, <1>2, <1>5, <2>1 DEF StrayedForGood
<1>10. Bounded'
  <2>1. \A i \in 0 .. Len(ledger) : Published(i) <= loads + 1 /\ CheckedAt(i) <= clock + 1
    BY <1>2, <1>6
  <2>2. \A r \in reports : r <= clock + 1
    BY <1>2, <1>6
  <2> QED
    BY <1>1, <1>2, <1>4, <1>6, <2>1, <2>2 DEF Bounded
<1>11. CandidateIsNew' /\ LastLoaded' = clock + 1
  <2>1. PICK m \in Nat : m = clock + 1
    BY <1>2
  <2>2. PICK S : S = 1 .. m \ reports
    OBVIOUS
  <2>3. S \in SUBSET (1 .. m) /\ m \in S
    BY <1>2, <1>6, <2>1, <2>2
  <2>4. Latest(S) \in S /\ \A u \in S : u <= Latest(S)
    BY <2>3, LatestIsOne
  <2>5. Latest(S) = m
    <3>1. Latest(S) \in 1 .. m /\ m <= Latest(S)
      BY <2>3, <2>4
    <3> QED
      BY <3>1
  <2>6. 1 .. clock' \ reports' = S
    BY <1>1, <2>1, <2>2
  <2>7. LastLoaded' = m
    BY <2>5, <2>6 DEF LastLoaded
  <2>8. \A i \in 0 .. Len(ledger) : Published(i) < loads + 1 /\ CheckedAt(i) < m
    BY <1>2, <1>6, <2>1
  <2> QED
    BY <1>1, <1>4, <2>1, <2>3, <2>6, <2>7, <2>8 DEF CandidateIsNew
<1> QED
  BY <1>3, <1>7, <1>8, <1>9, <1>10, <1>11 DEF Database

LEMMA PromoteKeepsDatabase ==
    ASSUME Typed, Database, Promote
    PROVE  /\ TypedDatabase' /\ Database'
           /\ \E n \in Nat :
                /\ n = Len(ledger) /\ Len(ledger') = n + 1
                /\ \A i \in 0 .. n : Published(i)' = Published(i) /\ CheckedAt(i)' = CheckedAt(i)
                /\ CheckedAt(n + 1)' = LastLoaded /\ Published(n + 1)' = staged
<1>1. /\ serving' = staged /\ staged' = serving /\ run = "loaded" /\ run' = "reload"
      /\ ledger' = Append(ledger, [check |-> LastLoaded, dataset |-> staged])
      /\ loads' = loads /\ clock' = clock /\ reports' = reports /\ restored' = restored
  BY DEF Promote
<1>2. PICK n \in Nat : n = Len(ledger)
  BY LedgerIs
<1>3. PICK p : p = [check |-> LastLoaded, dataset |-> staged]
  OBVIOUS
<1>4. /\ clock \in Nat /\ serving \in Nat /\ staged \in Nat /\ loads \in Nat
      /\ \A i \in 0 .. n : Published(i) \in Nat /\ CheckedAt(i) \in Nat
      /\ Published(0) = 0 /\ CheckedAt(0) = 0
      /\ \A i \in 1 .. n : Published(i) = ledger[i].dataset /\ CheckedAt(i) = ledger[i].check
  BY <1>2, LedgerIs
<1>5. /\ LastLoaded \in Nat /\ LastLoaded > 0 /\ LastLoaded <= clock /\ staged > 0
      /\ \A i \in 0 .. n : Published(i) < staged /\ CheckedAt(i) < LastLoaded
  <2>1. LastLoaded \in 1 .. clock \ reports
    BY <1>1 DEF Database, CandidateIsNew
  <2>2. \A i \in 0 .. n : Published(i) < staged /\ CheckedAt(i) < LastLoaded
    BY <1>1, <1>2 DEF Database, CandidateIsNew
  <2> QED
    BY <1>4, <2>1, <2>2
<1>6. p \in Publication
  BY <1>3, <1>4, <1>5, BoundAssumption DEF Publication, Typed, Time, Dataset, Empty
<1>7. /\ ledger' \in Seq(Publication) /\ Len(ledger') = n + 1
      /\ \A i \in 1 .. n : ledger'[i] = ledger[i]
      /\ ledger'[n + 1] = p
  <2>1. ledger \in Seq(Publication) /\ ledger' = Append(ledger, p)
    BY <1>1, <1>3 DEF Typed
  <2> QED
    BY <1>2, <1>6, <2>1
<1>8. \A i \in 0 .. n : Published(i)' = Published(i) /\ CheckedAt(i)' = CheckedAt(i)
  <2>1. \A i \in 0 .. n : i = 0 \/ i \in 1 .. n
    OBVIOUS
  <2> QED
    BY <1>7, <2>1 DEF Published, CheckedAt
<1>9. Published(n + 1)' = staged /\ CheckedAt(n + 1)' = LastLoaded
  <2>1. p.dataset = staged /\ p.check = LastLoaded
    BY <1>3
  <2> QED
    BY <1>7, <2>1 DEF Published, CheckedAt
<1>10. TypedDatabase'
  BY <1>1, <1>7 DEF Typed, TypedDatabase
<1>11. /\ \A i \in 0 .. n + 1 : i \in 0 .. n \/ i = n + 1
       /\ n + 1 \in 0 .. n + 1 /\ \A i \in 0 .. n : i \in 0 .. n + 1 /\ i < n + 1
  OBVIOUS
<1>12. InOrder'
  <2>1. ASSUME NEW i \in 0 .. n + 1, NEW j \in 0 .. n + 1, i < j
        PROVE  CheckedAt(i)' < CheckedAt(j)' /\ Published(i)' < Published(j)'
    <3>1. i \in 0 .. n
      BY <2>1
    <3>2. CASE j \in 0 .. n
      BY <1>2, <1>8, <2>1, <3>1, <3>2 DEF Database, InOrder
    <3>3. CASE j = n + 1
      BY <1>5, <1>8, <1>9, <3>1, <3>3
    <3> QED
      BY <1>11, <3>2, <3>3
  <2> QED
    BY <1>7, <2>1 DEF InOrder
<1>13. NothingOlder'
  <2>1. \A i \in 0 .. n : Published(i) <= staged /\ Published(i) <= serving
    BY <1>2, <1>4, <1>5 DEF Database, NothingOlder
  <2>2. \A i \in 0 .. n + 1 : Published(i)' <= serving' /\ (i < n + 1 => Published(i)' <= staged')
    BY <1>1, <1>4, <1>8, <1>9, <1>11, <2>1
  <2> QED
    BY <1>7, <2>2 DEF NothingOlder
<1>14. StrayedForGood'
  <2>1. ledger' # << >>
    BY <1>7, <1>10, EmptySeq DEF TypedDatabase
  <2>2. LastPublished' = staged
    BY <1>3, <1>7, <2>1 DEF LastPublished
  <2> QED
    BY <1>1, <2>2 DEF StrayedForGood, Strayed
<1>15. Bounded'
  <2>1. /\ serving <= loads /\ staged <= loads
        /\ \A i \in 0 .. n : Published(i) <= loads /\ CheckedAt(i) <= clock
        /\ \A r \in reports : r <= clock
    BY <1>2 DEF Database, Bounded
  <2>2. \A i \in 0 .. n + 1 : Published(i)' <= loads /\ CheckedAt(i)' <= clock
    BY <1>5, <1>8, <1>9, <1>11, <2>1
  <2> QED
    BY <1>1, <1>7, <2>1, <2>2 DEF Bounded
<1>16. CandidateIsNew'
  BY <1>1 DEF CandidateIsNew
<1>17. Database'
  BY <1>12, <1>13, <1>14, <1>15, <1>16 DEF Database
<1> QED
  BY <1>2, <1>7, <1>8, <1>9, <1>10, <1>17

LEMMA RollbackKeepsDatabase ==
    ASSUME Typed, Database, Rollback
    PROVE  /\ TypedDatabase' /\ Database'
           /\ Len(ledger) \in Nat \ {0} /\ Len(ledger') = Len(ledger) - 1
           /\ \A i \in 0 .. Len(ledger') : Published(i)' = Published(i) /\ CheckedAt(i)' = CheckedAt(i)
<1>1. /\ serving' = staged /\ staged' = serving /\ run = "idle" /\ run' = run
      /\ ledger # << >> /\ ledger' = SubSeq(ledger, 1, Len(ledger) - 1)
      /\ loads' = loads /\ clock' = clock /\ reports' = reports /\ restored' = TRUE
  BY DEF Rollback
<1>2. PICK m \in Nat : m = Len(ledger) - 1 /\ Len(ledger) = m + 1
  <2>1. Len(ledger) \in Nat /\ Len(ledger) # 0
    BY <1>1, LedgerIs
  <2>2. Len(ledger) - 1 \in Nat /\ Len(ledger) = Len(ledger) - 1 + 1
    BY <2>1
  <2> QED
    BY <2>2
<1>3. /\ clock \in Nat /\ serving \in Nat /\ staged \in Nat /\ loads \in Nat
      /\ \A i \in 0 .. m + 1 : Published(i) \in Nat /\ CheckedAt(i) \in Nat
  BY <1>2, LedgerIs
<1>4. /\ ledger' \in Seq(Publication) /\ Len(ledger') = m
      /\ \A i \in 1 .. m : ledger'[i] = ledger[i]
  <2>1. ledger' = SubSeq(ledger, 1, m)
    BY <1>1, <1>2
  <2>2. \A i \in 1 .. m : ledger[i] \in Publication
    BY <1>2, LedgerIs
  <2>3. /\ SubSeq(ledger, 1, m) \in Seq(Publication)
        /\ Len(SubSeq(ledger, 1, m)) = IF 1 <= m THEN m - 1 + 1 ELSE 0
        /\ \A i \in 1 .. m - 1 + 1 : SubSeq(ledger, 1, m)[i] = ledger[1 + i - 1]
    BY <2>2, SubSeqProperties
  <2>4. m - 1 + 1 = m /\ \A i \in 1 .. m : 1 + i - 1 = i
    OBVIOUS
  <2> QED
    BY <2>1, <2>3, <2>4
<1>5. \A i \in 0 .. m : Published(i)' = Published(i) /\ CheckedAt(i)' = CheckedAt(i)
  <2>1. \A i \in 0 .. m : i = 0 \/ i \in 1 .. m
    OBVIOUS
  <2> QED
    BY <1>4, <2>1 DEF Published, CheckedAt
<1>6. TypedDatabase'
  BY <1>1, <1>4 DEF Typed, TypedDatabase
<1>7. \A i \in 0 .. m : i \in 0 .. m + 1 /\ i < m + 1
  OBVIOUS
<1>8. InOrder'
  BY <1>2, <1>4, <1>5, <1>7 DEF Database, InOrder
<1>9. \A i \in 0 .. m : Published(i) <= staged /\ Published(i) < serving
  <2>1. \A i \in 0 .. m : Published(i) <= staged /\ Published(i) < Published(m + 1)
    BY <1>2, <1>7 DEF Database, NothingOlder, InOrder
  <2>2. Published(m + 1) <= serving
    BY <1>2 DEF Database, NothingOlder
  <2> QED
    BY <1>3, <1>7, <2>1, <2>2
<1>10. NothingOlder'
  <2>1. \A i \in 0 .. m : Published(i)' <= serving' /\ Published(i)' <= staged'
    BY <1>1, <1>3, <1>5, <1>7, <1>9
  <2> QED
    BY <1>4, <2>1 DEF NothingOlder
<1>11. StrayedForGood'
  <2>1. LastPublished' = Published(m)'
    BY <1>4, <1>6, EmptySeq DEF LastPublished, Published, TypedDatabase
  <2>2. Published(m)' < serving /\ Published(m)' \in Nat
    BY <1>3, <1>5, <1>7, <1>9
  <2> QED
    BY <1>1, <1>3, <2>1, <2>2 DEF StrayedForGood
<1>12. Bounded'
  BY <1>1, <1>2, <1>4, <1>5, <1>7 DEF Database, Bounded
<1>13. CandidateIsNew'
  BY <1>1 DEF CandidateIsNew
<1> QED
  BY <1>2, <1>4, <1>5, <1>6, <1>8, <1>10, <1>11, <1>12, <1>13 DEF Database

\* A check written by hand.
LEMMA ReportKeepsDatabase ==
    ASSUME Typed, Database, Report
    PROVE  /\ TypedDatabase' /\ Database' /\ LastLoaded' = LastLoaded
<1>1. /\ clock' = clock + 1 /\ reports' = reports \cup {clock + 1} /\ clock < MaxCheck
      /\ serving' = serving /\ staged' = staged /\ loads' = loads /\ ledger' = ledger
      /\ restored' = restored /\ run' = run
  BY DEF Report
<1>2. /\ clock \in Nat /\ \A r \in reports : r \in Nat /\ r <= clock
      /\ \A i \in 0 .. Len(ledger) : CheckedAt(i) \in Nat /\ CheckedAt(i) <= clock
  BY LedgerIs DEF Database, Bounded
<1>3. TypedDatabase'
  <2>1. clock + 1 \in Time /\ clock + 1 # 0
    BY <1>1, <1>2, BoundAssumption DEF Time
  <2> QED
    BY <1>1, <2>1 DEF Typed, TypedDatabase
<1>4. 1 .. clock' \ reports' = 1 .. clock \ reports
  <2>1. \A i \in 1 .. clock + 1 : i \in 1 .. clock \/ i = clock + 1
    BY <1>2
  <2>2. \A i \in 1 .. clock : i \in 1 .. clock + 1 /\ i # clock + 1
    BY <1>2
  <2> QED
    BY <1>1, <2>1, <2>2
<1>5. LastLoaded' = LastLoaded
  BY <1>4 DEF LastLoaded
<1>6. /\ \A i : Published(i)' = Published(i) /\ CheckedAt(i)' = CheckedAt(i)
      /\ Strayed' = Strayed /\ LastPublished' = LastPublished
  BY <1>1 DEF Published, CheckedAt, Strayed, LastPublished
<1>7. InOrder' /\ NothingOlder' /\ StrayedForGood'
  BY <1>1, <1>6 DEF Database, InOrder, NothingOlder, StrayedForGood
<1>8. Bounded'
  <2>1. \A i \in 0 .. Len(ledger) : CheckedAt(i) <= clock + 1
    BY <1>2
  <2>2. \A r \in reports' : r <= clock + 1
    BY <1>1, <1>2
  <2> QED
    BY <1>1, <1>6, <2>1, <2>2 DEF Database, Bounded
<1>9. CandidateIsNew'
  BY <1>1, <1>4, <1>5, <1>6 DEF Database, CandidateIsNew
<1> QED
  BY <1>3, <1>5, <1>7, <1>8, <1>9 DEF Database

\* The steps that leave the database alone.
LEMMA OthersKeepDatabase ==
    ASSUME Typed, Database, UNCHANGED database, run' = "loaded" => run = "loaded"
    PROVE  TypedDatabase' /\ Database'
<1>1. /\ serving' = serving /\ staged' = staged /\ loads' = loads /\ ledger' = ledger
      /\ reports' = reports /\ clock' = clock /\ restored' = restored
  BY DEF database
<1>2. /\ \A i : Published(i)' = Published(i) /\ CheckedAt(i)' = CheckedAt(i)
      /\ Strayed' = Strayed /\ LastPublished' = LastPublished /\ LastLoaded' = LastLoaded
  BY <1>1 DEF Published, CheckedAt, Strayed, LastPublished, LastLoaded
<1>3. TypedDatabase'
  BY <1>1 DEF Typed, TypedDatabase
<1>4. InOrder' /\ NothingOlder' /\ StrayedForGood' /\ Bounded'
  BY <1>1, <1>2 DEF Database, InOrder, NothingOlder, StrayedForGood, Bounded
<1>5. CandidateIsNew'
  BY <1>1, <1>2 DEF Database, CandidateIsNew
<1> QED
  BY <1>3, <1>4, <1>5 DEF Database

-----------------------------------------------------------------------------
(* The types of requests and views *)

LEMMA IdleIs ==
    /\ NoView \in View /\ NoView.check = 0 /\ NoView.checked = 0 /\ NoView.from = {}
    /\ Idle \in Request /\ Idle.step = "idle" /\ Idle.leg = 1 /\ Idle.awaited = FALSE
<1>1. NoView \in View /\ NoView.check = 0 /\ NoView.checked = 0 /\ NoView.from = {}
  BY BoundAssumption DEF NoView, View, Time, Dataset, Empty
<1>2. Len(Queries) = 6
  BY DEF Queries
<1>3. Idle \in Request
  BY <1>1, <1>2 DEF Idle, Request, Ops, Steps
<1> QED
  BY <1>1, <1>3 DEF Idle

\* A call takes what is in memory or begins to build.
LEMMA CallIs ==
    ASSUME Typed, NEW r \in Request
    PROVE  /\ Call(r) \in Request
           /\ Call(r).step # "get" /\ Call(r).leg = r.leg /\ Call(r).awaited = r.awaited
           /\ Call(r).step = "building" => Call(r).view = NoView /\ Call(r).done = 0
<1>1. Len(Queries) = 6 /\ 0 \in 0 .. Len(Queries)
  BY DEF Queries
<1>2. CASE cache # NoView
  <2>1. Call(r) = [r EXCEPT !.step = "got", !.view = cache]
    BY <1>2 DEF Call
  <2> QED
    BY <2>1 DEF Typed, Request, Steps
<1>3. CASE cache = NoView
  <2>1. Call(r) = [r EXCEPT !.step = "building", !.view = NoView, !.done = 0]
    BY <1>3 DEF Call
  <2> QED
    BY <1>1, <2>1, IdleIs DEF Request, Steps
<1> QED
  BY <1>2, <1>3

LEMMA ArriveIs ==
    ASSUME Typed, NEW t \in Thread, NEW op \in Ops, Arrive(t, op)
    PROVE  \E r \in Request :
                /\ thread' = [thread EXCEPT ![t] = r]
                /\ r.step # "get" /\ r.leg = 1 /\ (r.awaited <=> op = "reload")
                /\ r.step = "building" => r.view = NoView /\ r.done = 0
<1>1. PICK q : q = [Idle EXCEPT !.op = op, !.awaited = op = "reload"]
  OBVIOUS
<1>2. q \in Request /\ q.leg = 1
  BY <1>1, IdleIs DEF Request
<1>3. q.awaited <=> op = "reload"
  BY <1>1 DEF Idle
<1>4. thread' = [thread EXCEPT ![t] = Call(q)]
  BY <1>1 DEF Arrive
<1> QED
  BY <1>2, <1>3, <1>4, CallIs

\* What a query adds to a view.
LEMMA ReadIntoIs ==
    ASSUME Typed, Database, NEW v \in View, NEW k \in 1 .. 6
    PROVE  /\ ReadInto(v, Queries[k]) \in View
           /\ ReadInto(v, Queries[k]).survivor = v.survivor
           /\ k = 2 => /\ ReadInto(v, Queries[k]).check = LastServedCheck
                       /\ ReadInto(v, Queries[k]).checked = serving
           /\ k # 2 => /\ ReadInto(v, Queries[k]).check = v.check
                       /\ ReadInto(v, Queries[k]).checked = v.checked
           /\ ReadInto(v, Queries[k]).from = IF k <= 2 THEN v.from ELSE v.from \cup {serving}
<1>1. /\ Queries[1] = "seasons stored" /\ Queries[2] = "last check" /\ Queries[3] = "names"
      /\ Queries[4] = "players" /\ Queries[5] = "bridges" /\ Queries[6] = "facts"
  BY DEF Queries
<1>2. CountOf(serving) \in {0, 1} /\ LastServedCheck \in Time /\ serving \in Dataset
  BY LastServed DEF CountOf, Typed
<1>3. CASE k = 1
  <2>1. ReadInto(v, Queries[k]) = [v EXCEPT !.count = CountOf(serving)]
    BY <1>1, <1>3 DEF ReadInto
  <2> QED
    BY <1>2, <1>3, <2>1 DEF View
<1>4. CASE k = 2
  <2>1. PICK c \in Time : c = LastServedCheck
    BY <1>2
  <2>2. ReadInto(v, Queries[k]) = [v EXCEPT !.check = c, !.checked = serving]
    BY <1>1, <1>4, <2>1 DEF ReadInto
  <2>3. PICK w : w = [v EXCEPT !.check = c, !.checked = serving]
    OBVIOUS
  <2>4. w \in View
    BY <1>2, <2>1, <2>3 DEF View
  <2>5. w.check = c /\ w.checked = serving /\ w.from = v.from /\ w.survivor = v.survivor
    BY <2>3 DEF View
  <2> QED
    BY <1>4, <2>1, <2>2, <2>3, <2>4, <2>5
<1>5. CASE k \in 3 .. 6
  <2>1. k = 3 \/ k = 4 \/ k = 5 \/ k = 6
    BY <1>5
  <2>2. Queries[k] # "seasons stored" /\ Queries[k] # "last check"
    BY <1>1, <2>1
  <2>3. ReadInto(v, Queries[k]) = [v EXCEPT !.from = @ \cup {serving}]
    BY <2>2 DEF ReadInto
  <2> QED
    BY <1>2, <1>5, <2>3 DEF View
<1> QED
  BY <1>3, <1>4, <1>5

-----------------------------------------------------------------------------
(* A request that moves on *)

LEMMA NoViewAgrees ==
    ASSUME Typed, Database
    PROVE  Agrees(NoView) /\ Whole(NoView) /\ Unseen(NoView) /\ NoView.check <= clock
<1>1. /\ \A i \in 0 .. Len(ledger) : NoView.check = CheckedAt(i) => i = 0
      /\ Published(0) = NoView.checked
  <2>1. \A i \in 0 .. Len(ledger) : i = 0 \/ i \in 1 .. Len(ledger)
    BY LedgerIs
  <2> QED
    BY <2>1, IdleIs, LedgerIs
<1>2. Agrees(NoView)
  BY <1>1 DEF Agrees
<1>3. Whole(NoView)
  BY IdleIs DEF Whole
<1>4. run = "loaded" => NoView.check # LastLoaded
  BY IdleIs DEF Database, CandidateIsNew
<1> QED
  BY <1>2, <1>3, <1>4, IdleIs, LedgerIs DEF Unseen

\* Views that were there, or are new, agree with a database that stays.
LEMMA SameViewsAgree ==
    ASSUME Typed, Database, ViewsAgree, UNCHANGED database, run' = "loaded" => run = "loaded",
           NEW v, v \in Views \cup {NoView}
    PROVE  (Agrees(v) /\ Whole(v) /\ Unseen(v) /\ v.check <= clock)'
<1>1. Agrees(v) /\ Whole(v) /\ Unseen(v) /\ v.check <= clock
  BY NoViewAgrees DEF ViewsAgree
<1>2. /\ serving' = serving /\ staged' = staged /\ loads' = loads /\ ledger' = ledger
      /\ reports' = reports /\ clock' = clock /\ restored' = restored
  BY DEF database
<1>3. \A i : Published(i)' = Published(i) /\ CheckedAt(i)' = CheckedAt(i)
  BY <1>2 DEF Published, CheckedAt
<1>4. Agrees(v)' /\ v.check <= clock'
  BY <1>1, <1>2, <1>3 DEF Agrees
<1>5. Whole(v)'
  <2>1. CheckedAt(Len(ledger))' = CheckedAt(Len(ledger))
    BY <1>2 DEF CheckedAt
  <2> QED
    BY <1>1, <1>2, <2>1 DEF Whole
<1>6. Unseen(v)'
  BY <1>1, <1>2 DEF Unseen, LastLoaded
<1> QED
  BY <1>4, <1>5, <1>6

\* One request moves on, and no table is read.
LEMMA MovesOn ==
    ASSUME ServingInv, NEW t \in Thread, NEW r \in Request,
           thread' = [thread EXCEPT ![t] = r], UNCHANGED database,
           r.step = "building" => r.view = NoView /\ r.done = 0,
           r.awaited => run' = "reloading" /\ (run = "reload" \/ thread[t].awaited),
           r.awaited /\ (r.step = "get" \/ r.leg = 2) => HasCleared(t),
           cache' \in Views /\ cache' \in View /\ (cache' # NoView => cache'.from # {}),
           \/ run' = run
           \/ run = "reload" /\ run' = "reloading"
           \/ thread[t].awaited /\ ~r.awaited /\ run' = "revalidate",
           \/ told' = told
           \/ told' = serving /\ HasCleared(t),
           page' \in [from : SUBSET Dataset, stale : BOOLEAN], faults' \in Nat
    PROVE  ServingInv'
<1>1. Typed /\ Database /\ ViewsAgree /\ Read /\ Reloading
  BY DEF ServingInv
<1>2. /\ thread \in [Thread -> Request] /\ thread' \in [Thread -> Request] /\ thread'[t] = r
      /\ \A u \in Thread \ {t} : thread'[u] = thread[u]
  BY <1>1 DEF Typed
<1>3. run' = "loaded" => run = "loaded"
  OBVIOUS
<1>4. TypedDatabase' /\ Database'
  BY <1>1, <1>3, OthersKeepDatabase
<1>5. serving' = serving
  BY DEF database
<1>6. TypedElsewhere'
  <2>1. run' \in {"idle", "loaded", "reload", "reloading", "revalidate"}
    BY <1>1 DEF Typed
  <2>2. told' \in Dataset
    BY <1>1 DEF Typed
  <2> QED
    BY <1>2, <2>1, <2>2 DEF TypedElsewhere
<1>7. ASSUME NEW u \in Building'
      PROVE  \/ u \in Building /\ thread'[u] = thread[u]
             \/ thread'[u].view = NoView /\ thread'[u].done = 0
  BY <1>2, <1>7 DEF Building
<1>8. \A v \in Views' : v \in Views \cup {NoView}
  BY <1>7 DEF Views
<1>9. ViewsAgree'
  <2>1. ASSUME NEW v \in Views'
        PROVE  Agrees(v)' /\ Whole(v)' /\ Unseen(v)' /\ v.check <= clock'
    <3>1. v \in Views \cup {NoView}
      BY <1>8
    <3> QED
      BY <1>1, <1>3, <3>1, SameViewsAgree
  <2> QED
    BY <2>1 DEF ViewsAgree
<1>10. Read'
  <2>1. ASSUME NEW u \in Building'
        PROVE  IF thread'[u].done <= 2 THEN thread'[u].view.from = {}
               ELSE thread'[u].view.from # {}
    <3>1. CASE u \in Building /\ thread'[u] = thread[u]
      BY <1>1, <3>1 DEF Read
    <3>2. CASE thread'[u].view = NoView /\ thread'[u].done = 0
      BY <3>2, IdleIs
    <3> QED
      BY <1>7, <3>1, <3>2
  <2> QED
    BY <2>1 DEF Read
<1>11. Reloading'
  <2>1. \A u \in Thread : thread[u].awaited => run = "reloading"
    BY <1>1 DEF Reloading
  <2>2. \A u, w \in Thread : thread[u].awaited /\ thread[w].awaited => u = w
    BY <1>1 DEF Reloading
  <2>3. \A u \in Thread : thread'[u].awaited => run' = "reloading"
    <3>1. ASSUME NEW u \in Thread, thread'[u].awaited, u # t
          PROVE  run' = "reloading"
      <4>1. thread[u].awaited /\ run = "reloading" /\ ~thread[t].awaited
        BY <1>2, <2>1, <2>2, <3>1
      <4> QED
        BY <4>1
    <3> QED
      BY <1>2, <3>1
  <2>4. \A u, w \in Thread : thread'[u].awaited /\ thread'[w].awaited => u = w
    <3>1. ASSUME NEW u \in Thread, thread'[u].awaited, thread'[t].awaited, u # t
          PROVE  FALSE
      <4>1. thread[u].awaited /\ run = "reloading" /\ r.awaited
        BY <1>2, <2>1, <3>1
      <4>2. thread[t].awaited
        BY <4>1
      <4> QED
        BY <2>2, <3>1, <4>1, <4>2
    <3>2. ASSUME NEW u \in Thread, NEW w \in Thread, thread'[u].awaited, thread'[w].awaited,
                 u # w, u # t, w # t
          PROVE  FALSE
      BY <1>2, <2>2, <3>2
    <3> QED
      BY <3>1, <3>2
  <2>5. /\ run \in {"reload", "reloading", "revalidate"} => serving # Empty
        /\ told # Empty => told = serving
        /\ (told # Empty \/ \E u \in Thread : HasCleared(u)) => \A v \in Views : Clean(v)
    BY <1>1 DEF Reloading
  <2>6. run' \in {"reload", "reloading", "revalidate"} => serving # Empty
    BY <2>1, <2>5
  <2>7. told' # Empty => told' = serving
    BY <2>5
  <2>8. ASSUME NEW u \in Thread, HasCleared(u)'
        PROVE  HasCleared(u)
    BY <1>2, <2>8 DEF HasCleared
  <2>9. ASSUME told' # Empty \/ \E u \in Thread : HasCleared(u)', NEW v \in Views'
        PROVE  Clean(v)'
    <3>1. \A w \in Views : Clean(w)
      BY <2>5, <2>8, <2>9
    <3>2. Clean(v)
      BY <1>8, <2>9, <3>1, IdleIs DEF Clean
    <3> QED
      BY <1>5, <3>2 DEF Clean
  <2> QED
    BY <1>5, <2>3, <2>4, <2>6, <2>7, <2>9 DEF Reloading
<1> QED
  BY <1>4, <1>6, <1>9, <1>10, <1>11, TypedIs DEF ServingInv, Typed, TypedDatabase, TypedElsewhere

LEMMA ArrivalKeeps ==
    ASSUME ServingInv, NEW t \in Thread, Visit(t) \/ Ask(t) \/ PostReload(t)
    PROVE  ServingInv'
<1>1. Typed /\ Read
  BY DEF ServingInv
<1>2. PICK op \in Ops : /\ Arrive(t, op)
                        /\ op = "reload" => run = "reload" /\ run' = "reloading"
                        /\ op # "reload" => run' = run
  BY DEF Visit, Ask, PostReload, Ops
<1>3. UNCHANGED <<database, cache, page, told, faults>>
  BY DEF Visit, Ask, PostReload
<1>4. PICK r \in Request :
         /\ thread' = [thread EXCEPT ![t] = r]
         /\ r.step # "get" /\ r.leg = 1 /\ (r.awaited <=> op = "reload")
         /\ r.step = "building" => r.view = NoView /\ r.done = 0
  BY <1>1, <1>2, ArriveIs
<1>5. cache' \in Views /\ cache' \in View /\ (cache' # NoView => cache'.from # {})
  BY <1>1, <1>3 DEF Views, Typed, Read
<1>6. page' \in [from : SUBSET Dataset, stale : BOOLEAN] /\ faults' \in Nat
  BY <1>1, <1>3 DEF Typed
<1>7. r.awaited => run' = "reloading" /\ run = "reload"
  BY <1>2, <1>4
<1>8. ~(r.step = "get" \/ r.leg = 2)
  BY <1>4
<1>9. run' = run \/ (run = "reload" /\ run' = "reloading")
  BY <1>2
<1>10. thread' = [thread EXCEPT ![t] = r]
  BY <1>4
<1>11. r.step = "building" => r.view = NoView /\ r.done = 0
  BY <1>4
<1>12. told' = told /\ UNCHANGED database
  BY <1>3
<1> QED
  BY <1>5, <1>6, <1>7, <1>8, <1>9, <1>10, <1>11, <1>12, MovesOn

LEMMA CallAgainKeeps ==
    ASSUME ServingInv, NEW t \in Thread, CallAgain(t)
    PROVE  ServingInv'
<1>1. Typed /\ Read /\ Reloading
  BY DEF ServingInv
<1>2. thread[t].step = "get" /\ UNCHANGED <<database, cache, run, page, told, faults>>
  BY DEF CallAgain
<1>3. PICK q : q = [thread[t] EXCEPT !.leg = 2]
  OBVIOUS
<1>4. thread[t] \in Request
  BY <1>1 DEF Typed
<1>5. q \in Request /\ (q.awaited <=> thread[t].awaited)
  BY <1>3, <1>4 DEF Request
<1>6. thread' = [thread EXCEPT ![t] = Call(q)]
  BY <1>3 DEF CallAgain
<1>7. /\ Call(q) \in Request /\ (Call(q).awaited <=> thread[t].awaited)
      /\ Call(q).step = "building" => Call(q).view = NoView /\ Call(q).done = 0
  BY <1>1, <1>5, CallIs
<1>8. cache' \in Views /\ cache' \in View /\ (cache' # NoView => cache'.from # {})
  BY <1>1, <1>2 DEF Views, Typed, Read
<1>9. page' \in [from : SUBSET Dataset, stale : BOOLEAN] /\ faults' \in Nat
  BY <1>1, <1>2 DEF Typed
<1>10. thread[t].awaited => run = "reloading" /\ HasCleared(t)
  BY <1>1, <1>2 DEF Reloading, HasCleared
<1> QED
  BY <1>2, <1>6, <1>7, <1>8, <1>9, <1>10, MovesOn

LEMMA BuiltKeeps ==
    ASSUME ServingInv, NEW t \in Thread, Built(t)
    PROVE  ServingInv'
<1>1. Typed /\ Read /\ Reloading
  BY DEF ServingInv
<1>2. /\ t \in Building /\ thread[t].done = 6 /\ cache' = Kept(thread[t].view)
      /\ UNCHANGED <<database, run, page, told, faults>>
  BY DEF Built, Queries
<1>3. PICK r : r = [thread[t] EXCEPT !.step = "got"]
  OBVIOUS
<1>4. thread[t] \in Request
  BY <1>1 DEF Typed
<1>5. /\ r \in Request /\ r.step = "got" /\ r.leg = thread[t].leg
      /\ r.awaited <=> thread[t].awaited
  BY <1>3, <1>4 DEF Request, Steps
<1>6. thread' = [thread EXCEPT ![t] = r]
  BY <1>3 DEF Built
<1>7. cache' = cache \/ cache' = thread[t].view
  BY <1>2 DEF Kept
<1>8. thread[t].view.from # {} /\ thread[t].view \in View
  BY <1>1, <1>2, <1>4 DEF Read, Request
<1>9. cache' \in Views /\ cache' \in View /\ (cache' # NoView => cache'.from # {})
  BY <1>1, <1>2, <1>7, <1>8 DEF Views, Typed, Read
<1>10. page' \in [from : SUBSET Dataset, stale : BOOLEAN] /\ faults' \in Nat
  BY <1>1, <1>2 DEF Typed
<1>11. thread[t].awaited => run = "reloading"
  BY <1>1 DEF Reloading
<1>12. r.awaited /\ (r.step = "get" \/ r.leg = 2) => HasCleared(t)
  BY <1>5 DEF HasCleared
<1> QED
  BY <1>2, <1>5, <1>6, <1>9, <1>10, <1>11, <1>12, MovesOn

LEMMA AnswerKeeps ==
    ASSUME ServingInv, NEW t \in Thread, AnswerPage(t) \/ AnswerOther(t) \/ ReloadAnswer(t)
    PROVE  ServingInv'
<1>1. Typed /\ Read /\ Reloading
  BY DEF ServingInv
<1>2. thread' = [thread EXCEPT ![t] = Idle] /\ UNCHANGED <<database, cache, faults>>
  BY DEF AnswerPage, AnswerOther, ReloadAnswer
<1>3. cache' \in Views /\ cache' \in View /\ (cache' # NoView => cache'.from # {})
  BY <1>1, <1>2 DEF Views, Typed, Read
<1>4. page' \in [from : SUBSET Dataset, stale : BOOLEAN] /\ faults' \in Nat
  <2>1. thread[t].view.from \in SUBSET Dataset
    BY <1>1 DEF Typed, Request, View
  <2>2. page' = page \/ page' = [from |-> thread[t].view.from, stale |-> FALSE]
    BY DEF AnswerPage, AnswerOther, ReloadAnswer
  <2>3. PICK from \in SUBSET Dataset : from = thread[t].view.from
    BY <2>1
  <2>4. [from |-> from, stale |-> FALSE] \in [from : SUBSET Dataset, stale : BOOLEAN]
    OBVIOUS
  <2>5. page \in [from : SUBSET Dataset, stale : BOOLEAN] /\ faults \in Nat
    BY <1>1 DEF Typed
  <2> QED
    BY <1>2, <2>2, <2>3, <2>4, <2>5
<1>5. \/ run' = run /\ told' = told
      \/ /\ thread[t].awaited /\ run' = "revalidate"
         /\ told' = serving /\ HasCleared(t)
  BY DEF AnswerPage, AnswerOther, ReloadAnswer, HasCleared
<1> QED
  BY <1>2, <1>3, <1>4, <1>5, IdleIs, MovesOn

-----------------------------------------------------------------------------
(* Reading a table *)

LEMMA QueryKeeps ==
    ASSUME ServingInv, NEW t \in Thread, Query(t)
    PROVE  ServingInv'
<1>1. Typed /\ Database /\ ViewsAgree /\ Read /\ Reloading
  BY DEF ServingInv
<1>2. /\ t \in Building /\ UNCHANGED <<database, cache, run, page, told, faults>>
      /\ thread[t].done < Len(Queries)
  BY DEF Query
<1>3. thread[t] \in Request /\ thread[t].done \in 0 .. 6 /\ Len(Queries) = 6
  BY <1>1 DEF Typed, Request, Queries
<1>4. PICK k \in 1 .. 6 : k = thread[t].done + 1
  BY <1>2, <1>3
<1>5. PICK v \in View : v = thread[t].view /\ v \in Views
  BY <1>2, <1>3 DEF Views, Request
<1>6. PICK w : w = ReadInto(v, Queries[k])
  OBVIOUS
<1>7. /\ w \in View /\ w.survivor = v.survivor
      /\ k = 2 => w.check = LastServedCheck /\ w.checked = serving
      /\ k # 2 => w.check = v.check /\ w.checked = v.checked
      /\ w.from = IF k <= 2 THEN v.from ELSE v.from \cup {serving}
  BY <1>1, <1>6, ReadIntoIs
<1>8. PICK r : r = [thread[t] EXCEPT !.view = w, !.done = k]
  OBVIOUS
<1>9. /\ r \in Request /\ r.view = w /\ r.done = k /\ r.step = thread[t].step
      /\ r.leg = thread[t].leg /\ (r.awaited <=> thread[t].awaited)
  <2>1. w \in View /\ k \in 0 .. Len(Queries)
    BY <1>3, <1>4, <1>7
  <2>2. PICK q \in Request : q = thread[t]
    BY <1>3
  <2>3. r = [q EXCEPT !.view = w, !.done = k]
    BY <1>8, <2>2
  <2>4. r \in Request
    BY <2>1, <2>3 DEF Request
  <2>5. /\ r.view = w /\ r.done = k /\ r.step = q.step
        /\ r.leg = q.leg /\ (r.awaited <=> q.awaited)
    BY <2>2, <2>3 DEF Request
  <2> QED
    BY <2>2, <2>4, <2>5
<1>10. thread' = [thread EXCEPT ![t] = r]
  BY <1>1, <1>3, <1>4, <1>5, <1>6, <1>8 DEF Query, Typed
<1>11. /\ thread' \in [Thread -> Request] /\ thread'[t] = r
       /\ \A u \in Thread \ {t} : thread'[u] = thread[u]
  BY <1>1, <1>9, <1>10 DEF Typed
<1>12. TypedDatabase' /\ Database' /\ TypedElsewhere'
  BY <1>1, <1>2, <1>11, OthersKeepDatabase DEF Typed, TypedElsewhere
<1>13. Building' = Building /\ \A u \in Building' : u # t => thread'[u] = thread[u]
  BY <1>9, <1>11 DEF Building
<1>14. \A x \in Views' : x \in Views \/ x = w
  BY <1>2, <1>9, <1>11, <1>13 DEF Views
<1>15. /\ serving' = serving /\ staged' = staged /\ ledger' = ledger /\ clock' = clock
       /\ reports' = reports /\ restored' = restored /\ run' = run
  BY <1>2 DEF database
<1>16. \A i : Published(i)' = Published(i) /\ CheckedAt(i)' = CheckedAt(i)
  BY <1>15 DEF Published, CheckedAt
<1>17. Agrees(v) /\ Whole(v) /\ Unseen(v) /\ v.check <= clock
  BY <1>1, <1>5 DEF ViewsAgree
<1>18. v.from = {} \/ k > 3
  <2>1. k <= 3 => thread[t].done <= 2
    BY <1>3, <1>4
  <2> QED
    BY <1>1, <1>2, <1>5, <2>1 DEF Read
<1>19. Agrees(w)
  <2>1. CASE k # 2
    BY <1>7, <1>17, <2>1 DEF Agrees
  <2>2. CASE k = 2
    <3> SUFFICES ASSUME NEW i \in 0 .. Len(ledger), LastServedCheck = CheckedAt(i)
                 PROVE  serving = Published(i) \/ Published(i) \notin {serving, staged}
      BY <1>7, <2>2 DEF Agrees
    <3>1. Published(i) = LastPublished
      BY <1>1, LastServed, LedgerIs
    <3> QED
      BY <1>1, <3>1 DEF Database, StrayedForGood, Strayed
  <2> QED
    BY <2>1, <2>2
<1>20. Whole(w)
  <2>1. CASE k <= 2
    BY <1>7, <1>18, <2>1 DEF Whole
  <2>2. CASE k > 2
    BY <1>7, <1>17, <2>2 DEF Whole
  <2> QED
    BY <2>1, <2>2
<1>21. Unseen(w) /\ w.check <= clock
  BY <1>1, <1>7, <1>17, LastServed DEF Unseen
<1>22. ViewsAgree'
  <2>1. ASSUME NEW x \in Views'
        PROVE  Agrees(x)' /\ Whole(x)' /\ Unseen(x)' /\ x.check <= clock'
    <3>1. Agrees(x) /\ Whole(x) /\ Unseen(x) /\ x.check <= clock
      BY <1>1, <1>14, <1>19, <1>20, <1>21 DEF ViewsAgree
    <3>2. CheckedAt(Len(ledger))' = CheckedAt(Len(ledger)) /\ LastLoaded' = LastLoaded
      BY <1>15 DEF CheckedAt, LastLoaded
    <3> QED
      BY <1>15, <1>16, <3>1, <3>2 DEF Agrees, Whole, Unseen
  <2> QED
    BY <2>1 DEF ViewsAgree
<1>23. Read'
  <2>1. IF k <= 2 THEN w.from = {} ELSE w.from # {}
    BY <1>7, <1>18
  <2> QED
    BY <1>1, <1>2, <1>9, <1>11, <1>13, <2>1 DEF Read
<1>24. Reloading'
  <2>1. \A u \in Thread : /\ thread'[u].awaited <=> thread[u].awaited
                          /\ HasCleared(u)' <=> HasCleared(u)
    BY <1>9, <1>11 DEF HasCleared
  <2>2. Clean(v) => Clean(w)
    BY <1>7 DEF Clean
  <2>3. \A x \in Views' : (\A y \in Views : Clean(y)) => Clean(x)
    BY <1>5, <1>14, <2>2
  <2>4. \A x : Clean(x)' <=> Clean(x)
    BY <1>15 DEF Clean
  <2>5. told' = told
    BY <1>2
  <2> QED
    BY <1>1, <1>15, <2>1, <2>3, <2>4, <2>5 DEF Reloading
<1> QED
  BY <1>12, <1>22, <1>23, <1>24, TypedIs DEF ServingInv, Typed, TypedDatabase, TypedElsewhere

-----------------------------------------------------------------------------
(* The steps that leave every request where it is *)

\* A view that is like one there was agrees with a database that stays.
LEMMA LikeViewsAgree ==
    ASSUME Typed, Database, ViewsAgree, UNCHANGED database, run' = "loaded" => run = "loaded",
           NEW v, NEW w, v \in Views \cup {NoView},
           w.check = v.check, w.checked = v.checked, w.from = v.from
    PROVE  (Agrees(w) /\ Whole(w) /\ Unseen(w) /\ w.check <= clock)'
<1>1. (Agrees(v) /\ Whole(v) /\ Unseen(v) /\ v.check <= clock)'
  BY SameViewsAgree
<1> QED
  BY <1>1 DEF Agrees, Whole, Unseen

LEMMA SameViews ==
    ASSUME Typed, cache' = cache, Building' = Building,
           \A t \in Thread : thread'[t].view = thread[t].view /\ thread'[t].done = thread[t].done
    PROVE  /\ Views' = Views
           /\ Read => Read'
<1>1. \A t \in Building : t \in Thread
  BY DEF Building
<1>2. Views' = Views
  BY <1>1 DEF Views
<1>3. Read => Read'
  BY <1>1 DEF Read
<1> QED
  BY <1>2, <1>3

\* The pipeline goes on or gives up, the site marks its page.
LEMMA WaitingEnds ==
    ASSUME ServingInv, UNCHANGED <<database, cache, told>>,
           \/ thread' = thread /\ (run = "reloading" => run' = "reloading")
           \/ thread' = Unawaited,
           run' \in {"idle", "loaded", "reload", "reloading", "revalidate"},
           run' \in {run, "idle"} \/ (run = "reloading" /\ run' = "reload"),
           page' \in [from : SUBSET Dataset, stale : BOOLEAN], faults' \in Nat
    PROVE  ServingInv'
<1>1. Typed /\ Database /\ ViewsAgree /\ Read /\ Reloading
  BY DEF ServingInv
<1>2. /\ thread' \in [Thread -> Request]
      /\ \A t \in Thread : /\ thread'[t].view = thread[t].view /\ thread'[t].done = thread[t].done
                           /\ thread'[t].step = thread[t].step /\ thread'[t].leg = thread[t].leg
                           /\ thread'[t].awaited =>
                                thread[t].awaited /\ (run = "reloading" => run' = "reloading")
  <2>1. CASE thread' = thread /\ (run = "reloading" => run' = "reloading")
    BY <1>1, <2>1 DEF Typed
  <2>2. CASE thread' = Unawaited
    <3>1. ASSUME NEW t \in Thread
          PROVE  /\ thread'[t] \in Request /\ thread'[t].awaited = FALSE
                 /\ thread'[t].view = thread[t].view /\ thread'[t].done = thread[t].done
                 /\ thread'[t].step = thread[t].step /\ thread'[t].leg = thread[t].leg
      <4>1. thread'[t] = [thread[t] EXCEPT !.awaited = FALSE]
        BY <2>2 DEF Unawaited
      <4>2. PICK q \in Request : q = thread[t]
        BY <1>1 DEF Typed
      <4>3. thread'[t] = [q EXCEPT !.awaited = FALSE]
        BY <4>1, <4>2
      <4> QED
        BY <4>2, <4>3 DEF Request
    <3>2. thread' = [t \in Thread |-> thread'[t]]
      BY <2>2 DEF Unawaited
    <3> QED
      BY <3>1, <3>2
  <2> QED
    BY <2>1, <2>2
<1>3. Building' = Building
  BY <1>2 DEF Building
<1>4. Views' = Views /\ Read'
  BY <1>1, <1>2, <1>3, SameViews
<1>5. run' = "loaded" => run = "loaded"
  OBVIOUS
<1>6. TypedDatabase' /\ Database'
  BY <1>1, <1>5, OthersKeepDatabase
<1>7. TypedElsewhere'
  BY <1>1, <1>2 DEF Typed, TypedElsewhere
<1>8. ViewsAgree'
  BY <1>1, <1>4, <1>5, SameViewsAgree DEF ViewsAgree
<1>9. Reloading'
  <2>1. /\ serving' = serving /\ told' = told
        /\ \A v : Clean(v)' <=> Clean(v)
    BY DEF database, Clean
  <2>2. \A t \in Thread : HasCleared(t)' => HasCleared(t)
    BY <1>2 DEF HasCleared
  <2>3. \A t \in Thread : thread'[t].awaited => run' = "reloading"
    BY <1>1, <1>2 DEF Reloading
  <2>4. \A t, u \in Thread : thread'[t].awaited /\ thread'[u].awaited => t = u
    BY <1>1, <1>2 DEF Reloading
  <2>5. run' \in {"reload", "reloading", "revalidate"} => serving' # Empty
    BY <1>1, <2>1 DEF Reloading
  <2>6. told' # Empty => told' = serving'
    BY <1>1, <2>1 DEF Reloading
  <2>7. (told' # Empty \/ \E t \in Thread : HasCleared(t)') => \A v \in Views' : Clean(v)'
    BY <1>1, <1>4, <2>1, <2>2 DEF Reloading
  <2> QED
    BY <2>3, <2>4, <2>5, <2>6, <2>7 DEF Reloading
<1> QED
  BY <1>4, <1>6, <1>7, <1>8, <1>9, TypedIs DEF ServingInv, Typed, TypedDatabase, TypedElsewhere

LEMMA PipelineKeeps ==
    ASSUME ServingInv, Refuse \/ Revalidate \/ Timeout \/ Kill \/ Expire
    PROVE  ServingInv'
<1>1. Typed /\ page \in [from : SUBSET Dataset, stale : BOOLEAN] /\ faults \in Nat
  BY DEF ServingInv, Typed
<1>2. UNCHANGED <<database, cache, told>>
  BY DEF Refuse, Revalidate, Timeout, Kill, Expire
<1>3. [page EXCEPT !.stale = TRUE] \in [from : SUBSET Dataset, stale : BOOLEAN]
  BY <1>1
<1>4. page' \in [from : SUBSET Dataset, stale : BOOLEAN]
  BY <1>1, <1>3 DEF Refuse, Revalidate, Timeout, Kill, Expire, Expired
<1>5. faults' \in Nat
  BY <1>1 DEF Refuse, Revalidate, Timeout, Kill, Expire
<1>6. \/ thread' = thread /\ (run = "reloading" => run' = "reloading")
      \/ thread' = Unawaited
  BY DEF Refuse, Revalidate, Timeout, Kill, Expire
<1>7. run' \in {run, "idle"} \/ (run = "reloading" /\ run' = "reload")
  BY DEF Refuse, Revalidate, Timeout, Kill, Expire
<1>8. run' \in {"idle", "loaded", "reload", "reloading", "revalidate"}
  BY <1>1, <1>7 DEF Typed
<1> QED
  BY <1>2, <1>4, <1>5, <1>6, <1>7, <1>8, WaitingEnds

-----------------------------------------------------------------------------
(* The process forgets its view *)

LEMMA RestartKeeps ==
    ASSUME ServingInv, Restart
    PROVE  ServingInv'
<1>1. Typed /\ Database /\ ViewsAgree /\ Reloading
  BY DEF ServingInv
<1>2. /\ cache' = NoView /\ thread' = [t \in Thread |-> Idle] /\ faults' = faults + 1
      /\ run' = (IF run = "reloading" THEN "reload" ELSE run)
      /\ UNCHANGED <<database, page, told>>
  BY DEF Restart
<1>3. /\ \A t \in Thread : thread'[t].step = "idle" /\ thread'[t].awaited = FALSE
      /\ Building' = {}
  BY <1>2, IdleIs DEF Building
<1>4. Views' = {NoView}
  BY <1>2, <1>3 DEF Views
<1>5. run' = "loaded" => run = "loaded"
  BY <1>2
<1>6. TypedDatabase' /\ Database'
  BY <1>1, <1>2, <1>5, OthersKeepDatabase
<1>7. TypedElsewhere'
  BY <1>1, <1>2, IdleIs DEF Typed, TypedElsewhere
<1>8. ViewsAgree'
  BY <1>1, <1>2, <1>4, <1>5, SameViewsAgree DEF ViewsAgree
<1>9. Read'
  BY <1>2, <1>3 DEF Read
<1>10. Reloading'
  <2>1. serving' = serving /\ told' = told
    BY <1>2 DEF database
  <2>2. Clean(NoView)'
    BY IdleIs DEF Clean
  <2>3. run' \in {"reload", "reloading", "revalidate"} =>
            run \in {"reload", "reloading", "revalidate"}
    BY <1>2
  <2> QED
    BY <1>1, <1>3, <1>4, <2>1, <2>2, <2>3 DEF Reloading
<1> QED
  BY <1>6, <1>7, <1>8, <1>9, <1>10, TypedIs DEF ServingInv, Typed, TypedDatabase, TypedElsewhere

LEMMA ReloadClearKeeps ==
    ASSUME ServingInv, NEW t \in Thread, ReloadClear(t)
    PROVE  ServingInv'
<1>1. Typed /\ Database /\ ViewsAgree /\ Read /\ Reloading
  BY DEF ServingInv
<1>2. /\ thread[t].step = "got" /\ cache' = NoView
      /\ thread' = [u \in Thread |->
            IF u = t THEN [thread[t] EXCEPT !.step = "get"]
            ELSE [thread[u] EXCEPT !.view.survivor = @ \/ u \in Building]]
      /\ UNCHANGED <<database, run, page, told, faults>>
  BY DEF ReloadClear, Cleared
<1>3. ASSUME NEW u \in Thread, u # t
      PROVE  /\ thread'[u] \in Request
             /\ thread'[u].step = thread[u].step /\ thread'[u].done = thread[u].done
             /\ thread'[u].leg = thread[u].leg /\ (thread'[u].awaited <=> thread[u].awaited)
             /\ thread'[u].view.check = thread[u].view.check
             /\ thread'[u].view.checked = thread[u].view.checked
             /\ thread'[u].view.from = thread[u].view.from
             /\ u \in Building => thread'[u].view.survivor = TRUE
  <2>1. PICK q \in Request : q = thread[u]
    BY <1>1 DEF Typed
  <2>2. PICK s \in BOOLEAN : s = (q.view.survivor \/ u \in Building)
    OBVIOUS
  <2>3. thread'[u] = [q EXCEPT !.view.survivor = s]
    BY <1>2, <1>3, <2>1, <2>2
  <2>4. PICK w : w = [q.view EXCEPT !.survivor = s]
    OBVIOUS
  <2>5. q.view \in View
    BY DEF Request
  <2>6. w \in View
    BY <2>2, <2>4, <2>5 DEF View
  <2>7. /\ w.check = q.view.check /\ w.checked = q.view.checked
        /\ w.from = q.view.from /\ w.survivor = s
    BY <2>4, <2>5 DEF View
  <2>8. thread'[u] = [q EXCEPT !.view = w]
    BY <2>3, <2>4
  <2>9. /\ thread'[u] \in Request /\ thread'[u].view = w
        /\ thread'[u].step = q.step /\ thread'[u].done = q.done
        /\ thread'[u].leg = q.leg /\ (thread'[u].awaited <=> q.awaited)
    BY <2>6, <2>8 DEF Request
  <2> QED
    BY <2>1, <2>2, <2>7, <2>9
<1>4. /\ thread'[t] \in Request /\ thread'[t].step = "get"
      /\ thread'[t].awaited <=> thread[t].awaited
  <2>1. PICK q \in Request : q = thread[t]
    BY <1>1 DEF Typed
  <2>2. thread'[t] = [q EXCEPT !.step = "get"]
    BY <1>2, <2>1
  <2> QED
    BY <2>1, <2>2 DEF Request, Steps
<1>5. thread' \in [Thread -> Request]
  <2>1. \A u \in Thread : thread'[u] \in Request
    BY <1>3, <1>4
  <2>2. thread' = [u \in Thread |-> thread'[u]]
    BY <1>2
  <2> QED
    BY <2>1, <2>2
<1>6. \A u \in Building' : u \in Building /\ u \in Thread /\ u # t
  BY <1>2, <1>3, <1>4 DEF Building
<1>7. run' = "loaded" => run = "loaded"
  BY <1>2
<1>8. TypedDatabase' /\ Database'
  BY <1>1, <1>2, <1>7, OthersKeepDatabase
<1>9. TypedElsewhere'
  BY <1>1, <1>2, <1>5, IdleIs DEF Typed, TypedElsewhere
<1>10. ViewsAgree'
  <2>1. ASSUME NEW w \in Views'
        PROVE  (Agrees(w) /\ Whole(w) /\ Unseen(w) /\ w.check <= clock)'
    <3>1. CASE w = NoView
      BY <1>1, <1>2, <1>7, <3>1, SameViewsAgree
    <3>2. CASE \E u \in Building' : w = thread'[u].view
      <4>1. PICK u \in Building' : w = thread'[u].view
        BY <3>2
      <4>2. PICK v \in Views : v = thread[u].view
        BY <1>6 DEF Views
      <4>3. w.check = v.check /\ w.checked = v.checked /\ w.from = v.from
        BY <1>3, <1>6, <4>1, <4>2
      <4> QED
        BY <1>1, <1>2, <1>7, <4>3, LikeViewsAgree
    <3> QED
      BY <1>2, <3>1, <3>2 DEF Views
  <2> QED
    BY <2>1 DEF ViewsAgree
<1>11. Read'
  <2>1. cache' = NoView
    BY <1>2
  <2>2. ASSUME NEW u \in Building'
        PROVE  IF thread'[u].done <= 2 THEN thread'[u].view.from = {}
               ELSE thread'[u].view.from # {}
    BY <1>1, <1>3, <1>6 DEF Read
  <2> QED
    BY <2>1, <2>2 DEF Read
<1>12. Reloading'
  <2>1. serving' = serving /\ told' = told /\ run' = run
    BY <1>2 DEF database
  <2>2. \A u \in Thread : thread'[u].awaited <=> thread[u].awaited
    BY <1>3, <1>4
  <2>3. \A w \in Views' : Clean(w)'
    <3>1. Clean(NoView)'
      BY IdleIs DEF Clean
    <3>2. \A u \in Building' : thread'[u].view.survivor = TRUE
      BY <1>3, <1>6
    <3> QED
      BY <1>2, <3>1, <3>2 DEF Views, Clean
  <2> QED
    BY <1>1, <2>1, <2>2, <2>3 DEF Reloading
<1> QED
  BY <1>8, <1>9, <1>10, <1>11, <1>12, TypedIs DEF ServingInv, Typed, TypedDatabase, TypedElsewhere

-----------------------------------------------------------------------------
(* The database changes under the views *)

\* The pipeline waits for no reload then, and the requests stay where they are.
LEMMA UnderViews ==
    ASSUME ServingInv, TypedDatabase', Database', cache' = cache, thread' = thread,
           page' = page, faults' \in Nat,
           run' \in {"idle", "loaded", "reload", "reloading", "revalidate"},
           run # "reloading" \/ (run' = run /\ serving' = serving),
           run' \in {"reload", "reloading", "revalidate"} => serving' # Empty,
           told' = Empty \/ (told' = told /\ serving' = serving),
           \A v \in Views : (Agrees(v) /\ Whole(v) /\ Unseen(v) /\ v.check <= clock)'
    PROVE  ServingInv'
<1>1. Typed /\ Read /\ Reloading
  BY DEF ServingInv
<1>2. Views' = Views /\ Read'
  BY <1>1, SameViews DEF Building
<1>3. TypedElsewhere'
  <2>1. told' \in Dataset
    BY <1>1, BoundAssumption DEF Typed, Dataset, Empty
  <2> QED
    BY <1>1, <2>1 DEF Typed, TypedElsewhere
<1>4. ViewsAgree'
  BY <1>2 DEF ViewsAgree
<1>5. Reloading'
  <2>1. \A t \in Thread : /\ thread'[t].awaited <=> thread[t].awaited
                          /\ HasCleared(t)' <=> HasCleared(t)
    BY DEF HasCleared
  <2>2. \A t \in Thread : thread[t].awaited => run = "reloading"
    BY <1>1 DEF Reloading
  <2>3. \A t, u \in Thread : thread[t].awaited /\ thread[u].awaited => t = u
    BY <1>1 DEF Reloading
  <2>4. told' # Empty => told' = serving'
    BY <1>1 DEF Reloading
  <2>5. ASSUME told' # Empty \/ \E t \in Thread : HasCleared(t)
        PROVE  \A v \in Views' : Clean(v)'
    <3>1. serving' = serving /\ (told # Empty \/ \E t \in Thread : HasCleared(t))
      BY <2>2, <2>5 DEF HasCleared
    <3>2. \A v \in Views : Clean(v)
      BY <1>1, <3>1 DEF Reloading
    <3> QED
      BY <1>2, <3>1, <3>2 DEF Clean
  <2> QED
    BY <2>1, <2>2, <2>3, <2>4, <2>5 DEF Reloading
<1> QED
  BY <1>2, <1>3, <1>4, <1>5, TypedIs DEF ServingInv, Typed, TypedDatabase, TypedElsewhere

LEMMA LoadKeeps ==
    ASSUME ServingInv, Load
    PROVE  ServingInv'
<1>1. Typed /\ Database /\ ViewsAgree /\ Reloading
  BY DEF ServingInv
<1>2. /\ run = "idle" /\ run' = "loaded" /\ staged' = loads + 1 /\ clock' = clock + 1
      /\ serving' = serving /\ ledger' = ledger /\ restored' = restored
      /\ cache' = cache /\ thread' = thread /\ page' = page /\ told' = told /\ faults' = faults
  BY DEF Load
<1>3. TypedDatabase' /\ Database' /\ LastLoaded' = clock + 1
  BY <1>1, LoadKeepsDatabase
<1>4. /\ clock \in Nat /\ loads \in Nat
      /\ \A i \in 0 .. Len(ledger) : Published(i) \in Nat /\ Published(i) <= loads
  BY <1>1, LedgerIs DEF Database, Bounded
<1>5. \A i : Published(i)' = Published(i) /\ CheckedAt(i)' = CheckedAt(i)
  BY <1>2 DEF Published, CheckedAt
<1>6. ASSUME NEW v \in Views
      PROVE  (Agrees(v) /\ Whole(v) /\ Unseen(v) /\ v.check <= clock)'
  <2>1. Agrees(v) /\ Whole(v) /\ v.check <= clock /\ v.check \in Nat
    <3>1. v \in View
      BY <1>1 DEF Views, Typed, Request, Building
    <3> QED
      BY <1>1, <3>1, BoundAssumption DEF ViewsAgree, View, Time
  <2>2. \A i \in 0 .. Len(ledger) : Published(i) # loads + 1
    BY <1>4
  <2>3. Agrees(v)'
    BY <1>2, <1>5, <2>1, <2>2 DEF Agrees
  <2>4. Whole(v)'
    <3>1. CheckedAt(Len(ledger))' = CheckedAt(Len(ledger))
      BY <1>2 DEF CheckedAt
    <3> QED
      BY <1>2, <2>1, <3>1 DEF Whole
  <2>5. v.check # clock + 1 /\ v.check <= clock + 1
    BY <1>4, <2>1
  <2> QED
    BY <1>2, <1>3, <2>3, <2>4, <2>5 DEF Unseen
<1>7. faults' \in Nat
  BY <1>1, <1>2 DEF Typed
<1> QED
  BY <1>2, <1>3, <1>6, <1>7, UnderViews

LEMMA PromoteKeeps ==
    ASSUME ServingInv, Promote
    PROVE  ServingInv'
<1>1. Typed /\ Database /\ ViewsAgree /\ Reloading
  BY DEF ServingInv
<1>2. /\ run = "loaded" /\ run' = "reload" /\ serving' = staged /\ staged' = serving
      /\ clock' = clock /\ restored' = restored /\ told' = Empty
      /\ cache' = cache /\ thread' = thread /\ page' = page /\ faults' = faults
  BY DEF Promote
<1>3. TypedDatabase' /\ Database'
  BY <1>1, PromoteKeepsDatabase
<1>4. PICK n \in Nat :
        /\ n = Len(ledger) /\ Len(ledger') = n + 1
        /\ \A i \in 0 .. n : Published(i)' = Published(i) /\ CheckedAt(i)' = CheckedAt(i)
        /\ CheckedAt(n + 1)' = LastLoaded /\ Published(n + 1)' = staged
  BY <1>1, PromoteKeepsDatabase
<1>5. \A i \in 0 .. n + 1 : i \in 0 .. n \/ i = n + 1
  OBVIOUS
<1>6. ASSUME NEW v \in Views
      PROVE  (Agrees(v) /\ Whole(v) /\ Unseen(v) /\ v.check <= clock)'
  <2>1. Agrees(v) /\ v.check # LastLoaded /\ v.check <= clock
    BY <1>1, <1>2 DEF ViewsAgree, Unseen
  <2>2. ASSUME NEW i \in 0 .. n + 1, v.check = CheckedAt(i)'
        PROVE  v.checked = Published(i)' \/ Published(i)' \notin {serving', staged'}
    <3>1. i \in 0 .. n /\ v.check = CheckedAt(i)
      BY <1>4, <1>5, <2>1, <2>2
    <3>2. v.checked = Published(i) \/ Published(i) \notin {serving, staged}
      BY <1>4, <2>1, <3>1 DEF Agrees
    <3> QED
      BY <1>2, <1>4, <3>1, <3>2
  <2>3. Agrees(v)'
    BY <1>4, <2>2 DEF Agrees
  <2>4. Whole(v)'
    <3>1. CheckedAt(Len(ledger))' = LastLoaded
      <4>1. PICK m : m = n + 1
        OBVIOUS
      <4>2. CheckedAt(m)' = LastLoaded /\ Len(ledger') = m
        BY <1>4, <4>1
      <4> QED
        BY <4>2 DEF CheckedAt
    <3> QED
      BY <2>1, <3>1 DEF Whole
  <2> QED
    BY <1>2, <2>1, <2>3, <2>4 DEF Unseen
<1>7. faults' \in Nat
  BY <1>1, <1>2 DEF Typed
<1>8. serving' # Empty
  <2>1. Published(0) < staged /\ Published(0) = 0 /\ staged \in Nat
    <3>1. 0 \in 0 .. Len(ledger)
      BY <1>4
    <3> QED
      BY <1>1, <1>2, <3>1, LedgerIs DEF Database, CandidateIsNew
  <2> QED
    BY <1>2, <2>1 DEF Empty
<1> QED
  BY <1>2, <1>3, <1>6, <1>7, <1>8, UnderViews

LEMMA RollbackKeeps ==
    ASSUME ServingInv, Rollback
    PROVE  ServingInv'
<1>1. Typed /\ Database /\ ViewsAgree /\ Reloading
  BY DEF ServingInv
<1>2. /\ run = "idle" /\ run' = run /\ serving' = staged /\ staged' = serving
      /\ clock' = clock /\ restored' = TRUE /\ told' = Empty
      /\ cache' = cache /\ thread' = thread /\ page' = page /\ faults' = faults + 1
  BY DEF Rollback
<1>3. /\ TypedDatabase' /\ Database'
      /\ Len(ledger) \in Nat \ {0} /\ Len(ledger') = Len(ledger) - 1
      /\ \A i \in 0 .. Len(ledger') : Published(i)' = Published(i) /\ CheckedAt(i)' = CheckedAt(i)
  BY <1>1, RollbackKeepsDatabase
<1>4. \A i \in 0 .. Len(ledger') : i \in 0 .. Len(ledger)
  BY <1>3
<1>5. ASSUME NEW v \in Views
      PROVE  (Agrees(v) /\ Whole(v) /\ Unseen(v) /\ v.check <= clock)'
  <2>1. Agrees(v) /\ v.check <= clock
    BY <1>1 DEF ViewsAgree
  <2>2. Agrees(v)'
    BY <1>2, <1>3, <1>4, <2>1 DEF Agrees
  <2> QED
    BY <1>2, <2>1, <2>2 DEF Whole, Unseen
<1>6. faults' \in Nat
  BY <1>1, <1>2 DEF Typed
<1> QED
  BY <1>1, <1>2, <1>3, <1>5, <1>6, UnderViews DEF Typed

LEMMA ReportKeeps ==
    ASSUME ServingInv, Report
    PROVE  ServingInv'
<1>1. Typed /\ Database /\ ViewsAgree /\ Reloading
  BY DEF ServingInv
<1>2. /\ run' = run /\ serving' = serving /\ staged' = staged /\ ledger' = ledger
      /\ clock' = clock + 1 /\ restored' = restored /\ told' = told
      /\ cache' = cache /\ thread' = thread /\ page' = page /\ faults' = faults + 1
  BY DEF Report
<1>3. TypedDatabase' /\ Database' /\ LastLoaded' = LastLoaded
  BY <1>1, ReportKeepsDatabase
<1>4. \A i : Published(i)' = Published(i) /\ CheckedAt(i)' = CheckedAt(i)
  BY <1>2 DEF Published, CheckedAt
<1>5. ASSUME NEW v \in Views
      PROVE  (Agrees(v) /\ Whole(v) /\ Unseen(v) /\ v.check <= clock)'
  <2>1. Agrees(v) /\ Whole(v) /\ Unseen(v) /\ v.check <= clock
    BY <1>1 DEF ViewsAgree
  <2>2. v.check \in Nat /\ clock \in Nat
    <3>1. v \in View
      BY <1>1 DEF Views, Typed, Request, Building
    <3> QED
      BY <1>1, <3>1, BoundAssumption DEF View, Time, Typed
  <2>3. v.check <= clock + 1
    BY <2>1, <2>2
  <2>4. CheckedAt(Len(ledger))' = CheckedAt(Len(ledger))
    BY <1>2 DEF CheckedAt
  <2> QED
    BY <1>2, <1>3, <1>4, <2>1, <2>3, <2>4 DEF Agrees, Whole, Unseen
<1>6. faults' \in Nat
  BY <1>1, <1>2 DEF Typed
<1>7. run' \in {"idle", "loaded", "reload", "reloading", "revalidate"}
  BY <1>1, <1>2 DEF Typed
<1>8. run' \in {"reload", "reloading", "revalidate"} => serving' # Empty
  BY <1>1, <1>2 DEF Reloading
<1> QED
  BY <1>2, <1>3, <1>5, <1>6, <1>7, <1>8, UnderViews

-----------------------------------------------------------------------------
(* The theorems *)

LEMMA StartHolds == Init => ServingInv
<1> SUFFICES ASSUME Init PROVE ServingInv
  OBVIOUS
<1>1. /\ serving = 0 /\ staged = 0 /\ loads = 0 /\ ledger = << >> /\ reports = {}
      /\ clock = 0 /\ restored = FALSE /\ cache = NoView /\ run = "idle"
      /\ thread = [t \in Thread |-> Idle] /\ told = 0 /\ faults = 0
      /\ page = [from |-> {}, stale |-> TRUE]
  BY DEF Init, Empty
<1>2. Typed
  <2>1. << >> \in Seq(Publication)
    BY EmptySeq
  <2>2. page \in [from : SUBSET Dataset, stale : BOOLEAN]
    BY <1>1
  <2>3. thread \in [Thread -> Request] /\ cache \in View
    BY <1>1, IdleIs
  <2>4. 0 \in Dataset /\ 0 \in Time
    BY BoundAssumption DEF Dataset, Time
  <2>5. reports \in SUBSET (Time \ {0}) /\ ledger \in Seq(Publication)
    BY <1>1, <2>1
  <2> QED
    BY <1>1, <2>2, <2>3, <2>4, <2>5 DEF Typed
<1>3. /\ Len(ledger) = 0 /\ Published(0) = 0 /\ CheckedAt(0) = 0
      /\ \A i \in 0 .. Len(ledger) : i = 0
  BY <1>1, <1>2, LedgerIs
<1>4. Database
  <2>1. InOrder
    BY <1>3 DEF InOrder
  <2>2. NothingOlder
    BY <1>1, <1>3 DEF NothingOlder
  <2>3. StrayedForGood
    BY <1>1 DEF StrayedForGood, Strayed, LastPublished, Empty
  <2>4. Bounded
    BY <1>1, <1>3 DEF Bounded
  <2>5. CandidateIsNew
    BY <1>1 DEF CandidateIsNew
  <2> QED
    BY <2>1, <2>2, <2>3, <2>4, <2>5 DEF Database
<1>5. Building = {} /\ \A t \in Thread : thread[t].awaited = FALSE
  BY <1>1, IdleIs DEF Building
<1>6. Views = {NoView}
  BY <1>1, <1>5 DEF Views
<1>7. ViewsAgree
  BY <1>2, <1>4, <1>6, NoViewAgrees DEF ViewsAgree
<1>8. Read
  BY <1>1, <1>5 DEF Read
<1>9. Reloading
  BY <1>1, <1>5 DEF Reloading, HasCleared, Empty
<1> QED
  BY <1>2, <1>4, <1>7, <1>8, <1>9 DEF ServingInv

LEMMA StepsKeep == ServingInv /\ [Next]_vars => ServingInv'
<1> SUFFICES ASSUME ServingInv, [Next]_vars PROVE ServingInv'
  OBVIOUS
<1>1. CASE Load
  BY <1>1, LoadKeeps
<1>2. CASE Promote
  BY <1>2, PromoteKeeps
<1>3. CASE Report
  BY <1>3, ReportKeeps
<1>4. CASE Rollback
  BY <1>4, RollbackKeeps
<1>5. CASE Refuse \/ Revalidate \/ Timeout \/ Kill \/ Expire
  BY <1>5, PipelineKeeps
<1>6. CASE Restart
  BY <1>6, RestartKeeps
<1>7. CASE \E t \in Thread : Serve(t) \/ Visit(t) \/ Ask(t) \/ PostReload(t)
  <2>1. PICK t \in Thread : Serve(t) \/ Visit(t) \/ Ask(t) \/ PostReload(t)
    BY <1>7
  <2>2. CASE Visit(t) \/ Ask(t) \/ PostReload(t)
    BY <2>2, ArrivalKeeps
  <2>3. CASE CallAgain(t)
    BY <2>3, CallAgainKeeps
  <2>4. CASE Query(t)
    BY <2>4, QueryKeeps
  <2>5. CASE Built(t)
    BY <2>5, BuiltKeeps
  <2>6. CASE AnswerPage(t) \/ AnswerOther(t) \/ ReloadAnswer(t)
    BY <2>6, AnswerKeeps
  <2>7. CASE ReloadClear(t)
    BY <2>7, ReloadClearKeeps
  <2> QED
    BY <2>1, <2>2, <2>3, <2>4, <2>5, <2>6, <2>7 DEF Serve
<1>8. CASE UNCHANGED vars
  <2>1. /\ Typed /\ UNCHANGED <<database, cache, told>> /\ thread' = thread /\ run' = run
        /\ page' = page /\ faults' = faults
    BY <1>8 DEF vars, ServingInv
  <2>2. /\ run' \in {"idle", "loaded", "reload", "reloading", "revalidate"}
        /\ page' \in [from : SUBSET Dataset, stale : BOOLEAN] /\ faults' \in Nat
    BY <2>1 DEF Typed
  <2> QED
    BY <2>1, <2>2, WaitingEnds
<1> QED
  BY <1>1, <1>2, <1>3, <1>4, <1>5, <1>6, <1>7, <1>8 DEF Next

\* The invariant that the theorems below are read off: where the times of the
\* views in memory, and of those being built, stand in the ledger of publications.
THEOREM ServingHolds == Spec => []ServingInv
<1>1. Init => ServingInv
  BY StartHolds
<1>2. ServingInv /\ [Next]_vars => ServingInv'
  BY StepsKeep
<1> QED
  BY <1>1, <1>2, PTL DEF Spec

LEMMA AgreedIsCurrent == ServingInv => UnreportedMeansCurrent
<1> SUFFICES ASSUME ServingInv, cache # NoView, Health(cache) = "ok", ~Masked
             PROVE  Current(cache) \/ (restored /\ (Strayed \/ cache.from # {cache.checked}))
  BY DEF UnreportedMeansCurrent
<1>1. Typed /\ Database /\ Agrees(cache) /\ Whole(cache) /\ cache.from # {}
  BY DEF ServingInv, ViewsAgree, Views, Read
<1>2. SameFingerprint(cache)
  BY DEF Health, AnalyticsStatus
<1>3. PICK n \in Nat : n = Len(ledger)
  BY <1>1, LedgerIs
<1>4. cache.check = CheckedAt(n) /\ n \in 0 .. Len(ledger) /\ LastPublished = Published(n)
  BY <1>1, <1>2, <1>3, LastServed, LedgerIs DEF SameFingerprint
<1>5. CASE ~restored
  <2>1. cache.from \subseteq {serving}
    BY <1>1, <1>3, <1>4, <1>5 DEF Whole
  <2> QED
    BY <1>1, <2>1 DEF Current
<1>6. CASE ~Strayed /\ cache.from = {cache.checked}
  <2>1. serving = Published(n)
    BY <1>4, <1>6 DEF Strayed
  <2>2. cache.checked = serving
    BY <1>1, <1>4, <2>1 DEF Agrees
  <2> QED
    BY <1>6, <2>2 DEF Current
<1> QED
  BY <1>1, <1>5, <1>6 DEF Typed

\* An "ok" of /health can be believed (health.py _analytics_status, build_view):
\* whatever promotions, restarts and requests came between the queries of the view
\* in memory, it is the served data, whole; but for a check written by hand, or
\* after a rollback one of the two things said there.
THEOREM OkIsBelieved == Spec => []UnreportedMeansCurrent
BY ServingHolds, AgreedIsCurrent, PTL

LEMMA ClearedIsCurrent == ServingInv => ReloadTakesEffect
<1> SUFFICES ASSUME ServingInv, told # Empty, cache # NoView
             PROVE  Current(cache) \/ cache.survivor
  BY DEF ReloadTakesEffect
<1>1. cache.from # {} /\ Clean(cache)
  BY DEF ServingInv, Reloading, Views, Read
<1> QED
  BY <1>1 DEF Clean, Current

\* An answered reload counts (internal.py reload_analytics): until the next
\* promotion or rollback the process holds nothing but the dataset it was answered
\* for, however many times it is restarted, unless a build that the clearing of the
\* cache overtook put its view there.
THEOREM ReloadsTakeEffect == Spec => []ReloadTakesEffect
BY ServingHolds, ClearedIsCurrent, PTL

=============================================================================
