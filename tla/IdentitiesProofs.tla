-------------------------- MODULE IdentitiesProofs --------------------------
(***************************************************************************)
(* What identity resolution promises, for any players, seasons, refreshes  *)
(* and edits of the mapping file: no season is lost or stands twice on one *)
(* player, and what a person confirmed stays.                              *)
(*                                                                         *)
(* The writes of merge_all delete the rows they move, so everything rests  *)
(* on Apart: when identities are resolved, one of the two providers has    *)
(* just been loaded, all its players stand on rows nobody stood on, and no *)
(* merge moves a row that another merge moves something to.                *)
(***************************************************************************)
EXTENDS Identities, FiniteSetTheorems, WellFoundedInduction, TLAPS

Typed ==
    /\ row \in SUBSET Row
    /\ bridge \in [Person -> row \cup {NoRow}]
    /\ manual \in [Perf -> BOOLEAN]
    /\ stands \in [Perf \X Season -> row \cup {NoRow}]
    /\ values \in SUBSET (row \X Nat)
    /\ evidence \in [Perf -> [Ident -> Likeness \cup {Unrelated}]]
    /\ mapping \in [Perf -> Ident \cup {NoOne}]
    /\ played \in [Perf -> SUBSET Season]
    /\ sharing \in SUBSET Perf
    /\ loads \in [Sources -> Nat]
    /\ edits \in Nat
    /\ phase \in {"idle", "loaded"}

\* A player of the identity provider stands on a row inserted for it.
OwnRow == \A t \in Ident : bridge[t] # NoRow => bridge[t][1] = t

\* Right after a load no player of one provider shares a row with the other's.
Apart ==
    phase = "loaded" =>
        \A f \in Perf, t \in Ident : bridge[f] # NoRow => bridge[f] # bridge[t]

\* A season stands on a row some player of its provider is mapped to, which a
\* purge of the identity provider therefore keeps.
StandsKnown ==
    \A x \in Perf \X Season : stands[x] # NoRow => \E g \in Perf : bridge[g] = stands[x]

SharersNoted == SharingIn(bridge) \subseteq sharing

Linked == OwnRow /\ Apart /\ StandsKnown /\ SharersNoted

IdentitiesInv ==
    /\ Typed /\ Linked
    /\ SeasonsKept /\ SeasonOncePerPlayer /\ SeasonsFollowTheirMapping

-----------------------------------------------------------------------------
(* Rows *)

LEMMA NobodyIsNoRow == NoRow \notin Row
BY PeopleAssumption DEF NoRow, Row, Person

\* A fresh row is one that is not there.
LEMMA Fresh ==
    ASSUME NEW p \in Person, NEW rows, \E n \in 0 .. MaxCopy : <<p, n>> \notin rows
    PROVE  /\ FreshRow(p, rows) \in Row /\ FreshRow(p, rows) \notin rows
           /\ FreshRow(p, rows)[1] = p
<1>1. PICK n \in 0 .. MaxCopy : FreshRow(p, rows) = <<p, n>> /\ <<p, n>> \notin rows
  BY DEF FreshRow
<1> QED
  BY <1>1 DEF Row

\* Reading Held and Known.
LEMMA HeldIs ==
    ASSUME NEW f \in Perf, NEW s \in Season
    PROVE  s \in Held(stands[<<f, s>>])
<1>1. <<f, s>> \in SeasonsOn(stands[<<f, s>>])
  BY DEF SeasonsOn
<1> QED
  BY <1>1 DEF Held

LEMMA KnownIs ==
    ASSUME Typed, NEW q \in Sources, NEW p \in PlayersOf(q), bridge[p] # NoRow
    PROVE  bridge[p] \in Known(q) /\ bridge[p] \in row
BY DEF Typed, Known, Bridged, PlayersOf, Person, Sources

-----------------------------------------------------------------------------
(* The planned merges *)

\* Where a planned merge starts and ends, and that it ends where no merge starts.
LEMMA PlannedMoves ==
    ASSUME Typed, OwnRow, Apart, phase = "loaded", NEW f \in Planned
    PROVE  /\ f \in Perf /\ From(f) = bridge[f] /\ From(f) \in row /\ From(f) # NoRow
           /\ Verdict(f) \in Ident /\ To(f) = bridge[Verdict(f)]
           /\ To(f) \in row /\ To(f) # NoRow /\ To(f)[1] = Verdict(f)
           /\ \A g \in Planned : To(f) # From(g)
<1>1. /\ f \in Perf /\ bridge[f] # NoRow /\ Verdict(f) # NoOne
      /\ \A g \in Planned : g \in Perf /\ bridge[g] # NoRow
  BY DEF Planned, Bridged, PlayersOf
<1>2. Verdict(f) = (IF Confirmed(f) THEN mapping[f] ELSE Automatic(f)) /\ Loaded(Verdict(f))
  BY <1>1 DEF Verdict
<1>3. Verdict(f) \in Ident
  <2>1. CASE Confirmed(f)
    BY <1>1, <1>2, <2>1 DEF Typed, Loaded
  <2>2. CASE ~Confirmed(f) /\ bridge[f][1] \in Ident
    BY <1>2, <2>2 DEF Automatic
  <2>3. CASE ~Confirmed(f) /\ bridge[f][1] \notin Ident
    <3> DEFINE known == [t \in Bridged("identity") |-> evidence[f][t]]
    <3>1. Matched(known) \subseteq DOMAIN known
      BY DEF Matched, Candidates
    <3>2. DOMAIN known \subseteq Ident
      BY DEF Bridged, PlayersOf
    <3>3. Automatic(f) = IF Matched(known) = {} THEN NoOne ELSE CHOOSE t \in Matched(known) : TRUE
      BY <2>3 DEF Automatic
    <3> HIDE DEF known
    <3> QED
      BY <1>1, <1>2, <2>3, <3>1, <3>2, <3>3
  <2> QED
    BY <2>1, <2>2, <2>3
<1>4. To(f) = bridge[Verdict(f)] /\ From(f) = bridge[f] /\ bridge[Verdict(f)] # NoRow
  BY <1>2 DEF To, From, Loaded
<1>5. From(f) \in row /\ To(f) \in row
  BY <1>1, <1>3, <1>4 DEF Typed, Person
<1>6. \A g \in Planned : To(f) # From(g)
  BY <1>1, <1>3, <1>4 DEF Apart, From
<1> QED
  BY <1>1, <1>3, <1>4, <1>5, <1>6 DEF OwnRow

-----------------------------------------------------------------------------
(* A batch *)

LEMMA Least ==
    ASSUME NEW S \in SUBSET Nat, S # {}
    PROVE  \E m \in S : \A k \in S : m <= k
<1>1. PICK m \in S : \A k \in S : ~(<<k, m>> \in OpToRel(<, Nat))
  <2>1. \E m \in S : \A k \in S : ~(<<k, m>> \in OpToRel(<, Nat))
    BY ONLY S \in SUBSET Nat, S # {}, NatLessThanWellFounded, WFMin
  <2> QED
    BY <2>1
<1>2. \A k, n \in Nat : k < n => <<k, n>> \in OpToRel(<, Nat)
  BY DEF OpToRel
<1>3. ASSUME NEW k \in S
      PROVE  m <= k
  <2>1. k \in Nat /\ m \in Nat /\ ~(k < m)
    BY <1>1, <1>2
  <2> QED
    BY <2>1
<1> QED
  BY <1>3

Started == [held |-> [r \in row |-> Held(r)], merged |-> {}]

\* The decisions of a batch, one after the other.
Decisions(g, order, n) ==
    g = [i \in 0 .. n |-> IF i = 0 THEN Started ELSE Decide(g[i - 1], order[i])]

LEMMA DecisionsExist ==
    ASSUME NEW order, NEW n \in Nat
    PROVE  \E g : Decisions(g, order, n)
<1> SUFFICES ASSUME \A g : ~Decisions(g, order, n)
             PROVE  FALSE
  OBVIOUS
<1> DEFINE S == {m \in Nat : \A g : ~Decisions(g, order, m)}
<1>1. PICK m \in S : \A k \in S : m <= k
  BY Least
<1>2. m # 0
  <2> DEFINE g == [i \in 0 .. 0 |-> Started]
  <2>1. Decisions(g, order, 0)
    BY DEF Decisions
  <2> QED
    BY <2>1
<1>3. m - 1 \in Nat /\ m - 1 \notin S
  BY <1>1, <1>2
<1>4. PICK g : Decisions(g, order, m - 1)
  BY <1>3
<1> DEFINE h == [i \in 0 .. m |-> IF i < m THEN g[i] ELSE Decide(g[m - 1], order[m])]
<1>5. \A i \in 0 .. m : h[i] = IF i = 0 THEN Started ELSE Decide(h[i - 1], order[i])
  <2> SUFFICES ASSUME NEW i \in 0 .. m
               PROVE  h[i] = IF i = 0 THEN Started ELSE Decide(h[i - 1], order[i])
    OBVIOUS
  <2>1. CASE i = 0
    BY <1>2, <1>3, <1>4, <2>1 DEF Decisions
  <2>2. CASE i # 0 /\ i < m
    <3>1. i \in 0 .. m - 1 /\ i - 1 \in 0 .. m - 1 /\ i - 1 \in 0 .. m /\ i - 1 < m
      BY <1>3, <2>2
    <3>2. g[i] = Decide(g[i - 1], order[i])
      BY <1>4, <2>2, <3>1 DEF Decisions
    <3> QED
      BY <2>2, <3>1, <3>2
  <2>3. CASE i # 0 /\ i = m
    <3>1. i - 1 \in 0 .. m /\ i - 1 < m
      BY <1>3, <2>3
    <3> QED
      BY <2>3, <3>1
  <2> QED
    BY <2>1, <2>2, <2>3
<1>6. Decisions(h, order, m)
  <2>1. h = [i \in 0 .. m |-> h[i]]
    OBVIOUS
  <2> HIDE DEF h
  <2> QED
    BY <1>5, <2>1 DEF Decisions
<1> QED
  BY <1>6

LEMMA BatchIs ==
    ASSUME NEW order, Len(order) \in Nat
    PROVE  Decisions(Batch(order), order, Len(order))
<1>1. \E g : Decisions(g, order, Len(order))
  BY DecisionsExist
<1>2. Batch(order) = CHOOSE g : Decisions(g, order, Len(order))
  BY DEF Batch, Decisions, Started
<1> QED
  BY <1>1, <1>2

\* No season of a row that is merged stands on the row it goes to, nor on
\* another row that goes there.
Disjoint(merged) ==
    /\ \A h \in merged : Held(From(h)) \cap Held(To(h)) = {}
    /\ \A h, k \in merged :
        To(h) = To(k) /\ From(h) # From(k) => Held(From(h)) \cap Held(From(k)) = {}

\* A batch so far: what is accepted, and what is held then.
Accepted(st) ==
    /\ st.merged \in SUBSET Planned /\ Disjoint(st.merged)
    /\ st.held = [r \in row |-> st.held[r]]
    /\ \A f \in Planned : st.held[From(f)] = Held(From(f))
    /\ \A r \in row : Held(r) \subseteq st.held[r]
    /\ \A h \in st.merged : Held(From(h)) \subseteq st.held[To(h)]

LEMMA DecideAccepts ==
    ASSUME Typed, OwnRow, Apart, phase = "loaded",
           NEW st, Accepted(st), NEW f \in Planned
    PROVE  Accepted(Decide(st, f))
<1> DEFINE new == [held   |-> [st.held EXCEPT ![To(f)] = @ \cup st.held[From(f)]],
                   merged |-> st.merged \cup {f}]
<1>1. /\ From(f) \in row /\ To(f) \in row
      /\ \A g \in Planned : From(g) \in row /\ To(g) \in row /\ To(f) # From(g)
  BY PlannedMoves
<1>2. CASE st.held[From(f)] \cap st.held[To(f)] # {}
  BY <1>2 DEF Decide
<1>3. CASE st.held[From(f)] \cap st.held[To(f)] = {}
  <2>1. Decide(st, f) = new
    BY <1>3 DEF Decide
  <2>2. /\ new.merged = st.merged \cup {f}
        /\ new.held = [r \in row |-> IF r = To(f) THEN st.held[r] \cup st.held[From(f)]
                                     ELSE st.held[r]]
    BY <1>1 DEF Accepted
  <2> HIDE DEF new
  <2>3. \A g \in Planned : new.held[From(g)] = Held(From(g))
    BY <1>1, <2>2 DEF Accepted
  <2>4. \A r \in row : st.held[r] \subseteq new.held[r]
    BY <2>2
  <2>5. st.held[From(f)] = Held(From(f)) /\ Held(From(f)) \subseteq new.held[To(f)]
    BY <1>1, <2>2 DEF Accepted
  <2>6. \A h \in new.merged : Held(From(h)) \subseteq new.held[To(h)]
    BY <1>1, <2>2, <2>4, <2>5 DEF Accepted
  <2>7. Held(From(f)) \cap Held(To(f)) = {}
    BY <1>1, <1>3, <2>5 DEF Accepted
  <2>8. \A h \in st.merged : To(h) = To(f) => Held(From(h)) \cap Held(From(f)) = {}
    BY <1>1, <1>3, <2>5 DEF Accepted
  <2>9. Disjoint(new.merged)
    <3>1. Disjoint(st.merged)
      BY DEF Accepted
    <3>2. \A h \in new.merged : h \in st.merged \/ h = f
      BY <2>2
    <3>3. \A h \in new.merged : Held(From(h)) \cap Held(To(h)) = {}
      BY <2>7, <3>1, <3>2 DEF Disjoint
    <3>4. ASSUME NEW h \in new.merged, NEW k \in new.merged,
                 To(h) = To(k), From(h) # From(k)
          PROVE  Held(From(h)) \cap Held(From(k)) = {}
      BY <2>8, <3>1, <3>2, <3>4 DEF Disjoint
    <3> QED
      BY <3>3, <3>4 DEF Disjoint
  <2>10. new.merged \in SUBSET Planned
    BY <2>2 DEF Accepted
  <2>11. \A r \in row : Held(r) \subseteq new.held[r]
    BY <2>4 DEF Accepted
  <2>12. new.held = [r \in row |-> new.held[r]]
    BY <2>2
  <2> QED
    BY <2>1, <2>3, <2>6, <2>9, <2>10, <2>11, <2>12 DEF Accepted
<1> QED
  BY <1>2, <1>3

\* Whatever the order of the plans, the merges of a batch do not collide.
LEMMA MergedIsDisjoint ==
    ASSUME Typed, OwnRow, Apart, phase = "loaded", NEW order \in SetToSeqs(Planned)
    PROVE  Merged(order) \in SUBSET Planned /\ Disjoint(Merged(order))
<1>1. IsFiniteSet(Planned)
  <2>1. Planned \subseteq Perf
    BY PlannedMoves
  <2> QED
    BY <2>1, PeopleAssumption, FS_Subset
<1>2. PICK n \in Nat : n = Cardinality(Planned)
  BY <1>1, FS_CardinalityType
<1>3. order \in [1 .. n -> Planned]
  BY <1>2 DEF SetToSeqs
<1>4. Len(order) = n
  BY <1>3
<1>5. PICK g : g = Batch(order) /\ Decisions(g, order, n)
  BY <1>4, BatchIs
<1> DEFINE S == {i \in Nat : i \in 0 .. n /\ ~Accepted(g[i])}
<1>6. S = {}
  <2> SUFFICES ASSUME S # {}
               PROVE  FALSE
    OBVIOUS
  <2>1. PICK i \in S : \A k \in S : i <= k
    BY Least
  <2>2. CASE i = 0
    <3>1. g[0] = Started
      BY <1>5 DEF Decisions
    <3>2. Accepted(Started)
      <4>1. Started.merged = {} /\ Started.held = [r \in row |-> Held(r)]
        BY DEF Started
      <4>2. \A f \in Planned : From(f) \in row
        BY PlannedMoves
      <4> QED
        BY <4>1, <4>2 DEF Accepted, Disjoint
    <3> QED
      BY <2>1, <2>2, <3>1, <3>2
  <2>3. CASE i # 0
    <3>1. i - 1 \in Nat /\ i - 1 \in 0 .. n /\ ~(i <= i - 1) /\ i \in 1 .. n /\ i \in 0 .. n
      BY <2>1, <2>3
    <3>2. Accepted(g[i - 1])
      BY <2>1, <3>1
    <3>3. order[i] \in Planned
      BY <1>3, <3>1
    <3>4. g[i] = Decide(g[i - 1], order[i])
      BY <1>5, <2>3, <3>1 DEF Decisions
    <3>5. Accepted(g[i])
      BY <3>2, <3>3, <3>4, DecideAccepts
    <3> QED
      BY <2>1, <3>5
  <2> QED
    BY <2>2, <2>3
<1>7. Accepted(g[n])
  BY <1>6
<1>8. Merged(order) = g[n].merged
  BY <1>4, <1>5 DEF Merged
<1> QED
  BY <1>7, <1>8 DEF Accepted

-----------------------------------------------------------------------------
(* The loads *)

\* The performance provider's players of a load, on rows nobody is on; the
\* identity provider's stay where they are unless their row goes.
PerformanceRows(kept, seasons, new) ==
    /\ \A f \in Perf : seasons[f] # {} =>
         new[f] \in row' /\ new[f] \notin kept /\ new[f] # NoRow /\ new[f][1] = f
    /\ kept \subseteq row /\ kept \subseteq row' /\ row' \in SUBSET Row
    /\ bridge' = [p \in Person |->
         IF p \in Perf THEN (IF seasons[p] # {} THEN new[p] ELSE NoRow)
         ELSE IF bridge[p] \in kept THEN bridge[p] ELSE NoRow]
    /\ stands' = [x \in Perf \X Season |->
         IF x[2] \in seasons[x[1]] THEN new[x[1]] ELSE NoRow]
    /\ played' = seasons

LEMMA PerformanceLoaded ==
    ASSUME Typed, LoadPerformance
    PROVE  \E seasons \in [Perf -> SUBSET Season] : \E kept, new :
                PerformanceRows(kept, seasons, new)
<1> DEFINE kept == row \ OwnRows("performance")
<1>2. PICK seasons \in [Perf -> SUBSET Season],
           e \in [Perf -> [Ident -> Likeness \cup {Unrelated}]] :
        LET roster == {f \in Perf : seasons[f] # {}}
            new == [f \in roster |-> FreshRow(f, kept)]
        IN /\ roster # {} /\ HasRoom(roster, kept)
           /\ row' = kept \cup {new[f] : f \in roster}
           /\ bridge' = [p \in Person |->
                IF p \in roster THEN new[p]
                ELSE IF p \in Perf \/ bridge[p] \notin kept THEN NoRow ELSE bridge[p]]
           /\ stands' = [x \in Perf \X Season |->
                IF x[1] \in roster /\ x[2] \in seasons[x[1]] THEN new[x[1]]
                ELSE SeasonsLeft("performance")[x]]
           /\ played' = seasons
           /\ evidence' = e
           /\ \A f \in Perf \ roster : e[f] = NoLikeness
  BY DEF LoadPerformance
<1>1. kept = row \ OwnRows("performance")
  OBVIOUS
<1> HIDE DEF kept
<1>3. PICK roster : roster = {f \in Perf : seasons[f] # {}}
  OBVIOUS
<1>4. PICK new : new = [f \in roster |-> FreshRow(f, kept)]
  OBVIOUS
<1>5. /\ HasRoom(roster, kept)
      /\ row' = kept \cup {new[f] : f \in roster}
      /\ bridge' = [p \in Person |->
           IF p \in roster THEN new[p]
           ELSE IF p \in Perf \/ bridge[p] \notin kept THEN NoRow ELSE bridge[p]]
      /\ stands' = [x \in Perf \X Season |->
           IF x[1] \in roster /\ x[2] \in seasons[x[1]] THEN new[x[1]]
           ELSE SeasonsLeft("performance")[x]]
      /\ played' = seasons
  BY <1>2, <1>3, <1>4
<1>6. ASSUME NEW f \in roster
      PROVE  new[f] \in Row /\ new[f] \notin kept /\ new[f] # NoRow /\ new[f][1] = f
  <2>1. f \in Person /\ new[f] = FreshRow(f, kept) /\ \E n \in 0 .. MaxCopy : <<f, n>> \notin kept
    BY <1>3, <1>4, <1>5 DEF Person, HasRoom
  <2> QED
    BY <2>1, Fresh, NobodyIsNoRow
<1>7. /\ \A f \in Perf : seasons[f] # {} =>
           new[f] \in row' /\ new[f] \notin kept /\ new[f] # NoRow /\ new[f][1] = f
      /\ kept \subseteq row /\ kept \subseteq row' /\ row' \in SUBSET Row
  BY <1>1, <1>3, <1>5, <1>6 DEF Typed
<1>8. bridge' = [p \in Person |->
        IF p \in Perf THEN (IF seasons[p] # {} THEN new[p] ELSE NoRow)
        ELSE IF bridge[p] \in kept THEN bridge[p] ELSE NoRow]
  <2>1. ASSUME NEW p \in Person
        PROVE  (IF p \in roster THEN new[p]
                ELSE IF p \in Perf \/ bridge[p] \notin kept THEN NoRow ELSE bridge[p])
               = IF p \in Perf THEN (IF seasons[p] # {} THEN new[p] ELSE NoRow)
                 ELSE IF bridge[p] \in kept THEN bridge[p] ELSE NoRow
    BY <1>3
  <2> QED
    BY <1>5, <2>1
<1>9. stands' = [x \in Perf \X Season |->
        IF x[2] \in seasons[x[1]] THEN new[x[1]] ELSE NoRow]
  <2>1. ASSUME NEW x \in Perf \X Season
        PROVE  (IF x[1] \in roster /\ x[2] \in seasons[x[1]] THEN new[x[1]]
                ELSE SeasonsLeft("performance")[x])
               = IF x[2] \in seasons[x[1]] THEN new[x[1]] ELSE NoRow
    <3>1. SeasonsLeft("performance")[x] = NoRow /\ x[1] \in Perf
      BY DEF SeasonsLeft
    <3> QED
      BY <1>3, <3>1
  <2> QED
    BY <1>5, <2>1
<1>10. PerformanceRows(kept, seasons, new)
  BY <1>5, <1>7, <1>8, <1>9 DEF PerformanceRows
<1> QED
  BY <1>10

\* The identity provider's players of a load, on rows nobody is on; the others,
\* and every season, stay where they are.
IdentityRows(kept, roster, new) ==
    /\ \A t \in roster :
         new[t] \in row' /\ new[t] \notin kept /\ new[t] # NoRow /\ new[t][1] = t
    /\ kept \subseteq row /\ kept \subseteq row' /\ row' \in SUBSET Row
    /\ \A f \in Perf : bridge[f] = NoRow \/ bridge[f] \in kept
    /\ bridge' = [p \in Person |->
         IF p \in Perf THEN bridge[p] ELSE IF p \in roster THEN new[p] ELSE NoRow]
    /\ stands' = stands /\ played' = played
    /\ values' = {<<new[t], loads["identity"] + 1>> : t \in roster}

LEMMA IdentityLoaded ==
    ASSUME Typed, StandsKnown, LoadIdentity
    PROVE  \E roster \in SUBSET Ident : \E kept, new : IdentityRows(kept, roster, new)
<1> DEFINE kept == row \ OwnRows("identity")
<1>2. PICK roster \in SUBSET Ident :
        LET new == [t \in roster |-> FreshRow(t, kept)] IN
        /\ HasRoom(roster, kept)
        /\ row' = kept \cup {new[t] : t \in roster}
        /\ bridge' = [p \in Person |->
             IF p \in roster THEN new[p]
             ELSE IF p \in Ident \/ bridge[p] \notin kept THEN NoRow ELSE bridge[p]]
        /\ values' = ValuesLeft("identity")
             \cup {<<new[t], loads["identity"] + 1>> : t \in roster}
        /\ stands' = SeasonsLeft("identity")
  BY DEF LoadIdentity
<1>1. kept = row \ OwnRows("identity")
  OBVIOUS
<1> HIDE DEF kept
<1>3. PICK new : new = [t \in roster |-> FreshRow(t, kept)]
  OBVIOUS
<1>4. /\ HasRoom(roster, kept)
      /\ row' = kept \cup {new[t] : t \in roster}
      /\ bridge' = [p \in Person |->
           IF p \in roster THEN new[p]
           ELSE IF p \in Ident \/ bridge[p] \notin kept THEN NoRow ELSE bridge[p]]
      /\ values' = ValuesLeft("identity")
           \cup {<<new[t], loads["identity"] + 1>> : t \in roster}
      /\ stands' = SeasonsLeft("identity")
  BY <1>2, <1>3
<1>5. ASSUME NEW t \in roster
      PROVE  new[t] \in Row /\ new[t] \notin kept /\ new[t] # NoRow /\ new[t][1] = t
  <2>1. t \in Person /\ new[t] = FreshRow(t, kept) /\ \E n \in 0 .. MaxCopy : <<t, n>> \notin kept
    BY <1>3, <1>4 DEF Person, HasRoom
  <2> QED
    BY <2>1, Fresh, NobodyIsNoRow
<1>6. /\ \A t \in roster :
           new[t] \in row' /\ new[t] \notin kept /\ new[t] # NoRow /\ new[t][1] = t
      /\ kept \subseteq row /\ kept \subseteq row' /\ row' \in SUBSET Row
  BY <1>1, <1>4, <1>5 DEF Typed
<1>7. ASSUME NEW f \in Perf
      PROVE  bridge[f] = NoRow \/ (bridge[f] \in kept /\ bridge[f] \notin OwnRows("identity"))
  <2>1. bridge[f] # NoRow => bridge[f] \in Known("performance") /\ bridge[f] \in row
    BY KnownIs DEF PlayersOf, Sources
  <2> QED
    BY <1>1, <2>1 DEF OwnRows, Other
<1>8. bridge' = [p \in Person |->
        IF p \in Perf THEN bridge[p] ELSE IF p \in roster THEN new[p] ELSE NoRow]
  <2>1. ASSUME NEW p \in Person
        PROVE  (IF p \in roster THEN new[p]
                ELSE IF p \in Ident \/ bridge[p] \notin kept THEN NoRow ELSE bridge[p])
               = IF p \in Perf THEN bridge[p] ELSE IF p \in roster THEN new[p] ELSE NoRow
    BY <1>7, PeopleAssumption DEF Person
  <2> QED
    BY <1>4, <2>1
<1>9. stands' = stands
  <2>1. ASSUME NEW x \in Perf \X Season
        PROVE  stands[x] \notin OwnRows("identity")
    <3>1. CASE stands[x] = NoRow
      <4>1. NoRow \notin row
        BY NobodyIsNoRow DEF Typed
      <4>2. Known("identity") \subseteq row
        BY KnownIs DEF Known, Bridged, Sources
      <4> QED
        BY <3>1, <4>1, <4>2 DEF OwnRows
    <3>2. CASE stands[x] # NoRow
      BY <1>7, <3>2 DEF StandsKnown
    <3> QED
      BY <3>1, <3>2
  <2>2. stands' = [x \in Perf \X Season |-> stands[x]]
    BY <1>4, <2>1 DEF SeasonsLeft
  <2> QED
    BY <2>2 DEF Typed
<1>10. values' = {<<new[t], loads["identity"] + 1>> : t \in roster}
  BY <1>4 DEF ValuesLeft
<1>11. played' = played
  BY DEF LoadIdentity
<1>12. IdentityRows(kept, roster, new)
  BY <1>6, <1>7, <1>8, <1>9, <1>10, <1>11 DEF IdentityRows
<1> QED
  BY <1>12

-----------------------------------------------------------------------------
(* The invariant, load by load *)

LEMMA InitHolds == Init => IdentitiesInv
<1> SUFFICES ASSUME Init
             PROVE  IdentitiesInv
  OBVIOUS
<1>1. Typed
  BY DEF Init, Typed, NoLikeness
<1>2. Linked
  BY DEF Init, Linked, OwnRow, Apart, StandsKnown, SharersNoted, SharingIn, Person
<1>3. SeasonsKept /\ SeasonOncePerPlayer /\ SeasonsFollowTheirMapping
  BY DEF Init, SeasonsKept, SeasonOncePerPlayer, SeasonsFollowTheirMapping
<1> QED
  BY <1>1, <1>2, <1>3 DEF IdentitiesInv

LEMMA PerformanceLoadKeeps ==
    ASSUME IdentitiesInv, LoadPerformance
    PROVE  IdentitiesInv'
<1>1. Typed
  BY DEF IdentitiesInv
<1>2. PICK seasons \in [Perf -> SUBSET Season] :
         \E kept, new : PerformanceRows(kept, seasons, new)
  BY <1>1, PerformanceLoaded
<1>3. PICK kept, new : PerformanceRows(kept, seasons, new)
  BY <1>2
<1>4. /\ \A f \in Perf : seasons[f] # {} =>
           new[f] \in row' /\ new[f] \notin kept /\ new[f] # NoRow /\ new[f][1] = f
      /\ kept \subseteq row /\ kept \subseteq row' /\ row' \in SUBSET Row
      /\ bridge' \in [Person -> row' \cup {NoRow}]
      /\ \A f \in Perf : bridge'[f] = IF seasons[f] # {} THEN new[f] ELSE NoRow
      /\ \A t \in Ident : bridge'[t] = IF bridge[t] \in kept THEN bridge[t] ELSE NoRow
      /\ stands' \in [Perf \X Season -> row' \cup {NoRow}]
      /\ \A f \in Perf, s \in Season :
           stands'[<<f, s>>] = IF s \in seasons[f] THEN new[f] ELSE NoRow
      /\ played' = seasons
  <2>1. PerformanceRows(kept, seasons, new)
    BY <1>3
  <2>2. \A t \in Ident : t \in Person /\ t \notin Perf
    BY PeopleAssumption DEF Person
  <2>3. \A f \in Perf : f \in Person
    BY DEF Person
  <2>4. \A x \in Perf \X Season : x[1] \in Perf /\ x[2] \in Season
    OBVIOUS
  <2> QED
    BY <2>1, <2>2, <2>3, <2>4 DEF PerformanceRows
<1>5. Typed'
  <2>1. values' \in SUBSET (row' \X Nat)
    <3>1. values' \subseteq values /\ row \ OwnRows("performance") \subseteq row'
      BY DEF LoadPerformance, ValuesLeft
    <3>2. \A v \in values' : v[1] \notin OwnRows("performance")
      BY DEF LoadPerformance, ValuesLeft
    <3>3. \A v \in values : v \in row \X Nat
      BY <1>1 DEF Typed
    <3> QED
      BY <3>1, <3>2, <3>3
  <2>2. /\ manual' \in [Perf -> BOOLEAN] /\ sharing' = {} /\ phase' = "loaded"
        /\ mapping' = mapping /\ edits' = edits
        /\ loads' = [loads EXCEPT !["performance"] = @ + 1]
    BY DEF LoadPerformance
  <2>3. evidence' \in [Perf -> [Ident -> Likeness \cup {Unrelated}]]
    BY DEF LoadPerformance
  <2>4. loads' \in [Sources -> Nat]
    BY <1>1, <2>2 DEF Typed, Sources
  <2> QED
    BY <1>1, <1>4, <2>1, <2>2, <2>3, <2>4 DEF Typed
<1>6. NoRow \notin row'
  BY <1>4, NobodyIsNoRow
<1>7. Linked'
  <2>1. OwnRow'
    BY <1>4 DEF IdentitiesInv, Linked, OwnRow
  <2>2. Apart'
    BY <1>4 DEF Apart
  <2>3. StandsKnown'
    <3>1. \A f \in Perf, s \in Season :
            stands'[<<f, s>>] # NoRow => bridge'[f] = stands'[<<f, s>>]
      BY <1>4
    <3> QED
      BY <3>1 DEF StandsKnown
  <2>4. SharersNoted'
    BY <1>4 DEF SharersNoted, SharingIn
  <2> QED
    BY <2>1, <2>2, <2>3, <2>4 DEF Linked
<1>8. SeasonsKept'
  BY <1>4 DEF SeasonsKept
<1>9. SeasonOncePerPlayer'
  BY <1>4 DEF SeasonOncePerPlayer
<1>10. SeasonsFollowTheirMapping'
  BY <1>4 DEF SeasonsFollowTheirMapping
<1> QED
  BY <1>5, <1>7, <1>8, <1>9, <1>10 DEF IdentitiesInv

LEMMA IdentityLoadKeeps ==
    ASSUME IdentitiesInv, LoadIdentity
    PROVE  IdentitiesInv'
<1>1. Typed /\ Linked
  BY DEF IdentitiesInv
<1>2. PICK roster \in SUBSET Ident : \E kept, new : IdentityRows(kept, roster, new)
  BY <1>1, IdentityLoaded DEF Linked
<1>3. PICK kept, new : IdentityRows(kept, roster, new)
  BY <1>2
<1>4. /\ \A t \in roster :
           new[t] \in row' /\ new[t] \notin kept /\ new[t] # NoRow /\ new[t][1] = t
      /\ kept \subseteq row /\ kept \subseteq row' /\ row' \in SUBSET Row
      /\ \A f \in Perf : bridge[f] = NoRow \/ bridge[f] \in kept
      /\ \A f \in Perf : bridge'[f] = bridge[f]
      /\ \A t \in Ident : bridge'[t] = IF t \in roster THEN new[t] ELSE NoRow
      /\ stands' = stands /\ played' = played
      /\ values' = {<<new[t], loads["identity"] + 1>> : t \in roster}
  <2>1. \A t \in Ident : t \in Person /\ t \notin Perf
    BY PeopleAssumption DEF Person
  <2>2. \A f \in Perf : f \in Person
    BY DEF Person
  <2> QED
    BY <1>3, <2>1, <2>2 DEF IdentityRows
<1>5. Typed'
  <2>1. /\ manual' = manual /\ sharing' = sharing /\ phase' = "loaded" /\ evidence' = evidence
        /\ mapping' = mapping /\ edits' = edits
        /\ loads' = [loads EXCEPT !["identity"] = @ + 1]
    BY DEF LoadIdentity
  <2>2. bridge' \in [Person -> row' \cup {NoRow}]
    <3>1. bridge' = [p \in Person |-> bridge'[p]]
      BY <1>3 DEF IdentityRows
    <3>2. \A p \in Person : bridge'[p] \in row' \cup {NoRow}
      BY <1>4 DEF Person
    <3> QED
      BY <3>1, <3>2
  <2>3. stands' \in [Perf \X Season -> row' \cup {NoRow}]
    <3>1. \A x \in Perf \X Season : stands[x] \in row' \cup {NoRow}
      BY <1>1, <1>4 DEF Linked, StandsKnown
    <3> QED
      BY <1>1, <1>4, <3>1 DEF Typed
  <2>4. loads["identity"] + 1 \in Nat
    BY <1>1 DEF Typed, Sources
  <2>5. values' \in SUBSET (row' \X Nat)
    BY <1>4, <2>4
  <2>6. loads' \in [Sources -> Nat]
    BY <1>1, <2>1, <2>4 DEF Typed
  <2> QED
    BY <1>1, <1>4, <2>1, <2>2, <2>3, <2>5, <2>6 DEF Typed
<1>6. Linked'
  <2>1. OwnRow'
    BY <1>4 DEF OwnRow
  <2>2. Apart'
    BY <1>4 DEF Apart
  <2>3. StandsKnown'
    BY <1>1, <1>4 DEF Linked, StandsKnown
  <2>4. SharersNoted'
    <3>1. sharing' = sharing /\ SharingIn(bridge) \subseteq sharing
      BY <1>1 DEF Linked, SharersNoted, LoadIdentity
    <3>2. SharingIn(bridge') = SharingIn(bridge)
      BY <1>4 DEF SharingIn
    <3> QED
      BY <3>1, <3>2 DEF SharersNoted
  <2> QED
    BY <2>1, <2>2, <2>3, <2>4 DEF Linked
<1>7. sharing' = sharing
  BY DEF LoadIdentity
<1>8. SeasonsKept'
  BY <1>4 DEF IdentitiesInv, SeasonsKept
<1>9. SeasonOncePerPlayer'
  BY <1>4 DEF IdentitiesInv, SeasonOncePerPlayer
<1>10. SeasonsFollowTheirMapping'
  BY <1>4, <1>7 DEF IdentitiesInv, SeasonsFollowTheirMapping
<1> QED
  BY <1>5, <1>6, <1>8, <1>9, <1>10 DEF IdentitiesInv

-----------------------------------------------------------------------------
(* The invariant, resolution *)

\* What a batch does to mappings and seasons: everything on a row that is merged
\* goes to where a merge of that row goes, or goes away.
Resolved(merged) ==
    /\ merged \in SUBSET Planned /\ Disjoint(merged)
    /\ row' = row \ Moves(merged)
    /\ bridge' \in [Person -> row' \cup {NoRow}]
    /\ stands' \in [Perf \X Season -> row' \cup {NoRow}]
    /\ \A f \in merged : bridge'[f] = To(f) /\ To(f) \notin Moves(merged)
    /\ \A p \in Person \ merged :
         bridge'[p] = IF bridge[p] \in Moves(merged) THEN NoRow ELSE bridge[p]
    /\ \A f \in Perf, s \in Season :
         \/ stands[<<f, s>>] \notin Moves(merged) /\ stands'[<<f, s>>] = stands[<<f, s>>]
         \/ \E h \in merged : From(h) = stands[<<f, s>>] /\ stands'[<<f, s>>] = To(h)
    /\ values' \subseteq values /\ \A v \in values' : v[1] \notin Moves(merged)
    /\ manual' = [f \in Perf |-> IF f \in merged THEN Confirmed(f) ELSE manual[f]]
    /\ sharing' = sharing \cup SharingIn(Repointed(merged))

LEMMA ResolveMoves ==
    ASSUME IdentitiesInv, Resolve
    PROVE  \E merged : Resolved(merged)
<1>1. Typed /\ OwnRow /\ Apart /\ phase = "loaded"
  BY DEF IdentitiesInv, Linked, Resolve
<1>2. PICK order \in SetToSeqs(Planned) :
        \E to \in [Moves(Merged(order)) -> row] :
            /\ \A r \in Moves(Merged(order)) : to[r] \in Destinations(Merged(order))[r]
            /\ Write(Merged(order), to)
  BY DEF Resolve
<1>3. PICK merged : merged = Merged(order)
  OBVIOUS
<1>4. PICK to : /\ \A r \in Moves(merged) : to[r] \in Destinations(merged)[r]
                /\ Write(merged, to)
  BY <1>2, <1>3
<1>5. merged \in SUBSET Planned /\ Disjoint(merged)
  BY <1>1, <1>3, MergedIsDisjoint
<1>6. \A f \in merged : /\ f \in Perf /\ From(f) = bridge[f] /\ From(f) \in row
                        /\ To(f) \in row /\ \A g \in merged : To(f) # From(g)
  BY <1>1, <1>5, PlannedMoves
<1>7. \A f \in merged : To(f) \notin Moves(merged) /\ From(f) \in Moves(merged)
  BY <1>6 DEF Moves
<1>8. \A r \in Moves(merged) : \E h \in merged : From(h) = r /\ to[r] = To(h)
  BY <1>4 DEF Destinations
<1>9. Moves(merged) \subseteq row /\ NoRow \notin row
  BY <1>1, <1>6, NobodyIsNoRow DEF Moves, Typed
<1>10. PICK deleted : deleted = Moves(merged)
  OBVIOUS
<1>11. /\ stands' = [x \in Perf \X Season |->
            IF (IF stands[x] \in deleted THEN to[stands[x]] ELSE stands[x]) \in deleted THEN NoRow
            ELSE IF stands[x] \in deleted THEN to[stands[x]] ELSE stands[x]]
       /\ bridge' = [p \in Person |->
            IF (IF p \in merged THEN To(p) ELSE bridge[p]) \in deleted THEN NoRow
            ELSE IF p \in merged THEN To(p) ELSE bridge[p]]
  <2>1. /\ stands' = [x \in Perf \X Season |->
             Alive([y \in Perf \X Season |->
                      IF stands[y] \in deleted THEN to[stands[y]] ELSE stands[y]][x], deleted)]
        /\ bridge' = [p \in Person |-> Alive(Repointed(merged)[p], deleted)]
    BY <1>4, <1>10 DEF Write
  <2>2. \A p \in Person : Repointed(merged)[p] = IF p \in merged THEN To(p) ELSE bridge[p]
    BY DEF Repointed
  <2> QED
    BY <2>1, <2>2 DEF Alive
<1>12. /\ row' = row \ deleted
       /\ values' = {v \in values : v[1] \notin deleted}
       /\ manual' = [f \in Perf |-> IF f \in merged THEN Confirmed(f) ELSE manual[f]]
       /\ sharing' = sharing \cup SharingIn(Repointed(merged))
  BY <1>4, <1>10 DEF Write
<1>13. \A f \in merged : bridge'[f] = To(f) /\ To(f) \notin deleted
  BY <1>6, <1>7, <1>10, <1>11 DEF Person
<1>14. \A p \in Person \ merged :
         bridge'[p] = IF bridge[p] \in deleted THEN NoRow ELSE bridge[p]
  BY <1>11
<1>15. ASSUME NEW x \in Perf \X Season
       PROVE  \/ stands[x] \notin deleted /\ stands'[x] = stands[x]
              \/ \E h \in merged : From(h) = stands[x] /\ stands'[x] = To(h)
  <2>1. CASE stands[x] \notin deleted
    BY <1>11, <2>1
  <2>2. CASE stands[x] \in deleted
    <3>1. PICK h \in merged : From(h) = stands[x] /\ to[stands[x]] = To(h)
      BY <1>8, <1>10, <2>2
    <3>2. stands'[x] = To(h)
      BY <1>11, <1>13, <2>2, <3>1
    <3> QED
      BY <3>1, <3>2
  <2> QED
    BY <2>1, <2>2
<1>16. bridge' \in [Person -> row' \cup {NoRow}]
  <2>1. \A p \in Person : bridge'[p] \in row' \cup {NoRow}
    BY <1>1, <1>6, <1>12, <1>13, <1>14 DEF Typed
  <2>2. bridge' = [p \in Person |-> bridge'[p]]
    BY <1>11
  <2> QED
    BY <2>1, <2>2
<1>17. stands' \in [Perf \X Season -> row' \cup {NoRow}]
  <2>1. \A x \in Perf \X Season : stands'[x] \in row' \cup {NoRow}
    BY <1>1, <1>6, <1>12, <1>13, <1>15 DEF Typed
  <2>2. stands' = [x \in Perf \X Season |-> stands'[x]]
    BY <1>11
  <2> QED
    BY <2>1, <2>2
<1>18. Resolved(merged)
  <2>1. \A f \in Perf, s \in Season :
         \/ stands[<<f, s>>] \notin deleted /\ stands'[<<f, s>>] = stands[<<f, s>>]
         \/ \E h \in merged : From(h) = stands[<<f, s>>] /\ stands'[<<f, s>>] = To(h)
    BY <1>15
  <2>2. values' \subseteq values /\ \A v \in values' : v[1] \notin deleted
    BY <1>12
  <2> QED
    BY <1>5, <1>10, <1>12, <1>13, <1>14, <1>16, <1>17, <2>1, <2>2 DEF Resolved
<1> QED
  BY <1>18

LEMMA ResolveKeeps ==
    ASSUME IdentitiesInv, Resolve
    PROVE  IdentitiesInv'
<1>1. /\ Typed /\ OwnRow /\ Apart /\ StandsKnown /\ SharersNoted /\ phase = "loaded"
      /\ SeasonsKept /\ SeasonOncePerPlayer /\ SeasonsFollowTheirMapping
  BY DEF IdentitiesInv, Linked, Resolve
<1>2. PICK merged : Resolved(merged)
  BY ResolveMoves
<1>3. /\ phase' = "idle" /\ evidence' = evidence /\ mapping' = mapping
      /\ played' = played /\ loads' = loads /\ edits' = edits
  BY DEF Resolve
<1>4. /\ merged \in SUBSET Planned
      /\ \A f \in merged : /\ f \in Perf /\ From(f) = bridge[f] /\ From(f) \in row
                           /\ From(f) # NoRow /\ Verdict(f) \in Ident
                           /\ To(f) \in row /\ To(f) # NoRow /\ To(f)[1] = Verdict(f)
                           /\ From(f) \in Moves(merged)
  BY <1>1, <1>2, PlannedMoves DEF Resolved, Moves
<1>5. NoRow \notin row /\ \A r \in Moves(merged) : r \in row
  BY <1>1, <1>4, NobodyIsNoRow DEF Moves, Typed
<1>6. Perf \subseteq Person /\ Ident \subseteq Person /\ Perf \cap Ident = {}
  BY PeopleAssumption DEF Person
<1>7. Typed'
  <2>1. row' \in SUBSET Row /\ values' \in SUBSET (row' \X Nat)
    <3>1. /\ row' = row \ Moves(merged)
          /\ values' \subseteq values /\ \A v \in values' : v[1] \notin Moves(merged)
      BY <1>2 DEF Resolved
    <3>2. \A v \in values : v \in row \X Nat
      BY <1>1 DEF Typed
    <3> QED
      BY <1>1, <3>1, <3>2 DEF Typed
  <2>2. manual' \in [Perf -> BOOLEAN]
    BY <1>1, <1>2 DEF Resolved, Typed, Confirmed
  <2>3. sharing' \in SUBSET Perf
    BY <1>1, <1>2 DEF Resolved, Typed, SharingIn
  <2> QED
    BY <1>1, <1>2, <1>3, <2>1, <2>2, <2>3 DEF Typed, Resolved
<1>8. Linked'
  <2>1. OwnRow'
    <3>1. \A t \in Ident : t \in Person \ merged
      BY <1>4, <1>6
    <3> QED
      BY <1>1, <1>2, <3>1 DEF OwnRow, Resolved
  <2>2. Apart'
    BY <1>3 DEF Apart
  <2>3. StandsKnown'
    <3> SUFFICES ASSUME NEW f \in Perf, NEW s \in Season, stands'[<<f, s>>] # NoRow
                 PROVE  \E g \in Perf : bridge'[g] = stands'[<<f, s>>]
      BY DEF StandsKnown
    <3>1. CASE stands[<<f, s>>] \notin Moves(merged) /\ stands'[<<f, s>>] = stands[<<f, s>>]
      <4>1. PICK g \in Perf : bridge[g] = stands[<<f, s>>]
        BY <1>1, <3>1 DEF StandsKnown
      <4>2. g \in Person \ merged
        BY <1>4, <1>6, <3>1, <4>1
      <4> QED
        BY <1>2, <3>1, <4>1, <4>2 DEF Resolved
    <3>2. CASE \E h \in merged : From(h) = stands[<<f, s>>] /\ stands'[<<f, s>>] = To(h)
      BY <1>2, <1>4, <3>2 DEF Resolved
    <3> QED
      BY <1>2, <3>1, <3>2 DEF Resolved
  <2>4. SharersNoted'
    <3>1. ASSUME NEW f \in Perf, NEW g \in Perf, f # g, bridge'[f] # NoRow, bridge'[g] = bridge'[f]
          PROVE  f \in SharingIn(Repointed(merged))
      <4>1. /\ bridge'[f] = Repointed(merged)[f]
            /\ bridge'[g] = Repointed(merged)[g]
        BY <1>2, <1>6, <3>1 DEF Resolved, Repointed
      <4> QED
        BY <3>1, <4>1 DEF SharingIn
    <3> QED
      BY <1>2, <3>1 DEF SharersNoted, SharingIn, Resolved
  <2> QED
    BY <2>1, <2>2, <2>3, <2>4 DEF Linked
<1>9. SeasonsKept'
  <2> SUFFICES ASSUME NEW f \in Perf, NEW s \in Season, s \in played[f]
               PROVE  stands'[<<f, s>>] # NoRow
    BY <1>3 DEF SeasonsKept
  <2>1. stands[<<f, s>>] # NoRow
    BY <1>1 DEF SeasonsKept
  <2> QED
    BY <1>2, <1>4, <2>1 DEF Resolved
<1>10. SeasonOncePerPlayer'
  <2> SUFFICES ASSUME NEW f \in Perf, NEW g \in Perf, NEW s \in Season,
                      f # g, stands'[<<f, s>>] # NoRow, stands'[<<f, s>>] = stands'[<<g, s>>]
               PROVE  FALSE
    BY DEF SeasonOncePerPlayer
  <2>1. /\ s \in Held(stands[<<f, s>>]) /\ s \in Held(stands[<<g, s>>])
        /\ stands[<<f, s>>] # NoRow => stands[<<f, s>>] # stands[<<g, s>>]
        /\ stands[<<g, s>>] # NoRow => stands[<<f, s>>] # stands[<<g, s>>]
    BY <1>1, HeldIs DEF SeasonOncePerPlayer
  <2>2. Disjoint(merged)
    BY <1>2 DEF Resolved
  <2>3. CASE /\ stands[<<f, s>>] \notin Moves(merged) /\ stands'[<<f, s>>] = stands[<<f, s>>]
             /\ stands[<<g, s>>] \notin Moves(merged) /\ stands'[<<g, s>>] = stands[<<g, s>>]
    BY <2>1, <2>3
  <2>4. ASSUME NEW h \in merged, From(h) = stands[<<f, s>>], stands'[<<f, s>>] = To(h),
               stands'[<<g, s>>] = stands[<<g, s>>]
        PROVE  FALSE
    BY <2>1, <2>2, <2>4 DEF Disjoint
  <2>5. ASSUME NEW h \in merged, From(h) = stands[<<g, s>>], stands'[<<g, s>>] = To(h),
               stands'[<<f, s>>] = stands[<<f, s>>]
        PROVE  FALSE
    BY <2>1, <2>2, <2>5 DEF Disjoint
  <2>6. ASSUME NEW h \in merged, From(h) = stands[<<f, s>>], stands'[<<f, s>>] = To(h),
               NEW k \in merged, From(k) = stands[<<g, s>>], stands'[<<g, s>>] = To(k)
        PROVE  FALSE
    <3>1. From(h) # From(k) /\ To(h) = To(k)
      BY <1>4, <2>1, <2>6
    <3> QED
      BY <2>1, <2>2, <2>6, <3>1 DEF Disjoint
  <2> QED
    BY <1>2, <2>3, <2>4, <2>5, <2>6 DEF Resolved
<1>11. SeasonsFollowTheirMapping'
  <2> SUFFICES ASSUME NEW f \in Perf \ sharing', NEW s \in Season, s \in played[f]
               PROVE  stands'[<<f, s>>] = bridge'[f]
    <3>1. played \in [Perf -> SUBSET Season]
      BY <1>1 DEF Typed
    <3> QED
      BY <1>3, <3>1 DEF SeasonsFollowTheirMapping
  <2>1. f \notin sharing /\ f \notin SharingIn(bridge)
    BY <1>1, <1>2 DEF Resolved, SharersNoted
  <2>2. stands[<<f, s>>] = bridge[f] /\ bridge[f] # NoRow
    BY <1>1, <2>1 DEF SeasonsFollowTheirMapping, SeasonsKept
  <2>3. \A h \in merged : From(h) = bridge[f] => h = f
    BY <1>4, <2>1, <2>2 DEF SharingIn
  <2>4. CASE f \in merged
    <3>1. From(f) = stands[<<f, s>>] /\ From(f) \in Moves(merged)
      BY <1>4, <2>2, <2>4
    <3>2. PICK h \in merged : From(h) = stands[<<f, s>>] /\ stands'[<<f, s>>] = To(h)
      BY <1>2, <3>1 DEF Resolved
    <3> QED
      BY <1>2, <2>2, <2>3, <3>2 DEF Resolved
  <2>5. CASE f \notin merged
    <3>1. bridge[f] \notin Moves(merged)
      BY <2>3, <2>5 DEF Moves
    <3>2. bridge'[f] = bridge[f]
      BY <1>2, <1>6, <2>5, <3>1 DEF Resolved
    <3>3. stands'[<<f, s>>] = stands[<<f, s>>]
      BY <1>2, <2>2, <2>3, <2>5 DEF Resolved
    <3> QED
      BY <2>2, <3>2, <3>3
  <2> QED
    BY <2>4, <2>5
<1> QED
  BY <1>7, <1>8, <1>9, <1>10, <1>11 DEF IdentitiesInv

-----------------------------------------------------------------------------
(* What resolution promises *)

LEMMA EditKeeps ==
    ASSUME IdentitiesInv, Edit
    PROVE  IdentitiesInv'
<1>1. UNCHANGED <<row, bridge, manual, stands, values, evidence, played, sharing, loads, phase>>
  BY DEF Edit
<1>2. Typed'
  <2>1. edits' \in Nat /\ mapping' \in [Perf -> Ident \cup {NoOne}]
    BY DEF IdentitiesInv, Typed, Edit
  <2> QED
    BY <1>1, <2>1 DEF IdentitiesInv, Typed
<1>3. Linked'
  BY <1>1 DEF IdentitiesInv, Linked, OwnRow, Apart, StandsKnown, SharersNoted, SharingIn
<1>4. SeasonsKept' /\ SeasonOncePerPlayer' /\ SeasonsFollowTheirMapping'
  BY <1>1 DEF IdentitiesInv, SeasonsKept, SeasonOncePerPlayer, SeasonsFollowTheirMapping
<1> QED
  BY <1>2, <1>3, <1>4 DEF IdentitiesInv

LEMMA NextKeeps == IdentitiesInv /\ [Next]_vars => IdentitiesInv'
<1> SUFFICES ASSUME IdentitiesInv, [Next]_vars
             PROVE  IdentitiesInv'
  OBVIOUS
<1>1. CASE LoadPerformance
  BY <1>1, PerformanceLoadKeeps
<1>2. CASE LoadIdentity
  BY <1>2, IdentityLoadKeeps
<1>3. CASE Resolve
  BY <1>3, ResolveKeeps
<1>4. CASE Edit
  BY <1>4, EditKeeps
<1>5. CASE UNCHANGED vars
  BY <1>5 DEF vars, IdentitiesInv, Typed, Linked, OwnRow, Apart, StandsKnown, SharersNoted,
              SharingIn, SeasonsKept, SeasonOncePerPlayer, SeasonsFollowTheirMapping
<1> QED
  BY <1>1, <1>2, <1>3, <1>4, <1>5 DEF Next

\* The invariant of the identities (load_providers.py purge, resolve.py merge_all):
\* types, and how rows, mappings and seasons hang together between two steps.
THEOREM IdentitiesHold == Spec => []IdentitiesInv
<1> QED
  BY InitHolds, NextKeeps, PTL DEF Spec

\* No merge, purge or load of the other provider loses a season that was loaded.
THEOREM SeasonsAreKept == Spec => []SeasonsKept
<1>1. IdentitiesInv => SeasonsKept
  BY DEF IdentitiesInv
<1> QED
  BY <1>1, IdentitiesHold, PTL

\* No player has a season of a competition twice, in whatever order the plans of
\* a batch come and however many of them go to one row.
THEOREM SeasonsStandOnce == Spec => []SeasonOncePerPlayer
<1>1. IdentitiesInv => SeasonOncePerPlayer
  BY DEF IdentitiesInv
<1> QED
  BY <1>1, IdentitiesHold, PTL

\* A player that never shared a row has its seasons where its mapping points.
THEOREM SeasonsFollow == Spec => []SeasonsFollowTheirMapping
<1>1. IdentitiesInv => SeasonsFollowTheirMapping
  BY DEF IdentitiesInv
<1> QED
  BY <1>1, IdentitiesHold, PTL

\* Valuations are of the identity provider's last load, on whatever row they are.
THEOREM ValuationsAreOfOneLoad == Spec => []ValuationsOfOneLoad
<1>1. Init => ValuationsOfOneLoad
  BY DEF Init, ValuationsOfOneLoad
<1>2. ASSUME IdentitiesInv, ValuationsOfOneLoad, [Next]_vars
      PROVE  ValuationsOfOneLoad'
  <2>1. Typed /\ Linked
    BY <1>2 DEF IdentitiesInv
  <2>2. CASE LoadPerformance
    <3>1. values' \subseteq values /\ loads'["identity"] = loads["identity"]
      BY <2>1, <2>2 DEF LoadPerformance, ValuesLeft, Typed, Sources
    <3> QED
      BY <1>2, <3>1 DEF ValuationsOfOneLoad
  <2>3. CASE LoadIdentity
    <3>1. PICK roster \in SUBSET Ident : \E kept, new : IdentityRows(kept, roster, new)
      BY <2>1, <2>3, IdentityLoaded DEF Linked
    <3>2. \E new : values' = {<<new[t], loads["identity"] + 1>> : t \in roster}
      BY <3>1 DEF IdentityRows
    <3>3. loads'["identity"] = loads["identity"] + 1
      BY <2>1, <2>3 DEF LoadIdentity, Typed, Sources
    <3> QED
      BY <3>2, <3>3 DEF ValuationsOfOneLoad
  <2>4. CASE Resolve
    <3>1. values' \subseteq values
      BY <1>2, <2>4, ResolveMoves DEF Resolved
    <3>2. loads' = loads
      BY <2>4 DEF Resolve
    <3> QED
      BY <1>2, <3>1, <3>2 DEF ValuationsOfOneLoad
  <2>5. CASE Edit \/ UNCHANGED vars
    BY <1>2, <2>5 DEF Edit, vars, ValuationsOfOneLoad
  <2> QED
    BY <1>2, <2>2, <2>3, <2>4, <2>5 DEF Next
<1>3. IdentitiesInv /\ ValuationsOfOneLoad /\ [Next]_vars => ValuationsOfOneLoad'
  BY <1>2
<1> QED
  BY <1>1, <1>3, IdentitiesHold, PTL DEF Spec

\* A pair that was moved because a person confirmed it is moved again only to
\* what the mapping file says now.
THEOREM ConfirmedPairsStay == Spec => ConfirmedStays
<1>1. ASSUME IdentitiesInv, Next
      PROVE  \A f \in Perf \ sharing :
                manual[f] /\ bridge'[f] # bridge[f] /\ loads' = loads =>
                    Confirmed(f) /\ (bridge'[f])[1] = mapping[f]
  <2> SUFFICES ASSUME NEW f \in Perf \ sharing,
                      manual[f], bridge'[f] # bridge[f], loads' = loads
               PROVE  Confirmed(f) /\ (bridge'[f])[1] = mapping[f]
    OBVIOUS
  <2>1. Resolve
    <3>1. /\ loads \in [Sources -> Nat] /\ loads["performance"] + 1 # loads["performance"]
          /\ loads["identity"] + 1 # loads["identity"]
      BY <1>1 DEF IdentitiesInv, Typed, Sources
    <3>2. ~LoadPerformance /\ ~LoadIdentity
      BY <3>1 DEF LoadPerformance, LoadIdentity, Sources
    <3>3. ~Edit
      BY DEF Edit
    <3> QED
      BY <1>1, <3>2, <3>3 DEF Next
  <2>2. PICK merged : Resolved(merged)
    BY <1>1, <2>1, ResolveMoves
  <2>3. /\ Typed /\ OwnRow /\ Apart /\ SharersNoted /\ phase = "loaded"
    BY <1>1, <2>1 DEF IdentitiesInv, Linked, Resolve
  <2>4. merged \in SUBSET Planned /\ f \in Person
    BY <2>2 DEF Resolved, Person
  <2>5. f \in merged
    <3> SUFFICES ASSUME f \notin merged
                 PROVE  FALSE
      OBVIOUS
    <3>1. bridge[f] \in Moves(merged)
      BY <2>2, <2>4 DEF Resolved
    <3>2. PICK h \in merged : From(h) = bridge[f]
      BY <3>1 DEF Moves
    <3>3. h \in Perf /\ bridge[h] = bridge[f] /\ bridge[f] # NoRow /\ h # f
      BY <2>3, <2>4, <3>2, PlannedMoves
    <3> QED
      BY <2>3, <3>3 DEF SharersNoted, SharingIn
  <2>6. Confirmed(f) /\ Verdict(f) # NoOne
    BY <2>4, <2>5 DEF Planned, Skipped
  <2>7. Verdict(f) = mapping[f]
    BY <2>6 DEF Verdict
  <2>8. bridge'[f] = To(f) /\ To(f)[1] = Verdict(f)
    BY <2>2, <2>3, <2>4, <2>5, PlannedMoves DEF Resolved
  <2> QED
    BY <2>6, <2>7, <2>8
<1>2. IdentitiesInv /\ [Next]_vars =>
        [\A f \in Perf \ sharing :
            manual[f] /\ bridge'[f] # bridge[f] /\ loads' = loads =>
                Confirmed(f) /\ (bridge'[f])[1] = mapping[f]]_vars
  BY <1>1
<1> QED
  BY <1>2, IdentitiesHold, PTL DEF Spec, ConfirmedStays

=============================================================================
