----------------------------- MODULE Identities -----------------------------
(***************************************************************************)
(* One footballer, known to two providers, across refreshes.               *)
(*                                                                         *)
(* A performance provider's load gives each of its players a row of        *)
(* dim_player with statistics; the identity provider's load gives each of  *)
(* its players another with valuations (load_providers.py).  Identity      *)
(* resolution then moves the statistics and the provider's mapping         *)
(* (bridge_player_source) to the identity's row and deletes the empty one  *)
(* (resolve.py).  Every refresh of one provider purges what that provider  *)
(* loaded, and only that, and resolves again.  A person may confirm pairs  *)
(* in player_mapping.csv between refreshes.                                *)
(*                                                                         *)
(* Abstractions: a row never changes what it says of the person, so a row  *)
(* is named by the provider's player it was inserted for and a copy        *)
(* number; what a row the performance provider described has in common     *)
(* with an identity is a choice made when it was loaded, and a row the     *)
(* identity provider described is taken for that player again (same name,  *)
(* same date of birth).  A season stands for a competition and its season.  The *)
(* refreshes modelled are those that are promoted; another one leaves no   *)
(* trace, since staging is seeded from what is served.                     *)
(***************************************************************************)
EXTENDS Matcher, Sequences, SequencesExt

CONSTANTS
    Perf,          \* the performance provider's players
    Ident,         \* the identity provider's players
    NoOne,
    Likeness,      \* what two descriptions of a player may have in common
    Season,
    MaxCopy,       \* bound: rows a player has had at once, less one
    MaxRefresh,    \* bound: refreshes
    MaxEdits       \* bound: edits of the mapping file

ASSUME PeopleAssumption ==
    /\ IsFiniteSet(Perf) /\ IsFiniteSet(Ident)
    /\ Perf \cap Ident = {} /\ NoOne \notin Perf \cup Ident
ASSUME LikenessAssumption == Likeness \subseteq Shared
ASSUME BoundAssumption == MaxCopy \in Nat /\ MaxRefresh \in Nat /\ MaxEdits \in Nat

Person == Perf \cup Ident
Row == Person \X (0 .. MaxCopy)
NoRow == <<NoOne, 0>>

VARIABLES
    row,       \* the rows of dim_player
    bridge,    \* bridge_player_source: the row of a provider's player
    manual,    \* bridge_player_source.manual_override, of a performance player
    stands,    \* fact_player_season_stats: the row a player's season stands on
    values,    \* fact_market_value: rows that have valuations, and whose load they are
    evidence,  \* what a performance player's description shares with an identity's
    mapping,   \* player_mapping.csv
    played,    \* history: the seasons last loaded for a performance player
    sharing,   \* history: performance players that have stood on a row with another
    loads,     \* refreshes of each provider
    edits,
    phase      \* of the refresh: "idle", "loaded"

vars == <<row, bridge, manual, stands, values, evidence, mapping, played, sharing,
          loads, edits, phase>>

Sources == {"performance", "identity"}
PlayersOf(s) == IF s = "performance" THEN Perf ELSE Ident

-----------------------------------------------------------------------------
(* Data *)

Bridged(s) == {p \in PlayersOf(s) : bridge[p] # NoRow}

\* The rows a source knows, through its bridge.
Known(s) == {bridge[p] : p \in Bridged(s)}

Other(s) == IF s = "performance" THEN "identity" ELSE "performance"

SeasonsOn(r) == {x \in Perf \X Season : stands[x] = r}
Held(r) == {x[2] : x \in SeasonsOn(r)}

NoLikeness == [t \in Ident |-> Unrelated]

FreshRow(p, rows) == <<p, CHOOSE n \in 0 .. MaxCopy : <<p, n>> \notin rows>>
HasRoom(players, rows) == \A p \in players : \E n \in 0 .. MaxCopy : <<p, n>> \notin rows

\* History: who stands on a row with somebody else.
SharingIn(b) == {f \in Perf : b[f] # NoRow /\ \E g \in Perf \ {f} : b[g] = b[f]}

-----------------------------------------------------------------------------
(* load_providers.purge and the loads *)

\* Mutant of OwnRows: a player goes with its bridge row, whoever else knows it.
AllKnownRows(s) == Known(s)

\* A row is removed only when no other source still knows it.
OwnRows(s) == Known(s) \ Known(Other(s))

\* Mutant of ValuesLeft: valuations are left to the cascade from dim_player.
ValuesByCascade(s) == {v \in values : v[1] \notin OwnRows(s)}

\* A purge removes the source's valuations before its players.
ValuesLeft(s) ==
    {v \in values : v[1] \notin OwnRows(s) /\ s # "identity"}

SeasonsLeft(s) ==
    [x \in Perf \X Season |->
        IF s = "performance" \/ stands[x] \in OwnRows(s) THEN NoRow ELSE stands[x]]

LoadPerformance ==
    /\ phase = "idle" /\ loads["performance"] + loads["identity"] < MaxRefresh
    /\ LET kept == row \ OwnRows("performance") IN
       \E seasons \in [Perf -> SUBSET Season], e \in [Perf -> [Ident -> Likeness \cup {Unrelated}]] :
        LET roster == {f \in Perf : seasons[f] # {}}
            new == [f \in roster |-> FreshRow(f, kept)]
        IN /\ roster # {} /\ HasRoom(roster, kept)
           /\ row' = kept \cup {new[f] : f \in roster}
           /\ bridge' = [p \in Person |->
                IF p \in roster THEN new[p]
                ELSE IF p \in Perf \/ bridge[p] \notin kept THEN NoRow ELSE bridge[p]]
           /\ stands' = [x \in Perf \X Season |->
                IF x[1] \in roster /\ x[2] \in seasons[x[1]] THEN new[x[1]]
                ELSE SeasonsLeft("performance")[x]]
           /\ played' = seasons
           /\ evidence' = e
           /\ \A f \in Perf \ roster : e[f] = NoLikeness
    /\ values' = ValuesLeft("performance")
    /\ manual' = [f \in Perf |-> FALSE]
    /\ sharing' = {}
    /\ loads' = [loads EXCEPT !["performance"] = @ + 1]
    /\ phase' = "loaded"
    /\ UNCHANGED <<mapping, edits>>

LoadIdentity ==
    /\ phase = "idle" /\ loads["performance"] + loads["identity"] < MaxRefresh
    /\ LET kept == row \ OwnRows("identity") IN
       \E roster \in SUBSET Ident \ {{}} :
        LET new == [t \in roster |-> FreshRow(t, kept)] IN
        /\ HasRoom(roster, kept)
        /\ row' = kept \cup {new[t] : t \in roster}
        /\ bridge' = [p \in Person |->
             IF p \in roster THEN new[p]
             ELSE IF p \in Ident \/ bridge[p] \notin kept THEN NoRow ELSE bridge[p]]
        /\ values' = ValuesLeft("identity")
             \cup {<<new[t], loads["identity"] + 1>> : t \in roster}
        /\ stands' = SeasonsLeft("identity")
    /\ loads' = [loads EXCEPT !["identity"] = @ + 1]
    /\ phase' = "loaded"
    /\ UNCHANGED <<manual, evidence, mapping, played, sharing, edits>>

-----------------------------------------------------------------------------
(* resolve.main: deciding *)

Loaded(t) == t # NoOne /\ bridge[t] # NoRow

\* What the row says of the person, and whom the resolver takes that for.
Automatic(f) ==
    LET described == bridge[f][1]
        matched == Matched([t \in Bridged("identity") |-> evidence[f][t]])
    IN IF described \in Ident THEN described
       ELSE IF matched = {} THEN NoOne ELSE CHOOSE t \in matched : TRUE

Confirmed(f) == mapping[f] # NoOne

\* IdentityResolver.resolve: a confirmed pair wins; its target may be missing.
Verdict(f) ==
    LET t == IF Confirmed(f) THEN mapping[f] ELSE Automatic(f)
    IN IF Loaded(t) THEN t ELSE NoOne

\* Mutant of Skipped: the flag of a pair that was confirmed once is not read.
NeverSkipped(f) == FALSE

\* A person decided this one, and the file does not say otherwise now.
Skipped(f) == manual[f] /\ ~Confirmed(f)

Planned ==
    {f \in Bridged("performance") :
        /\ Verdict(f) # NoOne
        /\ ~Skipped(f)
        /\ bridge[Verdict(f)] # bridge[f]}

From(f) == bridge[f]
To(f) == bridge[Verdict(f)]

(* merge_all, the collisions: plans in order, against what is already accepted. *)

\* Mutant of Decide: the seasons accepted in this batch are forgotten.
DecideOnSnapshot(state, f) ==
    IF state.held[From(f)] \cap state.held[To(f)] # {} THEN state
    ELSE [state EXCEPT !.merged = @ \cup {f}]

Decide(state, f) ==
    IF state.held[From(f)] \cap state.held[To(f)] # {} THEN state
    ELSE [held   |-> [state.held EXCEPT ![To(f)] = @ \cup state.held[From(f)]],
          merged |-> state.merged \cup {f}]

\* What is held and merged when the first n planned merges are decided.
Batch(order) ==
    LET decided[n \in 0 .. Len(order)] ==
            IF n = 0 THEN [held |-> [r \in row |-> Held(r)], merged |-> {}]
            ELSE Decide(decided[n - 1], order[n])
    IN decided

Merged(order) == Batch(order)[Len(order)].merged

(* merge_all, the writes: statistics, then mappings, then the duplicates are     *)
(* deleted and everything that still points at them goes with them.              *)

Moves(merged) == {From(f) : f \in merged}

\* A row that two merges move goes to either of their targets.
Destinations(merged) ==
    [r \in Moves(merged) |-> {To(f) : f \in {g \in merged : From(g) = r}}]

Alive(r, deleted) == IF r \in deleted THEN NoRow ELSE r

\* Mutant of Repointed: the duplicates are deleted first, so nothing is repointed.
NotRepointed(merged) == bridge

Repointed(merged) == [p \in Person |-> IF p \in merged THEN To(p) ELSE bridge[p]]

Write(merged, to) ==
    LET deleted == Moves(merged)
        moved == [x \in Perf \X Season |->
                    IF stands[x] \in deleted THEN to[stands[x]] ELSE stands[x]]
    IN /\ stands' = [x \in Perf \X Season |-> Alive(moved[x], deleted)]
       /\ bridge' = [p \in Person |-> Alive(Repointed(merged)[p], deleted)]
       /\ row' = row \ deleted
       /\ values' = {v \in values : v[1] \notin deleted}
       /\ manual' = [f \in Perf |-> IF f \in merged THEN Confirmed(f) ELSE manual[f]]
       /\ sharing' = sharing \cup SharingIn(Repointed(merged))

\* The planned merges come in the order two unordered queries return them.
Resolve ==
    /\ phase = "loaded"
    /\ \E order \in SetToSeqs(Planned) :
        LET merged == Merged(order) IN
        \E to \in [Moves(merged) -> row] :
            /\ \A r \in Moves(merged) : to[r] \in Destinations(merged)[r]
            /\ Write(merged, to)
    /\ phase' = "idle"
    /\ UNCHANGED <<evidence, mapping, played, loads, edits>>

\* A person confirms a pair, corrects it or takes it back.
Edit ==
    /\ phase = "idle" /\ edits < MaxEdits
    /\ \E f \in Perf, t \in Ident \cup {NoOne} :
        /\ mapping[f] # t
        /\ mapping' = [mapping EXCEPT ![f] = t]
    /\ edits' = edits + 1
    /\ UNCHANGED <<row, bridge, manual, stands, values, evidence, played, sharing,
                   loads, phase>>

-----------------------------------------------------------------------------
Init ==
    /\ row = {}
    /\ bridge = [p \in Person |-> NoRow]
    /\ manual = [f \in Perf |-> FALSE]
    /\ stands = [x \in Perf \X Season |-> NoRow]
    /\ values = {}
    /\ evidence = [f \in Perf |-> NoLikeness]
    /\ mapping = [f \in Perf |-> NoOne]
    /\ played = [f \in Perf |-> {}]
    /\ sharing = {}
    /\ loads = [s \in Sources |-> 0]
    /\ edits = 0
    /\ phase = "idle"

Next == LoadPerformance \/ LoadIdentity \/ Resolve \/ Edit

Spec == Init /\ [][Next]_vars

-----------------------------------------------------------------------------
(* Properties *)

\* No merge, and no purge or load of the other provider, loses a season that was
\* loaded (resolve.py merge_all "deleting first takes the statistics", and
\* load_providers.py purge).
SeasonsKept ==
    \A f \in Perf, s \in Season : s \in played[f] => stands[<<f, s>>] # NoRow

\* No player has the same season of a competition twice: a merge that would do it
\* is refused, the earlier merges of its batch counted.
SeasonOncePerPlayer ==
    \A f, g \in Perf, s \in Season :
        f # g /\ stands[<<f, s>>] # NoRow => stands[<<f, s>>] # stands[<<g, s>>]

\* After a refresh every valuation is of the identity provider's last load: a
\* purge leaves none of an earlier one beside it, on any row.
ValuationsOfOneLoad == \A v \in values : v[2] = loads["identity"]

\* A player's seasons stand on the row its own mapping names, as long as it never
\* shared a row with another of the provider's players.
SeasonsFollowTheirMapping ==
    \A f \in Perf \ sharing : \A s \in played[f] : stands[<<f, s>>] = bridge[f]

\* What a person confirmed is moved by an automated run only to what the file
\* says now ("an automated re-run must not quietly undo it", resolve.py); the
\* performance provider's own reload starts afresh.
ConfirmedStays ==
    [][\A f \in Perf \ sharing :
        manual[f] /\ bridge'[f] # bridge[f] /\ loads' = loads =>
            Confirmed(f) /\ (bridge'[f])[1] = mapping[f]]_vars

=============================================================================
