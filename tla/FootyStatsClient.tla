-------------------------- MODULE FootyStatsClient --------------------------
(***************************************************************************)
(* The performance provider's client (app/providers/footystats.py): what a *)
(* call to the API comes to, how a roster of many pages becomes one list,  *)
(* and which canonical records are made of what the API answered.          *)
(*                                                                         *)
(* A competition stands for one competition and its season: the provider   *)
(* has one id for both.  Fields are abstracted to those a record can be    *)
(* lost over; the pauses between calls are left out.                       *)
(***************************************************************************)
EXTENDS Integers, Sequences, SequencesExt, FiniteSets

CONSTANTS
    None,            \* what the API leaves out
    MaxRetries,      \* MAX_RETRIES
    MaxRosterPages   \* MAX_ROSTER_PAGES

ASSUME ClientAssumption == MaxRetries \in Nat \ {0} /\ MaxRosterPages \in Nat \ {0}

-----------------------------------------------------------------------------
(* Selections *)

\* The places in S, in order.
Places(S, n) ==
    LET upto[k \in 0 .. n] ==
            IF k = 0 THEN <<>>
            ELSE IF k \in S THEN Append(upto[k - 1], k) ELSE upto[k - 1]
    IN  upto[n]

At(s, S) == LET places == Places(S, Len(s)) IN [i \in DOMAIN places |-> s[places[i]]]

\* SelectSeq, which the provers cannot expand, by the places it selects.
Where(s, Test(_)) == At(s, {i \in DOMAIN s : Test(s[i])})

-----------------------------------------------------------------------------
(* One call *)

\* One attempt is answered, refused for good, or fails in a way worth another.
Replies == {"answer", "transient", "auth", "not_subscribed", "gone"}

\* What a call comes to: the first attempt that is not worth repeating decides.
Settled(replies) ==
    LET final == {i \in 1 .. MaxRetries : replies[i] # "transient"}
    IN  IF final = {} THEN "failed"
        ELSE LET reply == replies[CHOOSE i \in final : \A j \in final : i <= j]
             IN  IF reply = "gone" THEN "failed" ELSE reply

Get == {Settled(replies) : replies \in [1 .. MaxRetries -> Replies]}

-----------------------------------------------------------------------------
(* The roster *)

\* No pager means one page; an impossible one is bounded.
PageCount(pager) ==
    IF pager = None THEN 1
    ELSE IF pager < 1 THEN 1 ELSE IF pager > MaxRosterPages THEN MaxRosterPages ELSE pager

Held(rows, row) == row.id # None /\ \E i \in DOMAIN rows : rows[i].id = row.id

WithPage(rows, page) ==
    FoldLeft(LAMBDA held, row : IF Held(held, row) THEN held ELSE Append(held, row), rows, page)

\* Page after page, as many as the first one's pager said, until one after the
\* first brings nothing new.  A page past the last is empty.
RosterPages(pages, pager) ==
    LET page(k) == IF k \in DOMAIN pages THEN pages[k] ELSE <<>>
        read[k \in 0 .. PageCount(pager)] ==
            IF k = 0 THEN [rows |-> <<>>, more |-> TRUE]
            ELSE IF ~read[k - 1].more THEN read[k - 1]
            ELSE LET rows == WithPage(read[k - 1].rows, page(k))
                 IN  [rows |-> rows,
                      more |-> k = 1 \/ Len(rows) > Len(read[k - 1].rows)]
    IN  read[PageCount(pager)].rows

Named(rows) == Where(rows, LAMBDA row : row.id # None)

-----------------------------------------------------------------------------
(* Canonical records *)

\* An impossible height is unknown; a row without a club plays for "unknown".
Identity(row, c) ==
    [sid |-> row.id, comp |-> c,
     height |-> IF row.height = "impossible" THEN None ELSE row.height,
     club |-> IF row.club = None THEN "unknown" ELSE row.club]

GetPlayers(roster, c) ==
    LET rows == Named(roster) IN [i \in DOMAIN rows |-> Identity(rows[i], c)]

\* A negative figure is no figure; what contradicts another figure is kept.
Stats(figures) == IF figures = "negative" THEN "silent" ELSE figures

\* Of everything the provider holds on a player, the record of this competition.
GetPlayerStats(details, c) ==
    IF c \in DOMAIN details THEN Stats(details[c]) ELSE None

\* One record for each player of the roster that has one.
GetCompetitionStats(roster, details, c) ==
    LET rows == Where(Named(roster),
                      LAMBDA row : GetPlayerStats(details[row.id], c) # None)
    IN  [i \in DOMAIN rows |->
            [sid |-> rows[i].id, comp |-> c, figures |-> GetPlayerStats(details[rows[i].id], c)]]
=============================================================================
