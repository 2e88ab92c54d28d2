------------------------- MODULE GenerationLifecycle -------------------------
(***************************************************************************)
(* What the refresh pipeline promises about the status a reader sees in    *)
(* fact_refresh_generation: the table of transitions at the head of        *)
(* generations.py, with nothing of how a run works.  RefreshGenerations    *)
(* implements it.                                                          *)
(***************************************************************************)
EXTENDS Naturals

CONSTANT Gen          \* the generations, in creation order

VARIABLE status       \* status[g]: the authoritative status of generation g

Live == {"IN_PROGRESS", "COMPLETE", "VALIDATED"}
Status == Live \cup {"PUBLISHED", "FAILED"}
Absent == "ABSENT"

(***************************************************************************)
(* One operator for the status of one generation: every other generation   *)
(* keeps its own.                                                          *)
(***************************************************************************)
Move(g, from, to) ==
    /\ status[g] \in from
    /\ status' = [status EXCEPT ![g] = to]

Init == status = [g \in Gen |-> Absent]

\* A generation becomes known, possibly only when its fetch has ended, and
\* only while no other one is live.
Appear(g) ==
    /\ \A h \in Gen : status[h] \notin Live
    /\ \E s \in {"IN_PROGRESS", "COMPLETE", "FAILED"} : Move(g, {Absent}, s)

\* The fetch put every expected player on disk.
Complete(g) == Move(g, {"IN_PROGRESS"}, "COMPLETE")

\* The fetch met a refused key.
Refuse(g) == Move(g, {"IN_PROGRESS"}, "FAILED")

\* Every candidate check passed.
Validate(g) == Move(g, {"COMPLETE"}, "VALIDATED")

\* The promotion.
Publish(g) == Move(g, {"COMPLETE", "VALIDATED"}, "PUBLISHED")

\* A rollback un-publishes.
Rollback(g) == Move(g, {"PUBLISHED"}, "VALIDATED")

\* A person gives up on a generation, whatever has become of it.
Abandon(g) == Move(g, Status \cup {Absent}, "FAILED")

\* What the pipeline does of its own accord, and what only a person does.
Pipeline(g) == Appear(g) \/ Complete(g) \/ Refuse(g) \/ Validate(g) \/ Publish(g)
Person(g) == Rollback(g) \/ Abandon(g)

Next == \E g \in Gen : Pipeline(g) \/ Person(g)

Spec == Init /\ [][Next]_status

\* A pipeline to which nobody gives a command.
Unattended == Init /\ [][\E g \in Gen : Pipeline(g)]_status
=============================================================================
