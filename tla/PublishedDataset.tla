-------------------------- MODULE PublishedDataset --------------------------
(***************************************************************************)
(* What the publication promises its readers: the dataset served is made   *)
(* of one refresh of each provider, it changes one provider at a time, a   *)
(* refresh is published once, and the ledger says what is served.          *)
(* Publication implements it as long as nobody gives a command.            *)
(***************************************************************************)
EXTENDS Naturals, Sequences

CONSTANTS
    Source,      \* the providers
    Refresh      \* identities of refreshes, 0 for what was there before the ledger

VARIABLES
    served,      \* the refresh of each provider that readers see
    ledger       \* the publications, oldest first

Init == served = [s \in Source |-> 0] /\ ledger = <<>>

\* Every other provider is served what it was served before.
Publish(s, r) ==
    /\ \A i \in DOMAIN ledger : ledger[i] # [src |-> s, ref |-> r]
    /\ served' = [served EXCEPT ![s] = r]
    /\ ledger' = Append(ledger, [src |-> s, ref |-> r])

Next == \E s \in Source, r \in Refresh \ {0} : Publish(s, r)

Spec == Init /\ [][Next]_<<served, ledger>>
=============================================================================
