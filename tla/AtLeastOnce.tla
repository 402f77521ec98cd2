------------------------------ MODULE AtLeastOnce ------------------------------
(***************************************************************************)
(* What docs/contracts/EVENTS.md promises of event delivery: an event that *)
(* a committed command produced is delivered at least once, possibly more  *)
(* often, and is settled only after a delivery.  Nothing else is           *)
(* delivered, and nothing is delivered again once it is settled.           *)
(***************************************************************************)
EXTENDS Naturals

CONSTANT Event

VARIABLES
    accepted,      \* events whose command committed
    delivered,     \* how often each event reached the broker
    settled        \* events no worker will look at again

vars == <<accepted, delivered, settled>>

Accept(e) ==
    /\ e \notin accepted
    /\ accepted' = accepted \cup {e}
    /\ UNCHANGED <<delivered, settled>>

Deliver(e) ==
    /\ e \in accepted \ settled
    /\ delivered' = [delivered EXCEPT ![e] = @ + 1]
    /\ UNCHANGED <<accepted, settled>>

Settle(e) ==
    /\ delivered[e] > 0
    /\ settled' = settled \cup {e}
    /\ UNCHANGED <<accepted, delivered>>

Init ==
    /\ accepted = {}
    /\ delivered = [e \in Event |-> 0]
    /\ settled = {}

Next == \E e \in Event : Accept(e) \/ Deliver(e) \/ Settle(e)

Spec == Init /\ [][Next]_vars

=============================================================================
