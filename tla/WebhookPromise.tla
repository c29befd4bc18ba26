--------------------------- MODULE WebhookPromise ---------------------------
(***************************************************************************)
(* What the webhook outbox promises the code that enqueues an event: the   *)
(* event waits until its endpoint has accepted it or an operator can find  *)
(* it parked, it is reported delivered only if it arrived, and a decision  *)
(* is final.                                                               *)
(***************************************************************************)
EXTENDS Naturals

CONSTANT MaxEvents      \* bound: events enqueued

Events == 1..MaxEvents

VARIABLES
    fate,               \* what the outbox says of each event
    received            \* events their endpoint has accepted at least once

Init == fate = [e \in Events |-> "none"] /\ received = {}

Enqueue(e) ==
    /\ fate[e] = "none"
    /\ fate' = [fate EXCEPT ![e] = "waiting"]
    /\ UNCHANGED received

(* The endpoint may see an event again: delivery is at least once. *)
Arrive(e) ==
    /\ fate[e] # "none"
    /\ received' = received \cup {e}
    /\ UNCHANGED fate

Deliver(e) ==
    /\ fate[e] = "waiting"
    /\ received' = received \cup {e}
    /\ fate' = [fate EXCEPT ![e] = "delivered"]

(* Parked without having been seen, or seen and the answer lost. *)
Park(e) ==
    /\ fate[e] = "waiting"
    /\ received' \in {received, received \cup {e}}
    /\ fate' = [fate EXCEPT ![e] = "parked"]

Next == \E e \in Events : Enqueue(e) \/ Arrive(e) \/ Deliver(e) \/ Park(e)

Spec == Init /\ [][Next]_<<fate, received>>
=============================================================================
