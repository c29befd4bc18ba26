--------------------------- MODULE WebhookDelivery --------------------------
(***************************************************************************)
(* Delivery of stream lifecycle events to customers' endpoints: the outbox *)
(* (webhook-outbox.ts), the worker that drains it (webhook-delivery-       *)
(* worker.ts), one HTTP attempt and the endpoint's failure breaker         *)
(* (webhook-delivery.ts), the delivery records and the dead-letter queue   *)
(* (webhook-delivery-store.ts), the operator's halt switch (admin-guard.ts)*)
(* and the two operator routes that send an event again.                   *)
(*                                                                         *)
(* The process is single threaded: code runs without interruption up to an *)
(* await on fetch or on the backoff timer, so an action is the stretch     *)
(* between two such awaits.  All of this state is process memory; a        *)
(* restart loses it and is not modelled.  The backoff delay is only ever   *)
(* "some time later".                                                      *)
(*                                                                         *)
(* A definition named Mutant... is a faulty form of the one it precedes.   *)
(* The specification never uses it: it shows that a property can fail.     *)
(***************************************************************************)
EXTENDS Naturals, Sequences, FiniteSets

CONSTANTS
    Endpoints,
    MaxEvents,      \* bound: events enqueued
    MaxHalts,       \* bound: times the operator halts dispatch
    MaxManual,      \* bound: replays and redeliveries
    MaxAttempts,    \* RetryConfig.maxAttempts
    Threshold,      \* failures that open an endpoint's breaker
    DrainLimit      \* entries one drain takes

ASSUME WebhookAssumption ==
    /\ MaxEvents \in Nat /\ MaxHalts \in Nat /\ MaxManual \in Nat
    /\ MaxAttempts \in Nat \ {0}
    /\ Threshold \in Nat \ {0}
    /\ DrainLimit \in Nat \ {0}

VARIABLES
    outbox,         \* entries in insertion order: endpoint and status
    deliveries,     \* delivery records in creation order, and the phase of
                    \* the processDelivery call that works on each
    dlq,            \* dead letters: the failed delivery and the one that replays it
    queue,          \* what is left of the running drain's snapshot, oldest first
    current,        \* the delivery that drain is waiting for, 0 if none
    breaker,        \* per endpoint: failures counted, 5 minutes over since the first
    halted,         \* the admin breaker for webhooks is open
    halts,          \* history: times it was opened
    received        \* history: events accepted in full by their endpoint

vars == <<outbox, deliveries, dlq, queue, current, breaker, halted, halts, received>>

NoFailures == [failures |-> 0, expired |-> FALSE]

Init ==
    /\ outbox = <<>> /\ deliveries = <<>> /\ dlq = <<>>
    /\ queue = {} /\ current = 0
    /\ breaker = [ep \in Endpoints |-> NoFailures]
    /\ halted = FALSE /\ halts = 0
    /\ received = {}

Unsettled == {"pending", "processing"}
Running   == {"fetch", "backoff"}

-----------------------------------------------------------------------------
(* Stores *)

(* A new record.  full: it carries the event, and not the stub that a dead *)
(* letter keeps in its place.                                              *)
Delivery(ep, event, origin, of, full) ==
    [ endpoint |-> ep, event |-> event, origin |-> origin, of |-> of,
      full |-> full, attempts |-> 0, status |-> "pending", phase |-> "over" ]

(* isCircuitOpen: once the timeout is over the breaker is forgotten. *)
MutantCircuitOpen(ep) == breaker[ep].failures > Threshold /\ ~breaker[ep].expired
CircuitOpen(ep) == breaker[ep].failures >= Threshold /\ ~breaker[ep].expired
CircuitChecked(ep) ==
    IF breaker[ep].failures >= Threshold /\ breaker[ep].expired
    THEN [breaker EXCEPT ![ep] = NoFailures] ELSE breaker

(* recordFailure: openedAt is the time of the first failure. *)
FailureRecorded(ep) == [breaker EXCEPT ![ep].failures = @ + 1]

(* moveToDLQ: a record without attempts is left as it is.  The letter's    *)
(* payload is a stub: event type 'unknown', no stream, no data.            *)
Lettered(letters, record, d) ==
    IF record.attempts = 0 THEN letters
    ELSE Append(letters, [delivery |-> d, replayedBy |-> 0])

DeadStatus(record) == IF record.attempts = 0 THEN record.status ELSE "dlq"

-----------------------------------------------------------------------------
(* processDelivery ends for delivery d, in the state record, and with it   *)
(* the drain's wait if it was the drain that started it.                   *)
OutboxWith(entries, record, status) ==
    IF record.origin = "outbox" THEN [entries EXCEPT ![record.event].status = status]
                                ELSE entries

MutantConclude(entries, records, d, record, status) ==
    /\ deliveries' = [records EXCEPT ![d] = [record EXCEPT !.phase = "over"]]
    /\ outbox' = OutboxWith(entries, record, status)
    /\ current' = IF record.status = "delivered" THEN 0 ELSE current

Conclude(entries, records, d, record, status) ==
    /\ deliveries' = [records EXCEPT ![d] = [record EXCEPT !.phase = "over"]]
    /\ outbox' = OutboxWith(entries, record, status)
    /\ current' = IF record.origin = "outbox" THEN 0 ELSE current

MutantHeld(entries, records, letters, d) ==
    /\ Conclude(entries, records, d, records[d], "processing")
    /\ dlq' = letters
    /\ UNCHANGED breaker

MutantHeldDone(entries, records, letters, d) ==
    /\ Conclude(entries, records, d, records[d], "delivered")
    /\ dlq' = letters
    /\ UNCHANGED breaker

(* The operator has halted dispatch: nothing is sent, the entry goes back. *)
Held(entries, records, letters, d) ==
    /\ Conclude(entries, records, d, records[d], "pending")
    /\ dlq' = letters
    /\ UNCHANGED breaker

DeadLettered(entries, records, letters, d, record) ==
    /\ Conclude(entries, records, d,
                [record EXCEPT !.status = DeadStatus(record)], "dlq")
    /\ dlq' = Lettered(letters, record, d)

(* isCircuitBreakerOpen("webhook"), asked before every attempt. *)
MutantHaltIgnored == FALSE
HaltSeen == halted

(* The next turn of the attempt loop, up to the fetch. *)
Attempt(entries, records, letters, d) ==
    LET ep == records[d].endpoint
    IN  \/ HaltSeen /\ Held(entries, records, letters, d)
        \/ /\ ~HaltSeen /\ CircuitOpen(ep)
           /\ DeadLettered(entries, records, letters, d, records[d])
           /\ UNCHANGED breaker
        \/ /\ ~HaltSeen /\ ~CircuitOpen(ep)
           /\ deliveries' = [records EXCEPT ![d].phase = "fetch"]
           /\ outbox' = entries /\ dlq' = letters
           /\ current' = IF records[d].origin = "outbox" THEN d ELSE current
           /\ breaker' = CircuitChecked(ep)

(* createDelivery and the first turn of the loop. *)
processDelivery(entries, letters, record) ==
    Attempt(entries, Append(deliveries, record), letters, Len(deliveries) + 1)

-----------------------------------------------------------------------------
(* A transition of a stream with a webhook URL has been stored. *)
addToOutbox(ep) ==
    /\ Len(outbox) < MaxEvents
    /\ outbox' = Append(outbox, [endpoint |-> ep, status |-> "pending"])
    /\ UNCHANGED <<deliveries, dlq, queue, current, breaker, halted, halts, received>>

(* getPendingOutboxEntries: the oldest unsettled entries. *)
PendingEntries ==
    LET waiting == {e \in DOMAIN outbox : outbox[e].status \in Unsettled}
    IN  {e \in waiting : Cardinality({older \in waiting : older <= e}) <= DrainLimit}

(* A tick of the worker's timer; the next one is set when the drain ends.  *)
drainOutbox ==
    /\ queue = {} /\ current = 0
    /\ ~halted
    /\ PendingEntries # {}
    /\ queue' = PendingEntries
    /\ UNCHANGED <<outbox, deliveries, dlq, current, breaker, halted, halts, received>>

processOutboxEntry ==
    \E e \in queue :
        /\ current = 0
        /\ \A other \in queue : e <= other
        /\ queue' = queue \ {e}
        /\ processDelivery([outbox EXCEPT ![e].status = "processing"], dlq,
                           Delivery(outbox[e].endpoint, e, "outbox", e, TRUE))
        /\ UNCHANGED <<halted, halts, received>>

-----------------------------------------------------------------------------
(* The fetch of delivery d comes to an end *)

Recorded(d) == [deliveries[d] EXCEPT !.attempts = @ + 1]

ReceivedBy(d) ==
    IF deliveries[d].full THEN received \cup {deliveries[d].event} ELSE received

(* 2xx *)
Accepted(d) ==
    /\ deliveries[d].phase = "fetch"
    /\ received' = ReceivedBy(d)
    /\ breaker' = [breaker EXCEPT ![deliveries[d].endpoint] = NoFailures]
    /\ Conclude(outbox, deliveries, d,
                [Recorded(d) EXCEPT !.status = "delivered"], "delivered")
    /\ UNCHANGED <<dlq, queue, halted, halts>>

(* 3xx, or 4xx other than 408 and 429 *)
Refused(d) ==
    /\ deliveries[d].phase = "fetch"
    /\ breaker' = FailureRecorded(deliveries[d].endpoint)
    /\ DeadLettered(outbox, deliveries, dlq, d, Recorded(d))
    /\ UNCHANGED <<queue, halted, halts, received>>

(* 5xx, 408, 429, a network error or no answer in 30 s.  When the answer   *)
(* is lost the endpoint may have accepted the event all the same.          *)
Failed(d) ==
    /\ deliveries[d].phase = "fetch"
    /\ breaker' = FailureRecorded(deliveries[d].endpoint)
    /\ received' \in {received, ReceivedBy(d)}
    /\ \/ /\ Recorded(d).attempts < MaxAttempts
          /\ deliveries' = [deliveries EXCEPT ![d] = [Recorded(d) EXCEPT !.phase = "backoff"]]
          /\ UNCHANGED <<outbox, dlq, current>>
       \/ /\ Recorded(d).attempts = MaxAttempts
          /\ DeadLettered(outbox, deliveries, dlq, d, Recorded(d))
    /\ UNCHANGED <<queue, halted, halts>>

Answered(d) == Accepted(d) \/ Refused(d) \/ Failed(d)

(* The backoff timer of delivery d fires. *)
Retry(d) ==
    /\ deliveries[d].phase = "backoff"
    /\ Attempt(outbox, deliveries, dlq, d)
    /\ UNCHANGED <<queue, halted, halts, received>>

-----------------------------------------------------------------------------
(* Operators *)

Manual == Len(SelectSeq(deliveries, LAMBDA r : r.origin # "outbox"))

(* POST /api/webhooks/dlq/:dlqId/replay.  An entry that has been replayed  *)
(* is answered from its record, and nothing changes.                       *)
replayFromDLQ(l) ==
    LET failed == deliveries[dlq[l].delivery]
    IN  /\ Manual < MaxManual
        /\ dlq[l].replayedBy = 0
        /\ processDelivery(outbox,
                           [dlq EXCEPT ![l].replayedBy = Len(deliveries) + 1],
                           Delivery(failed.endpoint, failed.event, "replay", l, FALSE))
        /\ UNCHANGED <<queue, halted, halts, received>>

(* POST /api/admin/webhooks/redeliver: the original record is not touched. *)
reissueDelivery(d) ==
    LET original == deliveries[d]
    IN  /\ Manual < MaxManual
        /\ processDelivery(outbox, dlq,
                           Delivery(original.endpoint, original.event, "redeliver",
                                    d, original.full))
        /\ UNCHANGED <<queue, halted, halts, received>>

(* POST /api/admin/circuit-breaker *)
setCircuitBreaker(open) ==
    /\ open # halted
    /\ open => halts < MaxHalts
    /\ halted' = open
    /\ halts' = IF open THEN halts + 1 ELSE halts
    /\ UNCHANGED <<outbox, deliveries, dlq, queue, current, breaker, received>>

(* Five minutes have passed since the endpoint's first counted failure. *)
BreakerTimeout(ep) ==
    /\ breaker[ep].failures > 0 /\ ~breaker[ep].expired
    /\ breaker' = [breaker EXCEPT ![ep].expired = TRUE]
    /\ UNCHANGED <<outbox, deliveries, dlq, queue, current, halted, halts, received>>

-----------------------------------------------------------------------------
Next ==
    \/ \E ep \in Endpoints : addToOutbox(ep) \/ BreakerTimeout(ep)
    \/ drainOutbox \/ processOutboxEntry
    \/ \E d \in DOMAIN deliveries : Answered(d) \/ Retry(d) \/ reissueDelivery(d)
    \/ \E l \in DOMAIN dlq : replayFromDLQ(l)
    \/ \E open \in BOOLEAN : setCircuitBreaker(open)

(* A fetch is aborted after 30 s, a timer fires, and the worker sets its   *)
(* next tick when a drain is over.  Nothing makes an operator act.         *)
MaxDeliveries == MaxEvents * (MaxHalts + 1) + MaxManual
Fairness ==
    /\ WF_vars(drainOutbox) /\ WF_vars(processOutboxEntry)
    /\ \A d \in 1..MaxDeliveries :
        /\ WF_vars(d \in DOMAIN deliveries /\ Answered(d))
        /\ WF_vars(d \in DOMAIN deliveries /\ Retry(d))

Spec == Init /\ [][Next]_vars /\ Fairness

-----------------------------------------------------------------------------
IsEntry(entry) ==
    entry \in [endpoint : Endpoints,
               status : {"pending", "processing", "delivered", "dlq"}]

IsDelivery(r) ==
    r \in [ endpoint : Endpoints, event : 1..Len(outbox),
            origin : {"outbox", "replay", "redeliver"},
            of : Nat, full : BOOLEAN, attempts : 0..MaxAttempts,
            status : {"pending", "delivered", "dlq"}, phase : Running \cup {"over"} ]

(* Type invariant.  Its bound on the attempts says that no delivery is     *)
(* tried more than MaxAttempts times (processDelivery's loop).             *)
TypeOK ==
    /\ \A e \in DOMAIN outbox : IsEntry(outbox[e])
    /\ \A d \in DOMAIN deliveries : IsDelivery(deliveries[d])
    /\ \A l \in DOMAIN dlq :
        /\ dlq[l].delivery \in DOMAIN deliveries
        /\ dlq[l].replayedBy \in {0} \cup DOMAIN deliveries
    /\ queue \subseteq DOMAIN outbox
    /\ current \in {0} \cup DOMAIN deliveries
    /\ breaker \in [Endpoints -> [failures : Nat, expired : BOOLEAN]]
    /\ halted \in BOOLEAN /\ halts \in 0..MaxHalts
    /\ received \subseteq DOMAIN outbox

(* An entry is processing exactly while one delivery of it is running, and *)
(* that is the one the drain waits for: a drain, a halt and a manual       *)
(* redelivery never leave an entry claimed by nobody (processOutboxEntry). *)
ProcessingIsRunning ==
    \A e \in DOMAIN outbox :
        LET running == {d \in DOMAIN deliveries :
                          /\ deliveries[d].origin = "outbox" /\ deliveries[d].event = e
                          /\ deliveries[d].phase \in Running}
        IN  running = IF outbox[e].status = "processing" THEN {current} ELSE {}

Starts(d) ==
    /\ d \in DOMAIN deliveries' /\ deliveries'[d].phase = "fetch"
    /\ d \in DOMAIN deliveries => deliveries[d].phase # "fetch"

(* While the operator has halted dispatch no request leaves: neither for a *)
(* new entry nor for a delivery that wakes from its backoff, nor for one   *)
(* sent again by hand (attemptDelivery).                                   *)
HaltStopsTraffic == [][ halted => \A d \in DOMAIN deliveries' : ~Starts(d) ]_vars

(* An endpoint that failed Threshold times in a row, the first within the  *)
(* last five minutes, is left alone by every delivery, whichever of them   *)
(* failed (isCircuitOpen, recordFailure).                                  *)
BrokenEndpointRests ==
    [][ \A d \in DOMAIN deliveries' : Starts(d) =>
          LET b == breaker[deliveries'[d].endpoint]
          IN  b.failures < Threshold \/ b.expired ]_vars

Fate(e) ==
    IF e \notin DOMAIN outbox THEN "none"
    ELSE CASE outbox[e].status \in Unsettled    -> "waiting"
           [] outbox[e].status = "delivered"    -> "delivered"
           [] outbox[e].status = "dlq"          -> "parked"

Promise == INSTANCE WebhookPromise WITH fate <- [e \in 1..MaxEvents |-> Fate(e)]

(* The outbox keeps its promise: an entry is delivered only if the event   *)
(* arrived in full, and a decision about it is never taken back.           *)
PromiseKept == Promise!Spec

(* Every event is decided on in the end, however its endpoint behaves, if  *)
(* the operator does not halt dispatch for ever.                           *)
EveryEventSettles ==
    <>[]~halted =>
        \A e \in 1..MaxEvents :
            (e \in DOMAIN outbox) ~> (Fate(e) \in {"delivered", "parked"})
=============================================================================
