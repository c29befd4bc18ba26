----------------------------- MODULE StreamApi -----------------------------
(***************************************************************************)
(* The stream routes of the Next.js backend (app/api/streams, and the      *)
(* group actions of app/api/v2/streams/multi) over the in-memory store:    *)
(* the stream rows, the per-stream lock, the idempotency records, and the  *)
(* requests that are being served.                                         *)
(*                                                                         *)
(* The process is single threaded, so a request runs without interruption  *)
(* up to an await: on a lock, on the settlement client, on Horizon, or on  *)
(* the body of the response it is about to store.  An action is the        *)
(* stretch between two of them.  The schedule of a stream is fixed when it *)
(* is created, here 0..Duration with one unit of money vesting per unit of *)
(* time.  Authorisation, rate limits, history, audit and events are left   *)
(* out: they change nothing that is read here.                             *)
(*                                                                         *)
(* A definition named Mutant... is a faulty form of the one it precedes.   *)
(* The specification never uses it: it shows that a property can fail.     *)
(***************************************************************************)
EXTENDS Integers, Sequences, FiniteSets, SequencesExt

CONSTANTS
    Streams,        \* stream ids, numbers for the order of their names
    Group,          \* the streams of one multi-recipient group, a sequence
    Targets,        \* streams that single-stream requests name
    Batches,        \* id lists that batch requests name
    Keys,           \* values of the Idempotency-Key header
    Amounts,        \* amounts asked for by a withdrawal; All: none given
    All,
    Duration,       \* of every schedule
    MaxTime,        \* bound: last instant
    MaxRequests     \* bound: requests served

ASSUME ApiAssumption ==
    /\ Streams \subseteq Nat
    /\ Group \in Seq(Streams) /\ Targets \subseteq Streams
    /\ \A ids \in Batches : ids \in Seq(Streams) /\ ids # <<>>
    /\ Duration \in Nat \ {0} /\ MaxTime \in Nat /\ MaxRequests \in Nat
    /\ Amounts \ {All} \subseteq Nat \ {0}

VARIABLES
    now,
    stream,         \* db.streams
    queue,          \* per stream: the requests that hold or await its lock
    requests,       \* requests in order of arrival
    idempotency,    \* tokens with a stored response
    paid,           \* history: what withdrawals and cancellations paid out
    settledOnChain, \* history: streams the settlement client has settled
    applied,        \* history: tokens whose request has changed a stream
    appliedTwice    \* history: tokens for which that happened again

vars == <<now, stream, queue, requests, idempotency,
          paid, settledOnChain, applied, appliedTwice>>

Status == {"draft", "active", "paused", "ended", "withdrawn", "cancelled"}
NoTime == -1

(* The transition table of state-machine.ts. *)
TRANSITIONS ==
    { <<"draft", "start", "active">>, <<"draft", "stop", "ended">>,
      <<"active", "start", "active">>, <<"active", "stop", "ended">>,
      <<"active", "settle", "ended">>, <<"active", "cancel", "cancelled">>,
      <<"active", "pause", "paused">>,
      <<"paused", "start", "active">>, <<"paused", "stop", "ended">>,
      <<"paused", "settle", "ended">>, <<"paused", "cancel", "cancelled">>,
      <<"paused", "pause", "paused">>,
      <<"ended", "stop", "ended">>, <<"ended", "settle", "ended">>,
      <<"ended", "withdraw", "withdrawn">>, <<"withdrawn", "withdraw", "withdrawn">> }

Legal(status, action) == \E next \in Status : <<status, action, next>> \in TRANSITIONS
nextStatus(status, action) ==
    CHOOSE next \in Status : <<status, action, next>> \in TRANSITIONS

Opened(status) ==
    [ status |-> status, pausedAt |-> NoTime, pausedDuration |-> 0,
      released |-> 0, tx |-> FALSE, withdrawal |-> "none" ]

Init ==
    /\ now = 0
    /\ stream \in [Streams -> {Opened("draft"), Opened("active")}]
    /\ queue = [id \in Streams |-> <<>>]
    /\ requests = <<>>
    /\ idempotency = {}
    /\ paid = [id \in Streams |-> 0]
    /\ settledOnChain = {} /\ applied = {} /\ appliedTwice = {}

(* resolveEscrowState: what has vested, whatever the status. *)
Vested(s, t) ==
    LET reached == IF s.pausedAt = NoTime THEN t ELSE Min({t, s.pausedAt})
    IN  Max({0, Min({reached - s.pausedDuration, Duration})})

-----------------------------------------------------------------------------
(* Requests, locks and idempotency records *)

SingleOps == {"start", "stop", "pause", "cancel"}
WrappedOps == {"settle", "withdraw"}            \* served by withIdempotency
BatchOps == {"batch_start", "batch_stop"}
GroupOps == {"group_start", "group_pause", "group_stop"}

(* A request: the locks it holds while it awaits another, the row it holds *)
(* across an await, its answer once it has one.                            *)
Request(op, ids, key, amount) ==
    [ op |-> op, ids |-> ids, key |-> key, amount |-> amount,
      pc |-> "lock", held |-> {}, answer |-> "none", row |-> Opened("draft") ]
Done == [Request("none", <<>>, "none", 0) EXCEPT !.pc = "done"]

(* The scope of a key: route and stream, or the route alone for a batch.   *)
(* A stored response answers every later request with the token: it is     *)
(* replayed, or the request is refused because its body differs.           *)
Token(r) == <<r.op, IF r.op \in BatchOps THEN <<>> ELSE r.ids, r.key>>
Known(r) == Token(r) \in idempotency

(* Groups and batches take their locks in the order of the names. *)
Remaining(r) == ToSet(r.ids) \ r.held
MutantNextLock(r) == r.ids[Cardinality(r.held) + 1]
NextLock(r) == Min(Remaining(r))

(* withLock is a chain of promises: whoever asked first holds the lock, and *)
(* whoever asked next has it when the holder is done.                      *)
MutantIsNext(i, id) == TRUE
IsNext(i, id) == Head(queue[id]) = i

Joined(id, i) == [queue EXCEPT ![id] = Append(@, i)]
Released(i) ==
    [id \in Streams |-> IF queue[id] # <<>> /\ Head(queue[id]) = i THEN Tail(queue[id])
                                                                   ELSE queue[id]]

(* Request i holds every lock it needs, and its handler runs. *)
Holds(i, op) ==
    LET r == requests[i]
    IN  /\ r.op = op /\ r.pc = "lock"
        /\ Remaining(r) = {NextLock(r)}
        /\ IsNext(i, NextLock(r))

Answer(i) ==
    /\ requests' = [requests EXCEPT ![i] = Done]
    /\ queue' = Released(i)

(* Request i has changed streams: count it under its token. *)
Counted(r) ==
    /\ applied' = applied \cup {Token(r)}
    /\ appliedTwice' = IF Token(r) \in applied THEN appliedTwice \cup {Token(r)}
                                               ELSE appliedTwice
NotCounted == UNCHANGED <<applied, appliedTwice>>

(* Answered without an effect: refused, replayed or already in that state. *)
NoEffect(i) ==
    /\ Answer(i)
    /\ NotCounted
    /\ UNCHANGED <<now, stream, idempotency, paid, settledOnChain>>

(* Answered 200, stored under the key. *)
Apply(i, rows) ==
    /\ stream' = rows
    /\ Counted(requests[i])
    /\ idempotency' = idempotency \cup {Token(requests[i])}
    /\ Answer(i)
    /\ UNCHANGED <<now, settledOnChain>>

-----------------------------------------------------------------------------
(* A request arrives: if its key is known it is answered at once, and else *)
(* it asks for its first lock.                                             *)
Arrive(op, ids, key, amount) ==
    LET r == Request(op, ids, key, amount)
        i == Len(requests) + 1
    IN  /\ i <= MaxRequests
        /\ \/ /\ Known(r)
              /\ requests' = Append(requests, Done)
              /\ UNCHANGED queue
           \/ /\ ~Known(r)
              /\ requests' = Append(requests, r)
              /\ queue' = Joined(NextLock(r), i)
        /\ UNCHANGED <<now, stream, idempotency, paid, settledOnChain,
                       applied, appliedTwice>>

(* A request for several streams holds one lock and asks for the next.     *)
Acquire(i) ==
    LET r   == requests[i]
        got == [r EXCEPT !.held = @ \cup {NextLock(r)}]
    IN  /\ r.pc = "lock" /\ Remaining(got) # {}
        /\ IsNext(i, NextLock(r))
        /\ requests' = [requests EXCEPT ![i] = got]
        /\ queue' = Joined(NextLock(got), i)
        /\ UNCHANGED <<now, stream, idempotency, paid, settledOnChain,
                       applied, appliedTwice>>

-----------------------------------------------------------------------------
(* Single-stream lifecycle routes.  The key is looked up again under the   *)
(* lock; only a response that changed the stream is stored.                *)

MutantRecheck(i) == FALSE
Recheck(i) == Known(requests[i])

Target(i) == requests[i].ids[1]

MutantStarted(s) == [s EXCEPT !.status = "active",
                              !.pausedDuration = @ + IF s.status = "paused" THEN now ELSE 0,
                              !.pausedAt = NoTime]
Started(s) ==
    [s EXCEPT !.status = "active",
              !.pausedDuration = @ + IF s.status = "paused" THEN now - s.pausedAt ELSE 0,
              !.pausedAt = NoTime]
Stopped(s) == [s EXCEPT !.status = "ended"]
Paused(s)  == [s EXCEPT !.status = "paused", !.pausedAt = now]

start(i) ==
    LET s == stream[Target(i)]
    IN  /\ Holds(i, "start")
        /\ \/ Recheck(i) /\ NoEffect(i)
           \/ ~Recheck(i) /\ s.status \notin {"draft", "paused"} /\ NoEffect(i)
           \/ /\ ~Recheck(i) /\ s.status \in {"draft", "paused"}
              /\ Apply(i, [stream EXCEPT ![Target(i)] = Started(s)])
              /\ UNCHANGED paid

(* stop and pause: the table decides, and a row already there stays as it is. *)
ByTable(i, action, row) ==
    LET status == stream[Target(i)].status
        moves  == Legal(status, action) /\ nextStatus(status, action) # status
    IN  /\ Holds(i, action)
        /\ \/ (Recheck(i) \/ ~moves) /\ NoEffect(i)
           \/ /\ ~Recheck(i) /\ moves
              /\ Apply(i, [stream EXCEPT ![Target(i)] = row])
              /\ UNCHANGED paid

stop(i)  == ByTable(i, "stop", Stopped(stream[Target(i)]))
pause(i) == ByTable(i, "pause", Paused(stream[Target(i)]))

(* The split pays the recipient what has vested.  If the stream has a      *)
(* webhook_url, read here and nowhere else, the route fails after the row  *)
(* is stored, so no response is stored (it asks for escrow.totalAmount,    *)
(* which resolveEscrowState does not return).                              *)
cancel(i) ==
    LET id == Target(i)
        s  == stream[id]
        vested == Vested(s, now)
        cancelled == [s EXCEPT !.status = "cancelled", !.released = vested]
        eligible == /\ s.status \in {"active", "paused"}
                    /\ s.released <= vested
    IN  /\ Holds(i, "cancel")
        /\ \/ (Recheck(i) \/ ~eligible) /\ NoEffect(i)
           \/ /\ ~Recheck(i) /\ eligible
              /\ paid' = [paid EXCEPT ![id] = @ + vested - s.released]
              /\ \/ Apply(i, [stream EXCEPT ![id] = cancelled])
                 \/ /\ stream' = [stream EXCEPT ![id] = cancelled]
                    /\ Counted(requests[i])
                    /\ Answer(i)
                    /\ UNCHANGED <<now, idempotency, settledOnChain>>

-----------------------------------------------------------------------------
(* Batches and groups: all of the streams, or none of them *)

Updated(ids, rows) == [id \in Streams |-> IF id \in ids THEN rows[id] ELSE stream[id]]

(* Resuming through a batch or a group forgets the pause. *)
AllResumed == [id \in Streams |-> [stream[id] EXCEPT !.status = "active", !.pausedAt = NoTime]]
AllStopped == [id \in Streams |-> Stopped(stream[id])]
AllPaused  == [id \in Streams |-> Paused(stream[id])]

(* Batches do not look the key up again, and store every success. *)
Batch(i, op, accepted, moving, rows) ==
    LET ids == ToSet(requests[i].ids)
    IN  /\ Holds(i, op)
        /\ \/ /\ \E id \in ids : stream[id].status \notin accepted
              /\ NoEffect(i)
           \/ /\ \A id \in ids : stream[id].status \in accepted
              /\ Apply(i, Updated({id \in ids : stream[id].status \in moving}, rows))
              /\ UNCHANGED paid

batch_start(i) ==
    Batch(i, "batch_start", {"draft", "paused", "active"}, {"draft", "paused"}, AllResumed)
batch_stop(i) ==
    Batch(i, "batch_stop", {"draft", "active"}, {"draft", "active"}, AllStopped)

(* handleGroupAction *)
GroupAction(i, op, action, rows) ==
    LET ids    == ToSet(requests[i].ids)
        moving == {id \in ids : nextStatus(stream[id].status, action) # stream[id].status}
        legal  == \A id \in ids : Legal(stream[id].status, action)
    IN  /\ Holds(i, op)
        /\ \/ (Recheck(i) \/ ~legal) /\ NoEffect(i)
           \/ /\ ~Recheck(i) /\ legal
              /\ Apply(i, Updated(moving, rows))
              /\ UNCHANGED paid

group_start(i) == GroupAction(i, "group_start", "start", AllResumed)
group_pause(i) == GroupAction(i, "group_pause", "pause", AllPaused)
group_stop(i)  == GroupAction(i, "group_stop", "stop", AllStopped)

-----------------------------------------------------------------------------
(* Routes under withIdempotency: no second look-up, and whatever the       *)
(* answer is, it is stored after the lock has been released.               *)

AnswerLater(i, answer) ==
    /\ requests' = [requests EXCEPT ![i].pc = "store", ![i].answer = answer]
    /\ queue' = Released(i)

Later(i, answer) ==
    /\ AnswerLater(i, answer)
    /\ NotCounted
    /\ UNCHANGED <<now, stream, idempotency, paid, settledOnChain>>

Store(i) ==
    /\ requests[i].pc = "store"
    /\ idempotency' = idempotency \cup {Token(requests[i])}
    /\ requests' = [requests EXCEPT ![i] = Done]
    /\ UNCHANGED <<now, stream, queue, paid, settledOnChain, applied, appliedTwice>>

(* The row is written, kept and the lock held while a service answers. *)
Await(i, pc, row) ==
    /\ stream' = [stream EXCEPT ![Target(i)] = row]
    /\ requests' = [requests EXCEPT ![i].pc = pc, ![i].row = row]
    /\ Counted(requests[i])
    /\ UNCHANGED <<now, queue, idempotency, settledOnChain>>

(* The row says ended, with a made-up transaction, before the client is    *)
(* asked to settle.                                                        *)
settle(i) ==
    LET s == stream[Target(i)]
    IN  /\ Holds(i, "settle")
        /\ \/ ~Legal(s.status, "settle") /\ Later(i, "refused")
           \/ s.status = "ended" /\ Later(i, "ok")
           \/ /\ s.status \in {"active", "paused"}
              /\ Await(i, "chain", [s EXCEPT !.status = "ended", !.tx = TRUE,
                                             !.withdrawal = "pending"])
              /\ UNCHANGED paid

(* settleStream returns a receipt, or throws; then the settlement may have *)
(* gone through all the same.                                              *)
settled(i) ==
    /\ requests[i].pc = "chain"
    /\ \/ /\ stream' = [stream EXCEPT ![Target(i)] = requests[i].row]
          /\ settledOnChain' = settledOnChain \cup {Target(i)}
          /\ AnswerLater(i, "ok")
       \/ /\ settledOnChain' \in {settledOnChain, settledOnChain \cup {Target(i)}}
          /\ AnswerLater(i, "failed")
          /\ UNCHANGED stream
    /\ NotCounted
    /\ UNCHANGED <<now, idempotency, paid>>

(* computeWithdraw: nothing to withdraw, or more asked for than there is.  *)
withdraw(i) ==
    LET r   == requests[i]
        s   == stream[Target(i)]
        due == Vested(s, now) - s.released
        amount == IF r.amount = All THEN due ELSE r.amount
        fits   == due > 0 /\ amount <= due
    IN  /\ Holds(i, "withdraw")
        /\ \/ s.status = "withdrawn" /\ Later(i, "ok")
           \/ s.status \notin {"ended", "withdrawn"} /\ Later(i, "refused")
           \/ s.status = "ended" /\ ~fits /\ Later(i, "refused")
           \/ /\ s.status = "ended" /\ fits
              /\ Await(i, "horizon", [s EXCEPT !.released = @ + amount])
              /\ paid' = [paid EXCEPT ![Target(i)] = @ + amount]

(* evaluateWithdrawalState: without a transaction it fails, and else       *)
(* Horizon has it confirmed, not yet, or not within the time allowed.  If  *)
(* what Horizon sends is not JSON the route fails and stores no response.  *)
evaluateWithdrawalState(i) ==
    LET row == requests[i].row
    IN  /\ requests[i].pc = "horizon"
        /\ \/ /\ \E state \in IF row.tx THEN {"pending", "succeeded", "failed"} ELSE {"failed"} :
                   stream' = [stream EXCEPT ![Target(i)] =
                                [row EXCEPT !.withdrawal = state,
                                            !.status = IF state = "succeeded"
                                                       THEN "withdrawn" ELSE @]]
              /\ AnswerLater(i, "ok")
              /\ NotCounted
              /\ UNCHANGED <<now, idempotency, paid, settledOnChain>>
           \/ row.tx /\ NoEffect(i)

-----------------------------------------------------------------------------
Tick ==
    /\ now < MaxTime
    /\ now' = now + 1
    /\ UNCHANGED <<stream, queue, requests, idempotency, paid, settledOnChain,
                   applied, appliedTwice>>

Arrival ==
    \E key \in Keys :
        \/ \E op \in SingleOps \cup {"settle"}, id \in Targets : Arrive(op, <<id>>, key, All)
        \/ \E amount \in Amounts, id \in Targets : Arrive("withdraw", <<id>>, key, amount)
        \/ \E op \in BatchOps, ids \in Batches : Arrive(op, ids, key, All)
        \/ \E op \in GroupOps : Group # <<>> /\ Arrive(op, Group, key, All)

Serve(i) ==
    \/ Acquire(i)
    \/ start(i) \/ stop(i) \/ pause(i) \/ cancel(i)
    \/ batch_start(i) \/ batch_stop(i)
    \/ group_start(i) \/ group_pause(i) \/ group_stop(i)
    \/ settle(i) \/ settled(i)
    \/ withdraw(i) \/ evaluateWithdrawalState(i)
    \/ Store(i)

Next == Tick \/ Arrival \/ \E i \in DOMAIN requests : Serve(i)

(* The event loop resumes whatever can go on, and the services answer. *)
Fairness == \A i \in 1..MaxRequests : WF_vars(i \in DOMAIN requests /\ Serve(i))

Spec == Init /\ [][Next]_vars /\ Fairness

-----------------------------------------------------------------------------
Row ==
    [ status : Status, pausedAt : {NoTime} \cup 0..MaxTime,
      pausedDuration : 0..MaxTime, released : 0..Duration, tx : BOOLEAN,
      withdrawal : {"none", "pending", "succeeded", "failed"} ]

(* Type invariant.  A row fits together: only a stream that was paused has *)
(* paused_at, only one that was settled reaches withdrawn, and no stream   *)
(* was paused longer than it has existed.                                  *)
TypeOK ==
    /\ now \in 0..MaxTime
    /\ stream \in [Streams -> Row]
    /\ \A id \in Streams :
        LET s == stream[id]
        IN  /\ s.status = "paused" => s.pausedAt # NoTime
            /\ s.status \in {"draft", "active"} => s.pausedAt = NoTime
            /\ s.status = "withdrawn" => s.tx /\ s.withdrawal = "succeeded"
            /\ s.pausedDuration <= IF s.pausedAt = NoTime THEN now ELSE s.pausedAt
    /\ queue \in [Streams -> Seq(1..MaxRequests)]
    /\ \A i \in DOMAIN requests :
        requests[i].pc \in {"lock", "chain", "horizon", "store", "done"}
    /\ paid \in [Streams -> Nat]
    /\ settledOnChain \subseteq Streams
    /\ appliedTwice \subseteq applied

(* The row accounts for every payout, and payouts stay within what has     *)
(* vested, however withdrawals, settlements and cancellations of a stream  *)
(* overlap (withLock, computeWithdraw, computeCancellationSplit).          *)
PayoutsAccounted ==
    \A id \in Streams :
        /\ paid[id] = stream[id].released
        /\ stream[id].released <= Vested(stream[id], now)

(* Under one key a lifecycle request or a group action changes its streams *)
(* at most once, even when a retry is already waiting for the lock as the  *)
(* first one is served (the second look-up under the lock).                *)
AppliedOnce == \A token \in appliedTwice : token[1] \notin SingleOps \cup GroupOps

Action == {"start", "stop", "pause", "cancel", "settle", "withdraw"}

(* Every change of status is one the transition table has, although start, *)
(* the batches and the finality check do not consult it, and although      *)
(* settle and withdraw write the row a second time after an await.         *)
FollowsTable ==
    [][ \A id \in Streams : stream'[id].status # stream[id].status =>
          \E action \in Action :
              <<stream[id].status, action, stream'[id].status>> \in TRANSITIONS ]_vars

(* What has vested never falls, whichever route pauses and resumes.        *)
VestedNeverFalls ==
    [][ \A id \in Streams : Vested(stream[id], now) <= Vested(stream'[id], now') ]_vars

(* Every request is answered: lock chains of single, batch and group       *)
(* requests never wait for one another.  (They are finitely many, so when  *)
(* again and again none is left, each of them is answered.)                *)
Unanswered == \E i \in DOMAIN requests : requests[i].pc # "done"
EveryRequestAnswered == Unanswered ~> ~Unanswered
=============================================================================
