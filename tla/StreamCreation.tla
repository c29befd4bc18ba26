---------------------------- MODULE StreamCreation ----------------------------
(***************************************************************************)
(* The routes that create streams, over the one idempotency store they     *)
(* share: POST /streams under a lock of its key; POST /v2/streams,         *)
(* /v2/streams/multi and /streams/batch, which look the key up and go on   *)
(* without a lock; and POST /streams/import, which reserves its key, works *)
(* row by row under a deadline, and remembers every row it has imported.   *)
(*                                                                         *)
(* Every await is a point where another request may run.  A deadline that  *)
(* passes is an action only for the import: the other handlers do not look *)
(* at their AbortSignal and finish behind the 504.  Left out: what a 409   *)
(* or a replay answers, requests without a key (each creates), dry runs,   *)
(* and a second caller of import, whose tokens are its own.                *)
(*                                                                         *)
(* A definition named Mutant... is a faulty form of the one it precedes.   *)
(***************************************************************************)
EXTENDS Integers, Sequences, FiniteSets

CONSTANTS
    Keys,           \* idempotency keys
    Rows,           \* row keys of import files (computeRowKey)
    Files,          \* the import files sent: sequences of rows
    MaxRequests,    \* bound: requests received
    MaxExpiries     \* bound: records that pass IDEMPOTENCY_TTL_MS

ASSUME CreationAssumption ==
    /\ Files \subseteq Seq(Rows) \ {<<>>}
    /\ MaxRequests \in Nat /\ MaxExpiries \in Nat
    /\ IsFiniteSet(Rows)

Unlocked == {"v2", "multi", "batch"}      \* routes that create without a lock
Routes == Unlocked \cup {"streams", "import"}
Requests == 1 .. MaxRequests

VARIABLES
    request,    \* the requests received
    waiters,    \* for each key, who holds or awaits its lock, in order
    record,     \* idempotencyStore under a request's token: none, in_flight, done
    rowRecord,  \* idempotencyStore under a row's token: a stream, 0 if none
    imported,   \* for each row, the streams that exist and came from it
    newStreamId,
    created,    \* history: for each token, how often its work was done
    expired     \* history: for each token or row, how often its record expired

vars == <<request, waiters, record, rowRecord, imported, newStreamId, created, expired>>
store == <<record, rowRecord>>
streams == <<imported, newStreamId, created>>

Tokens == Routes \X Keys
Token(q) == <<request[q].route, request[q].key>>
Received == DOMAIN request

Init ==
    /\ request = <<>>
    /\ waiters = [k \in Keys |-> <<>>]
    /\ record = [t \in Tokens |-> "none"]
    /\ rowRecord = [r \in Rows |-> 0]
    /\ imported = [r \in Rows |-> {}] /\ newStreamId = 1
    /\ created = [t \in Tokens |-> 0]
    /\ expired = [x \in Tokens \cup Rows |-> 0]

-----------------------------------------------------------------------------
Remember(t) == record' = [record EXCEPT ![t] = "done"]
Goes(q, pc) == request' = [request EXCEPT ![q].pc = pc]
Over(q) == request' = [request EXCEPT ![q].pc = "over", ![q].rows = <<>>, ![q].seen = {}]
IsWorking(q, routes) == request[q].route \in routes /\ request[q].pc = "working"

(* A request arrives with its body read: pc is where it awaits first.      *)
Receive(route, key, pc, rows) ==
    /\ Len(request) < MaxRequests
    /\ request' = Append(request, [ route |-> route, key |-> key, pc |-> pc,
                                    rows |-> rows, seen |-> {} ])

-----------------------------------------------------------------------------
(* POST /streams: createOnce in withLock.                                  *)
ReceiveCreate(key) ==
    /\ Receive("streams", key, "queued", <<>>)
    /\ waiters' = [waiters EXCEPT ![key] = Append(@, Len(request) + 1)]
    /\ UNCHANGED <<store, streams, expired>>

MutantHolds(q) == \E i \in DOMAIN waiters[request[q].key] : waiters[request[q].key][i] = q
Holds(q) == waiters[request[q].key] # <<>> /\ Head(waiters[request[q].key]) = q

(* By its holder.                                                          *)
Release(q) == waiters' = [waiters EXCEPT ![request[q].key] = Tail(@)]

(* The key is looked up under the lock.                                    *)
EnterLock(q) ==
    /\ request[q].pc = "queued" /\ Holds(q)
    /\ IF record[Token(q)] = "none"
       THEN Goes(q, "working") /\ UNCHANGED waiters
       ELSE Over(q) /\ Release(q)
    /\ UNCHANGED <<store, streams, expired>>

(* createStreamCore is back from the allowlist: a stream and its record, or *)
(* a 422, or no free id.                                                   *)
CreateStream(q) ==
    /\ IsWorking(q, {"streams"})
    /\ \/ /\ created' = [created EXCEPT ![Token(q)] = @ + 1]
          /\ Remember(Token(q))
       \/ UNCHANGED <<created, record>>
    /\ Over(q) /\ Release(q)
    /\ UNCHANGED <<rowRecord, imported, newStreamId, expired>>

-----------------------------------------------------------------------------
(* The routes without a lock: a key that is unknown when it is looked up   *)
(* lets the request through, and everything is created when the awaits are *)
(* over.  /batch and /multi have read the body by then, and await the      *)
(* allowlist of each item and the daily quota; /v2/streams awaits both the *)
(* quota and the body after the look-up.                                   *)
LookUp(route, key) ==
    /\ Receive(route, key, IF record[<<route, key>>] = "none" THEN "working" ELSE "over", <<>>)
    /\ UNCHANGED <<waiters, store, streams, expired>>

CreateAll(q, route) ==
    /\ IsWorking(q, {route})
    /\ \/ created' = [created EXCEPT ![Token(q)] = @ + 1] /\ Remember(Token(q))
       \/ UNCHANGED <<created, record>>      \* a quota, a 422, no free id
    /\ Over(q)
    /\ UNCHANGED <<waiters, rowRecord, imported, newStreamId, expired>>

ReceiveBatch(key) == LookUp("batch", key)
CreateBatch(q) == CreateAll(q, "batch")
ReceiveMulti(key) == LookUp("multi", key)
CreateGroup(q) == CreateAll(q, "multi")
ReceiveV2(key) == LookUp("v2", key)
CreateV2(q) == CreateAll(q, "v2")

-----------------------------------------------------------------------------
(* POST /streams/import                                                    *)
ReceiveImport(key, file) ==
    LET t == <<"import", key>> IN
    /\ IF record[t] = "none"
       THEN /\ Receive("import", key, "working", file)
            /\ record' = [record EXCEPT ![t] = "in_flight"]
       ELSE /\ Receive("import", key, "over", <<>>)
            /\ UNCHANGED record
    /\ UNCHANGED <<waiters, rowRecord, streams, expired>>

(* Already in this file, or imported before and not deleted since.         *)
MutantIsDuplicate(q, row) == row \in request[q].seen
IsDuplicate(q, row) == row \in request[q].seen \/ rowRecord[row] \in imported[row]

(* After the row's last one the answer is recorded, without an await.      *)
NextRow(q, seen) ==
    LET rest == Tail(request[q].rows) IN
    IF rest = <<>>
    THEN Over(q) /\ Remember(Token(q))
    ELSE /\ request' = [request EXCEPT ![q].rows = rest, ![q].seen = seen]
         /\ UNCHANGED record

MutantGoesOn(q) == request[q].pc \in {"working", "aborted"}
GoesOn(q) == request[q].pc = "working"

(* validateRow is back and the signal has not aborted.                     *)
ImportRow(q) ==
    /\ request[q].route = "import" /\ request[q].rows # <<>> /\ GoesOn(q)
    /\ LET row == Head(request[q].rows)
           stream == newStreamId
       IN  \/ /\ NextRow(q, request[q].seen)        \* the row is not valid
              /\ UNCHANGED <<rowRecord, imported, newStreamId>>
           \/ /\ IsDuplicate(q, row)
              /\ NextRow(q, request[q].seen \cup {row})
              /\ UNCHANGED <<rowRecord, imported, newStreamId>>
           \/ /\ ~IsDuplicate(q, row)
              /\ NextRow(q, request[q].seen \cup {row})
              /\ newStreamId' = newStreamId + 1
              /\ imported' = [imported EXCEPT ![row] = @ \cup {stream}]
              /\ rowRecord' = [rowRecord EXCEPT ![row] = stream]
    /\ UNCHANGED <<waiters, created, expired>>

MutantReleaseReservation(q) == UNCHANGED record
ReleaseReservation(q) == record' = [record EXCEPT ![Token(q)] = "none"]

(* The deadline: 504, while the handler is still awaiting.                 *)
Deadline(q) ==
    /\ IsWorking(q, {"import"})
    /\ Goes(q, "aborted") /\ ReleaseReservation(q)
    /\ UNCHANGED <<waiters, rowRecord, streams, expired>>

(* A row throws, in time: the finally block.                               *)
ImportThrows(q) ==
    /\ IsWorking(q, {"import"})
    /\ Over(q) /\ ReleaseReservation(q)
    /\ UNCHANGED <<waiters, rowRecord, streams, expired>>

(* The aborted handler is back from its await and throws to nobody.        *)
AbortSeen(q) ==
    /\ request[q].pc = "aborted" /\ Over(q)
    /\ UNCHANGED <<waiters, store, streams, expired>>

-----------------------------------------------------------------------------
(* A stream that is not running is deleted; its row's record stays.        *)
DeleteStream(row) ==
    /\ \E s \in imported[row] : imported' = [imported EXCEPT ![row] = @ \ {s}]
    /\ UNCHANGED <<request, waiters, store, newStreamId, created, expired>>

(* A day later.  A reservation never gets that old, and the records of v2  *)
(* have no expiry.                                                         *)
ExpireRecord(t) ==
    /\ t[1] # "v2" /\ record[t] = "done" /\ expired[t] < MaxExpiries
    /\ record' = [record EXCEPT ![t] = "none"]
    /\ expired' = [expired EXCEPT ![t] = @ + 1]
    /\ UNCHANGED <<request, waiters, rowRecord, streams>>

ExpireRow(row) ==
    /\ rowRecord[row] # 0 /\ expired[row] < MaxExpiries
    /\ rowRecord' = [rowRecord EXCEPT ![row] = 0]
    /\ expired' = [expired EXCEPT ![row] = @ + 1]
    /\ UNCHANGED <<request, waiters, record, streams>>

-----------------------------------------------------------------------------
Next ==
    \/ \E key \in Keys :
          \/ ReceiveCreate(key) \/ ReceiveBatch(key) \/ ReceiveMulti(key) \/ ReceiveV2(key)
          \/ \E file \in Files : ReceiveImport(key, file)
    \/ \E q \in Received :
          \/ EnterLock(q) \/ CreateStream(q)
          \/ CreateBatch(q) \/ CreateGroup(q) \/ CreateV2(q)
          \/ ImportRow(q) \/ Deadline(q) \/ ImportThrows(q) \/ AbortSeen(q)
    \/ \E row \in Rows : DeleteStream(row) \/ ExpireRow(row)
    \/ \E t \in Tokens : ExpireRecord(t)

(* The timer of an import fires unless it ends first.  Nothing is assumed  *)
(* about the awaits of its handler.                                        *)
Fairness == \A q \in Requests : WF_vars(q \in Received /\ Deadline(q))

Spec == Init /\ [][Next]_vars /\ Fairness

-----------------------------------------------------------------------------
TypeOK ==
    /\ request \in Seq([ route : Routes, key : Keys,
                         pc : {"queued", "working", "aborted", "over"},
                         rows : Seq(Rows), seen : SUBSET Rows ])
    /\ Len(request) <= MaxRequests
    /\ waiters \in [Keys -> Seq(Nat)]
    /\ record \in [Tokens -> {"none", "in_flight", "done"}]
    /\ rowRecord \in [Rows -> Nat]
    /\ imported \in [Rows -> SUBSET Nat] /\ newStreamId \in Nat \ {0}
    /\ \A r \in Rows : \A s \in imported[r] \cup {rowRecord[r]} : s < newStreamId
    /\ created \in [Tokens -> Nat]
    /\ expired \in [Tokens \cup Rows -> Nat]

(* A key given to POST /streams creates one stream for as long as its      *)
(* record lasts, however many requests carry it at once and whichever of   *)
(* them gave up waiting (withLock around checkIdempotency and the insert). *)
CreatedOnce ==
    \A k \in Keys : created[<<"streams", k>>] <= 1 + expired[<<"streams", k>>]

(* A row of a file has one stream, although files are sent again after a   *)
(* timeout under the same or another key, overlap while they are imported, *)
(* repeat a row, and have their streams deleted.                           *)
ImportedOnce ==
    \A r \in Rows : Cardinality(imported[r]) <= 1 + expired[r]

(* One handler at a time imports under a key, and the reservation is its   *)
(* own to the end: no handler that has timed out gives it away or turns it *)
(* into an answer.                                                         *)
Importing(q) == IsWorking(q, {"import"})
OneImporter ==
    \A q \in Received : Importing(q) =>
        /\ record[Token(q)] = "in_flight"
        /\ \A p \in Received : Importing(p) /\ Token(p) = Token(q) => p = q

(* A reservation does not outlast its request: the key is free for a retry *)
(* or has its answer, though validateRow may never come back.              *)
ReservationsEnd ==
    \A k \in Keys :
        record[<<"import", k>>] = "in_flight" ~> record[<<"import", k>>] # "in_flight"

(* api/streams/batch/route.ts:100-103: "When an Idempotency-Key header is  *)
(* supplied the entire batch call is idempotent".  The code does not keep  *)
(* this when the replay arrives before the first call is done.             *)
BatchOnce ==
    \A k \in Keys : created[<<"batch", k>>] <= 1 + expired[<<"batch", k>>]
=============================================================================
