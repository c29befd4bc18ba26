------------------------- MODULE StreamCreationProofs -------------------------
(***************************************************************************)
(* Proofs about the routes that create streams, for any keys, files,       *)
(* requests and expiries.  What makes the properties inductive: a worker   *)
(* of POST /streams holds the lock and its key has no record; what a row   *)
(* has imported beyond the stream its record names has expired; and a      *)
(* reservation is in the store as long as its handler is at work.          *)
(***************************************************************************)
EXTENDS StreamCreation, TLAPS, FiniteSetTheorems, SequenceTheorems

CreateUnlocked(q) == \E route \in Unlocked : CreateAll(q, route)
PCs == {"queued", "working", "aborted", "over"}
ReqStates == [route : Routes, key : Keys, pc : PCs, rows : Seq(Rows), seen : SUBSET Rows]

OnlyCreatesQueue ==
    \A q \in Received : request[q].pc = "queued" => request[q].route = "streams"

WorkersHold ==
    \A q \in Received : IsWorking(q, {"streams"}) => Holds(q) /\ record[Token(q)] = "none"

(* Every stream of a key but the one on record has expired.                *)
CreationsRecorded ==
    \A k \in Keys :
        created[<<"streams", k>>] <=
            expired[<<"streams", k>>] + (IF record[<<"streams", k>>] = "none" THEN 0 ELSE 1)

RowsRecorded ==
    \A r \in Rows : /\ IsFiniteSet(imported[r])
                    /\ Cardinality(imported[r] \ {rowRecord[r]}) <= expired[r]

CreationInv ==
    /\ TypeOK /\ OnlyCreatesQueue /\ WorkersHold /\ CreationsRecorded
    /\ RowsRecorded /\ OneImporter

-----------------------------------------------------------------------------
(* What a step does to the requests: one moves on, or one arrives.         *)
Moved(q, pc) ==
    /\ request' \in Seq(ReqStates) /\ Len(request') = Len(request)
    /\ DOMAIN request' = DOMAIN request
    /\ request'[q].pc = pc
    /\ \A p \in DOMAIN request : /\ request'[p].route = request[p].route
                                 /\ request'[p].key = request[p].key
                                 /\ p # q => request'[p].pc = request[p].pc

Arrived(n, route, key, pc) ==
    /\ request' \in Seq(ReqStates) /\ Len(request') = Len(request) + 1
    /\ Len(request') <= MaxRequests
    /\ n = Len(request) + 1 /\ n \notin DOMAIN request
    /\ DOMAIN request' = DOMAIN request \cup {n}
    /\ request'[n].route = route /\ request'[n].key = key /\ request'[n].pc = pc
    /\ \A p \in DOMAIN request : request'[p] = request[p]

LEMMA RequestsTyped ==
    ASSUME TypeOK
    PROVE  /\ request \in Seq(ReqStates) /\ Len(request) \in Nat
           /\ DOMAIN request = 1 .. Len(request)
           /\ \A q \in Received : request[q] \in ReqStates /\ Token(q) \in Tokens
  <1>1. request \in Seq(ReqStates)
    BY DEF TypeOK, ReqStates, PCs
  <1>2. \A q \in Received : request[q] \in ReqStates
    BY <1>1 DEF Received
  <1>3. ASSUME NEW q \in Received
        PROVE  Token(q) \in Tokens
    <2>1. request[q].route \in Routes /\ request[q].key \in Keys
      BY <1>2 DEF ReqStates
    <2> QED  BY <2>1 DEF Token, Tokens
  <1> HIDE DEF ReqStates
  <1> QED  BY <1>1, <1>2, <1>3 DEF Received

LEMMA Moves ==
    ASSUME TypeOK, NEW q \in Received, NEW r \in ReqStates,
           r.route = request[q].route, r.key = request[q].key,
           request' = [request EXCEPT ![q] = r]
    PROVE  Moved(q, r.pc)
  <1>1. request \in Seq(ReqStates) /\ q \in 1 .. Len(request)
    BY RequestsTyped DEF Received
  <1>2. /\ request' \in Seq(ReqStates) /\ Len(request') = Len(request)
        /\ request'[q] = r /\ \A p \in 1 .. Len(request) : p # q => request'[p] = request[p]
    BY <1>1, ExceptSeq
  <1>3. DOMAIN request' = DOMAIN request
    OBVIOUS
  <1> QED  BY <1>1, <1>2, <1>3, RequestsTyped DEF Moved, Received

LEMMA GoesMoves ==
    ASSUME TypeOK, NEW q \in Received, NEW pc \in PCs, Goes(q, pc)
    PROVE  Moved(q, pc)
  <1> DEFINE r == [request[q] EXCEPT !.pc = pc]
  <1>1. request[q] \in ReqStates
    BY RequestsTyped
  <1>2. r \in ReqStates /\ r.pc = pc /\ r.route = request[q].route /\ r.key = request[q].key
    BY <1>1 DEF ReqStates
  <1>3. request' = [request EXCEPT ![q] = r]
    BY DEF Goes
  <1> HIDE DEF r
  <1> QED  BY <1>2, <1>3, Moves

LEMMA OverMoves ==
    ASSUME TypeOK, NEW q \in Received, Over(q)
    PROVE  Moved(q, "over")
  <1> DEFINE r == [request[q] EXCEPT !.pc = "over", !.rows = <<>>, !.seen = {}]
  <1>1. request[q] \in ReqStates
    BY RequestsTyped
  <1>2. "over" \in PCs /\ <<>> \in Seq(Rows) /\ {} \in SUBSET Rows
    BY DEF PCs
  <1>3. /\ r \in ReqStates /\ r.pc = "over"
        /\ r.route = request[q].route /\ r.key = request[q].key
    BY <1>1, <1>2 DEF ReqStates
  <1>4. request' = [request EXCEPT ![q] = r]
    BY <1>1 DEF Over, ReqStates
  <1> HIDE DEF r
  <1> QED  BY <1>3, <1>4, Moves

LEMMA NextRowMoves ==
    ASSUME TypeOK, NEW q \in Received, NEW seen \in SUBSET Rows,
           request[q].rows # <<>>, NextRow(q, seen)
    PROVE  \/ Moved(q, "over") /\ Remember(Token(q))
           \/ Moved(q, request[q].pc) /\ record' = record
  <1> DEFINE rest == Tail(request[q].rows)
  <1>1. request[q] \in ReqStates
    BY RequestsTyped
  <1>2. request[q].rows \in Seq(Rows) /\ rest \in Seq(Rows) /\ request[q].pc \in PCs
    <2>1. request[q].rows \in Seq(Rows) /\ request[q].pc \in PCs
      BY <1>1 DEF ReqStates
    <2> QED  BY <2>1, HeadTailProperties
  <1>3. CASE rest = <<>>
    BY <1>3, OverMoves DEF NextRow
  <1>4. CASE rest # <<>>
    <2> DEFINE r == [request[q] EXCEPT !.rows = rest, !.seen = seen]
    <2>1. request' = [request EXCEPT ![q] = r] /\ record' = record
      BY <1>1, <1>4 DEF NextRow, ReqStates
    <2> HIDE DEF rest
    <2>2. /\ r \in ReqStates /\ r.pc = request[q].pc
          /\ r.route = request[q].route /\ r.key = request[q].key
      BY <1>1, <1>2 DEF ReqStates
    <2> HIDE DEF r
    <2> QED  BY <2>1, <2>2, Moves
  <1> QED  BY <1>3, <1>4

LEMMA ReceiveArrives ==
    ASSUME TypeOK, NEW route \in Routes, NEW key \in Keys, NEW pc \in PCs,
           NEW rows \in Seq(Rows), Receive(route, key, pc, rows)
    PROVE  Arrived(Len(request) + 1, route, key, pc)
  <1> DEFINE r == [ route |-> route, key |-> key, pc |-> pc, rows |-> rows, seen |-> {} ]
  <1>1. r \in ReqStates /\ r.route = route /\ r.key = key /\ r.pc = pc
    BY DEF ReqStates
  <1>2. request' = Append(request, r) /\ Len(request) < MaxRequests
    BY DEF Receive
  <1> HIDE DEF r
  <1>3. /\ request' \in Seq(ReqStates) /\ Len(request') = Len(request) + 1
        /\ request'[Len(request) + 1] = r
        /\ \A p \in 1 .. Len(request) : request'[p] = request[p]
    BY <1>1, <1>2, RequestsTyped, AppendProperties
  <1>4. DOMAIN request' = 1 .. Len(request) + 1
    BY <1>3
  <1> QED  BY <1>1, <1>2, <1>3, <1>4, RequestsTyped, CreationAssumption DEF Arrived

-----------------------------------------------------------------------------
(* Every step of a request, by what it does to the requests and the store. *)
LEMMA RequestSteps ==
    ASSUME TypeOK, NEW q \in Received,
           \/ EnterLock(q) \/ CreateStream(q) \/ CreateUnlocked(q)
           \/ ImportRow(q) \/ Deadline(q) \/ ImportThrows(q) \/ AbortSeen(q)
    PROVE  \/ /\ request[q].pc = "queued" /\ Holds(q) /\ record' = record
              /\ \/ record[Token(q)] = "none" /\ Moved(q, "working") /\ waiters' = waiters
                 \/ Moved(q, "over") /\ Release(q)
              /\ created' = created
           \/ /\ IsWorking(q, {"streams"}) /\ Moved(q, "over") /\ Release(q)
              /\ \/ created' = [created EXCEPT ![Token(q)] = @ + 1] /\ Remember(Token(q))
                 \/ UNCHANGED <<created, record>>
           \/ /\ IsWorking(q, Unlocked) /\ Moved(q, "over") /\ waiters' = waiters
              /\ \/ created' = [created EXCEPT ![Token(q)] = @ + 1] /\ Remember(Token(q))
                 \/ UNCHANGED <<created, record>>
           \/ /\ IsWorking(q, {"import"}) /\ waiters' = waiters /\ created' = created
              /\ \/ Moved(q, "over") /\ Remember(Token(q))
                 \/ Moved(q, "working") /\ record' = record
                 \/ Moved(q, "aborted") /\ ReleaseReservation(q)
                 \/ Moved(q, "over") /\ ReleaseReservation(q)
           \/ /\ request[q].pc = "aborted" /\ Moved(q, "over")
              /\ UNCHANGED <<waiters, record, created>>
  <1> USE DEF store, streams
  <1>1. CASE EnterLock(q)
    <2>1. "working" \in PCs
      BY DEF PCs
    <2> QED  BY <1>1, <2>1, GoesMoves, OverMoves DEF EnterLock
  <1>2. CASE CreateStream(q)
    BY <1>2, OverMoves DEF CreateStream
  <1>3. CASE CreateUnlocked(q)
    BY <1>3, OverMoves DEF CreateUnlocked, CreateAll, IsWorking
  <1>4. CASE ImportRow(q)
    <2>1. /\ request[q].route = "import" /\ request[q].rows # <<>> /\ request[q].pc = "working"
          /\ UNCHANGED <<waiters, created>>
      BY <1>4 DEF ImportRow, GoesOn
    <2>2. /\ request[q].seen \in SUBSET Rows /\ Head(request[q].rows) \in Rows
      <3>1. request[q].seen \in SUBSET Rows /\ request[q].rows \in Seq(Rows)
        BY RequestsTyped DEF ReqStates
      <3> QED  BY <2>1, <3>1, HeadTailProperties
    <2>3. \E seen \in SUBSET Rows : NextRow(q, seen)
      <3>1. request[q].seen \cup {Head(request[q].rows)} \in SUBSET Rows
        BY <2>2
      <3> QED  BY <1>4, <2>2, <3>1 DEF ImportRow
    <2>4. \/ Moved(q, "over") /\ Remember(Token(q))
          \/ Moved(q, "working") /\ record' = record
      BY <2>1, <2>3, NextRowMoves
    <2> QED  BY <2>1, <2>4 DEF IsWorking
  <1>5. CASE Deadline(q)
    <2>1. "aborted" \in PCs
      BY DEF PCs
    <2> QED  BY <1>5, <2>1, GoesMoves DEF Deadline
  <1>6. CASE ImportThrows(q)
    BY <1>6, OverMoves DEF ImportThrows
  <1>7. CASE AbortSeen(q)
    BY <1>7, OverMoves DEF AbortSeen
  <1> QED  BY <1>1, <1>2, <1>3, <1>4, <1>5, <1>6, <1>7

(* A request arrives: it queues, works, or is answered at once.            *)
LEMMA ArrivalSteps ==
    ASSUME TypeOK, NEW key \in Keys,
           \/ ReceiveCreate(key)
           \/ \E route \in Unlocked : LookUp(route, key)
           \/ \E file \in Files : ReceiveImport(key, file)
    PROVE  LET n == Len(request) + 1 IN
           /\ UNCHANGED <<rowRecord, imported, newStreamId, created, expired>>
           /\ \/ /\ Arrived(n, "streams", key, "queued") /\ record' = record
                 /\ waiters' = [waiters EXCEPT ![key] = Append(@, n)]
              \/ /\ \E route \in Unlocked, pc \in {"working", "over"} : Arrived(n, route, key, pc)
                 /\ UNCHANGED <<waiters, record>>
              \/ /\ Arrived(n, "import", key, "working") /\ waiters' = waiters
                 /\ record[<<"import", key>>] = "none"
                 /\ record' = [record EXCEPT ![<<"import", key>>] = "in_flight"]
              \/ /\ Arrived(n, "import", key, "over") /\ UNCHANGED <<waiters, record>>
  <1> USE DEF store, streams
  <1>1. /\ "queued" \in PCs /\ "working" \in PCs /\ "over" \in PCs /\ <<>> \in Seq(Rows)
        /\ "streams" \in Routes /\ "import" \in Routes /\ Unlocked \subseteq Routes
        /\ Files \subseteq Seq(Rows)
    BY CreationAssumption DEF PCs, Routes
  <1>2. CASE ReceiveCreate(key)
    BY <1>1, <1>2, ReceiveArrives DEF ReceiveCreate
  <1>3. ASSUME NEW route \in Unlocked, LookUp(route, key)
        PROVE  /\ \E pc \in {"working", "over"} : Arrived(Len(request) + 1, route, key, pc)
               /\ UNCHANGED <<waiters, record, rowRecord, imported, newStreamId, created, expired>>
    BY <1>1, <1>3, ReceiveArrives DEF LookUp
  <1>4. ASSUME NEW file \in Files, ReceiveImport(key, file)
        PROVE  /\ UNCHANGED <<rowRecord, imported, newStreamId, created, expired>>
               /\ \/ /\ Arrived(Len(request) + 1, "import", key, "working") /\ waiters' = waiters
                     /\ record[<<"import", key>>] = "none"
                     /\ record' = [record EXCEPT ![<<"import", key>>] = "in_flight"]
                  \/ /\ Arrived(Len(request) + 1, "import", key, "over")
                     /\ UNCHANGED <<waiters, record>>
    BY <1>1, <1>4, ReceiveArrives DEF ReceiveImport
  <1> QED  BY <1>2, <1>3, <1>4

(* The step of a request imports at most one row.                          *)
RowImported(row) ==
    /\ rowRecord[row] \notin imported[row]
    /\ newStreamId' = newStreamId + 1
    /\ imported' = [imported EXCEPT ![row] = @ \cup {newStreamId}]
    /\ rowRecord' = [rowRecord EXCEPT ![row] = newStreamId]

LEMMA RequestRows ==
    ASSUME TypeOK, NEW q \in Received,
           \/ EnterLock(q) \/ CreateStream(q) \/ CreateUnlocked(q)
           \/ ImportRow(q) \/ Deadline(q) \/ ImportThrows(q) \/ AbortSeen(q)
    PROVE  /\ expired' = expired
           /\ \/ UNCHANGED <<rowRecord, imported, newStreamId>>
              \/ \E row \in Rows : RowImported(row)
  <1>1. CASE ImportRow(q)
    <2>1. request[q].rows \in Seq(Rows)
      BY RequestsTyped DEF ReqStates
    <2>2. request[q].rows # <<>>
      BY <1>1 DEF ImportRow
    <2>3. Head(request[q].rows) \in Rows
      BY <2>1, <2>2, HeadTailProperties
    <2> QED  BY <1>1, <2>3 DEF ImportRow, IsDuplicate, RowImported
  <1>2. CASE ~ImportRow(q)
    BY <1>2 DEF EnterLock, CreateStream, CreateUnlocked, CreateAll, Deadline, ImportThrows, AbortSeen,
                store, streams
  <1> QED  BY <1>1, <1>2

(* Time passes: a stream is deleted, or a record expires.                  *)
LEMMA AgingSteps ==
    ASSUME \/ \E row \in Rows : DeleteStream(row) \/ ExpireRow(row)
           \/ \E t \in Tokens : ExpireRecord(t)
    PROVE  /\ UNCHANGED <<request, waiters, newStreamId, created>>
           /\ \/ /\ UNCHANGED <<record, rowRecord, expired>>
                 /\ \E row \in Rows : \E i \in imported[row] :
                       imported' = [imported EXCEPT ![row] = @ \ {i}]
              \/ /\ UNCHANGED <<record, imported>>
                 /\ \E row \in Rows : /\ rowRecord' = [rowRecord EXCEPT ![row] = 0]
                                      /\ expired' = [expired EXCEPT ![row] = @ + 1]
              \/ /\ UNCHANGED <<rowRecord, imported>>
                 /\ \E t \in Tokens : /\ record[t] = "done"
                                      /\ record' = [record EXCEPT ![t] = "none"]
                                      /\ expired' = [expired EXCEPT ![t] = @ + 1]
  BY DEF DeleteStream, ExpireRow, ExpireRecord, store, streams

(* Every step is one of those three kinds, or changes nothing.             *)
Arrives ==
    \E key \in Keys : \/ ReceiveCreate(key)
                      \/ \E route \in Unlocked : LookUp(route, key)
                      \/ \E file \in Files : ReceiveImport(key, file)

Advances ==
    \E q \in Received : \/ EnterLock(q) \/ CreateStream(q) \/ CreateUnlocked(q)
                        \/ ImportRow(q) \/ Deadline(q) \/ ImportThrows(q) \/ AbortSeen(q)

Ages ==
    \/ \E row \in Rows : DeleteStream(row) \/ ExpireRow(row)
    \/ \E t \in Tokens : ExpireRecord(t)

LEMMA StepKinds ==
    ASSUME [Next]_vars
    PROVE  Arrives \/ Advances \/ Ages \/ UNCHANGED vars
  BY DEF Next, Arrives, Advances, Ages, Unlocked, CreateUnlocked, ReceiveBatch, ReceiveMulti,
         ReceiveV2, CreateBatch, CreateGroup, CreateV2

-----------------------------------------------------------------------------
(* The rows: what is imported beyond the stream on record has expired.     *)
LEMMA RowsInitially ==
    ASSUME Init  PROVE  RowsRecorded
  <1>1. \A r \in Rows : imported[r] = {} /\ rowRecord[r] = 0 /\ expired[r] = 0
    BY DEF Init
  <1>2. \A r \in Rows : imported[r] \ {rowRecord[r]} = {}
    BY <1>1
  <1> QED  BY <1>1, <1>2, FS_EmptySet DEF RowsRecorded

LEMMA RowImportedKeeps ==
    ASSUME TypeOK, RowsRecorded, NEW row \in Rows, RowImported(row), expired' = expired
    PROVE  RowsRecorded'
  <1> SUFFICES ASSUME NEW r \in Rows
               PROVE  /\ IsFiniteSet(imported'[r])
                      /\ Cardinality(imported'[r] \ {rowRecord'[r]}) <= expired[r]
    BY DEF RowsRecorded
  <1>1. /\ imported \in [Rows -> SUBSET Nat] /\ rowRecord \in [Rows -> Nat]
        /\ newStreamId \notin imported[r]
    BY DEF TypeOK
  <1>2. /\ IsFiniteSet(imported[r])
        /\ Cardinality(imported[r] \ {rowRecord[r]}) <= expired[r]
    BY DEF RowsRecorded
  <1>3. CASE r = row
    <2>1. imported'[r] = imported[r] \cup {newStreamId} /\ rowRecord'[r] = newStreamId
      BY <1>1, <1>3 DEF RowImported
    <2>2. imported'[r] \ {rowRecord'[r]} = imported[r] \ {rowRecord[r]}
      BY <1>1, <1>3, <2>1 DEF RowImported
    <2>3. IsFiniteSet(imported[r] \cup {newStreamId})
      BY <1>2, FS_AddElement
    <2> QED  BY <1>2, <2>1, <2>2, <2>3
  <1>4. CASE r # row
    <2>1. imported'[r] = imported[r] /\ rowRecord'[r] = rowRecord[r]
      BY <1>1, <1>4 DEF RowImported
    <2> QED  BY <1>2, <2>1
  <1> QED  BY <1>3, <1>4

LEMMA AgingKeepsRows ==
    ASSUME TypeOK, RowsRecorded, Ages
    PROVE  RowsRecorded'
  <1> SUFFICES ASSUME NEW r \in Rows
               PROVE  /\ IsFiniteSet(imported'[r])
                      /\ Cardinality(imported'[r] \ {rowRecord'[r]}) <= expired'[r]
    BY DEF RowsRecorded
  <1>1. /\ imported \in [Rows -> SUBSET Nat] /\ rowRecord \in [Rows -> Nat]
        /\ expired \in [Tokens \cup Rows -> Nat]
    BY DEF TypeOK
  <1>2. /\ IsFiniteSet(imported[r])
        /\ Cardinality(imported[r] \ {rowRecord[r]}) <= expired[r]
    BY DEF RowsRecorded
  <1>3. /\ Cardinality(imported[r] \ {rowRecord[r]}) \in Nat
        /\ IsFiniteSet(imported[r] \ {rowRecord[r]})
    BY <1>2, FS_RemoveElement, FS_CardinalityType
  <1>4. expired'[r] \in Nat /\ expired[r] \in Nat /\ expired[r] <= expired'[r]
    BY <1>1, AgingSteps DEF Ages
  <1>5. imported'[r] \in SUBSET imported[r]
    BY <1>1, AgingSteps DEF Ages
  <1>6. IsFiniteSet(imported'[r])
    BY <1>2, <1>5, FS_Subset
  <1>7. CASE rowRecord'[r] = rowRecord[r]
    <2>1. imported'[r] \ {rowRecord'[r]} \in SUBSET (imported[r] \ {rowRecord[r]})
      BY <1>5, <1>7
    <2>2. /\ Cardinality(imported'[r] \ {rowRecord'[r]})
                <= Cardinality(imported[r] \ {rowRecord[r]})
          /\ IsFiniteSet(imported'[r] \ {rowRecord'[r]})
      BY <1>3, <2>1, FS_Subset
    <2>3. Cardinality(imported'[r] \ {rowRecord'[r]}) \in Nat
      BY <2>2, FS_CardinalityType
    <2> QED  BY <1>2, <1>3, <1>4, <1>6, <2>2, <2>3
  <1>8. CASE rowRecord'[r] # rowRecord[r]
    <2>1. imported' = imported /\ expired'[r] = expired[r] + 1
      BY <1>1, <1>8, AgingSteps DEF Ages
    <2>2. imported'[r] \ {rowRecord'[r]} \in SUBSET imported[r]
      BY <2>1
    <2>3. /\ Cardinality(imported'[r] \ {rowRecord'[r]}) <= Cardinality(imported[r])
          /\ IsFiniteSet(imported'[r] \ {rowRecord'[r]})
      BY <1>2, <2>2, FS_Subset
    <2>4. /\ Cardinality(imported'[r] \ {rowRecord'[r]}) \in Nat
          /\ Cardinality(imported[r]) \in Nat
      BY <1>2, <2>3, FS_CardinalityType
    <2>5. Cardinality(imported[r]) <= Cardinality(imported[r] \ {rowRecord[r]}) + 1
      BY <1>2, <1>3, <2>4, FS_RemoveElement
    <2> QED  BY <1>2, <1>3, <1>4, <1>6, <2>1, <2>3, <2>4, <2>5
  <1> QED  BY <1>7, <1>8

LEMMA RowsKept ==
    ASSUME CreationInv, [Next]_vars
    PROVE  RowsRecorded'
  <1> USE DEF CreationInv
  <1>1. CASE Arrives
    <2>1. UNCHANGED <<rowRecord, imported, expired>>
      BY <1>1, ArrivalSteps DEF Arrives
    <2> QED  BY <2>1 DEF RowsRecorded
  <1>2. CASE Advances
    <2>1. /\ expired' = expired
          /\ \/ UNCHANGED <<rowRecord, imported, newStreamId>>
             \/ \E row \in Rows : RowImported(row)
      BY <1>2, RequestRows DEF Advances
    <2>2. CASE UNCHANGED <<rowRecord, imported, newStreamId>>
      BY <2>1, <2>2 DEF RowsRecorded
    <2> QED  BY <2>1, <2>2, RowImportedKeeps
  <1>3. CASE Ages
    BY <1>3, AgingKeepsRows
  <1>4. CASE UNCHANGED vars
    BY <1>4 DEF vars, RowsRecorded
  <1> QED  BY <1>1, <1>2, <1>3, <1>4, StepKinds

-----------------------------------------------------------------------------
(* The lock: what another request's step leaves of a worker.               *)
LEMMA RouteNames ==
    "streams" \notin Unlocked /\ "import" \notin Unlocked
  BY DEF Unlocked

LEMMA MovedTokens ==
    ASSUME TypeOK, NEW q \in Received, NEW pc, Moved(q, pc)
    PROVE  \A p \in Received : /\ Token(p)' = Token(p)
                               /\ p # q => request'[p].pc = request[p].pc
                               /\ p = q => request'[p].pc = pc
  BY DEF Moved, Token, Received

LEMMA LockKept ==
    ASSUME CreationInv, [Next]_vars
    PROVE  OnlyCreatesQueue' /\ WorkersHold'
  <1> USE DEF CreationInv
  <1>t. /\ record \in [Tokens -> {"none", "in_flight", "done"}]
        /\ waiters \in [Keys -> Seq(Nat)]
    BY DEF TypeOK
  <1>r. \A p \in Received : /\ request[p].key \in Keys /\ request[p].route \in Routes
                            /\ Token(p) \in Tokens
    BY RequestsTyped DEF ReqStates
  <1>1. CASE Arrives
    <2> DEFINE n == Len(request) + 1
    <2>1. PICK key \in Keys :
            \/ /\ Arrived(n, "streams", key, "queued") /\ record' = record
               /\ waiters' = [waiters EXCEPT ![key] = Append(@, n)]
            \/ /\ \E route \in Unlocked, pc \in {"working", "over"} : Arrived(n, route, key, pc)
               /\ UNCHANGED <<waiters, record>>
            \/ /\ Arrived(n, "import", key, "working") /\ waiters' = waiters
               /\ record[<<"import", key>>] = "none"
               /\ record' = [record EXCEPT ![<<"import", key>>] = "in_flight"]
            \/ /\ Arrived(n, "import", key, "over") /\ UNCHANGED <<waiters, record>>
      BY <1>1, ArrivalSteps DEF Arrives
    <2>2. PICK route \in Routes, pc \in PCs :
            /\ Arrived(n, route, key, pc)
            /\ route = "streams" => pc = "queued"
            /\ pc = "queued" => route = "streams"
      BY <2>1, RouteNames DEF PCs, Routes
    <2> HIDE DEF n
    <2>3. /\ Received' = Received \cup {n} /\ request'[n].route = route /\ request'[n].pc = pc
          /\ \A p \in Received : request'[p] = request[p]
      BY <2>2 DEF Arrived, Received
    <2>4. OnlyCreatesQueue'
      BY <2>2, <2>3 DEF OnlyCreatesQueue
    <2>5. ASSUME NEW p \in Received', IsWorking(p, {"streams"})'
          PROVE  Holds(p)' /\ record'[Token(p)'] = "none"
      <3>1. p \in Received /\ request'[p] = request[p]
        BY <2>2, <2>3, <2>5 DEF IsWorking
      <3>2. IsWorking(p, {"streams"}) /\ Token(p)' = Token(p)
        BY <2>5, <3>1 DEF IsWorking, Token
      <3>3. Holds(p) /\ record[Token(p)] = "none" /\ request[p].route = "streams"
        BY <3>1, <3>2 DEF WorkersHold, IsWorking
      <3>4. record'[Token(p)] = record[Token(p)]
        BY <1>t, <1>r, <2>1, <3>1, <3>3 DEF Token
      <3>5. Holds(p)'
        <4>1. waiters[request[p].key] \in Seq(Nat) /\ waiters[request[p].key] # <<>>
          BY <1>r, <1>t, <3>1, <3>3 DEF Holds
        <4>2. \/ waiters'[request[p].key] = waiters[request[p].key]
              \/ waiters'[request[p].key] = Append(waiters[request[p].key], n)
          BY <1>r, <1>t, <2>1, <3>1 DEF n
        <4>3. n \in Nat
          BY RequestsTyped DEF n
        <4>4. waiters'[request[p].key] # <<>> /\ Head(waiters'[request[p].key]) = Head(waiters[request[p].key])
          BY <4>1, <4>2, <4>3
        <4> QED  BY <3>1, <3>3, <4>4 DEF Holds
      <3> QED  BY <3>2, <3>3, <3>4, <3>5
    <2> QED  BY <2>4, <2>5 DEF WorkersHold
  <1>2. CASE Advances
    <2>1. PICK q \in Received :
            \/ EnterLock(q) \/ CreateStream(q) \/ CreateUnlocked(q)
            \/ ImportRow(q) \/ Deadline(q) \/ ImportThrows(q) \/ AbortSeen(q)
      BY <1>2 DEF Advances
    <2>2. PICK pc : /\ Moved(q, pc) /\ pc # "queued"
                    /\ pc = "working" => \/ request[q].pc = "queued" /\ waiters' = waiters
                                             /\ record' = record /\ record[Token(q)] = "none"
                                             /\ Holds(q)
                                         \/ request[q].route = "import"
      BY <2>1, RequestSteps DEF IsWorking
    <2>3. /\ Received' = Received
          /\ \A p \in Received : /\ request'[p].route = request[p].route
                                 /\ request'[p].key = request[p].key
                                 /\ Token(p)' = Token(p)
                                 /\ p # q => request'[p].pc = request[p].pc
                                 /\ p = q => request'[p].pc = pc
      BY <2>2, MovedTokens DEF Moved, Received
    <2>4. OnlyCreatesQueue'
      BY <2>2, <2>3 DEF OnlyCreatesQueue
    <2>5. ASSUME NEW p \in Received, IsWorking(p, {"streams"})'
          PROVE  Holds(p)' /\ record'[Token(p)] = "none"
      <3>1. request[p].route = "streams"
        BY <2>3, <2>5 DEF IsWorking
      <3>2. CASE p = q
        BY <2>2, <2>3, <2>5, <3>1, <3>2 DEF IsWorking, Holds
      <3>3. CASE p # q
        <4>1. Holds(p) /\ record[Token(p)] = "none"
          BY <2>3, <2>5, <3>3 DEF IsWorking, WorkersHold
        <4>2. ~Holds(q) \/ request[q].key # request[p].key
          BY <3>3, <4>1 DEF Holds
        <4>3. /\ waiters'[request[p].key] = waiters[request[p].key]
              /\ record'[Token(p)] = record[Token(p)]
          <5>1. CASE Token(q) = Token(p)
            <6>1. request[q].key = request[p].key /\ request[q].route = "streams"
              BY <3>1, <5>1 DEF Token
            <6>2. ~Holds(q) /\ ~IsWorking(q, {"streams"})
              BY <4>2, <6>1 DEF WorkersHold
            <6> QED  BY <2>1, <6>1, <6>2, RequestSteps, RouteNames DEF IsWorking
          <5>2. CASE Token(q) # Token(p)
            <6>1. record' = record \/ Remember(Token(q)) \/ ReleaseReservation(q)
              BY <2>1, RequestSteps
            <6>2. record'[Token(p)] = record[Token(p)]
              BY <1>t, <5>2, <6>1, <1>r DEF Remember, ReleaseReservation
            <6>3. waiters' = waiters \/ (Release(q) /\ Holds(q))
              BY <2>1, RequestSteps DEF WorkersHold
            <6> QED  BY <1>t, <1>r, <4>2, <6>2, <6>3 DEF Release
          <5> QED  BY <5>1, <5>2
        <4> QED  BY <2>3, <4>1, <4>3 DEF Holds
      <3> QED  BY <3>2, <3>3
    <2> QED  BY <2>3, <2>4, <2>5 DEF WorkersHold
  <1>3. CASE Ages
    <2>1. /\ UNCHANGED <<request, waiters>>
          /\ \A t \in Tokens : record[t] = "none" => record'[t] = "none"
      BY <1>t, <1>3, AgingSteps DEF Ages
    <2> QED  BY <1>r, <2>1 DEF OnlyCreatesQueue, WorkersHold, Holds, IsWorking, Received, Token
  <1>4. CASE UNCHANGED vars
    BY <1>4 DEF vars, OnlyCreatesQueue, WorkersHold, Holds, IsWorking, Received, Token
  <1> QED  BY <1>1, <1>2, <1>3, <1>4, StepKinds

(* The importers after a step were importers before it, or have arrived at *)
(* a key without a record and reserved it.                                 *)
LEMMA ImporterSteps ==
    ASSUME CreationInv, [Next]_vars
    PROVE  \/ \A p \in Received' : Importing(p)' =>
                  /\ p \in Received /\ Importing(p) /\ Token(p)' = Token(p)
                  /\ record'[Token(p)] = record[Token(p)]
           \/ \E t \in Tokens, n \in Received' :
                  /\ record[t] = "none" /\ record'[t] = "in_flight" /\ Token(n)' = t
                  /\ \A p \in Received' \ {n} : Importing(p)' =>
                        /\ p \in Received /\ Importing(p) /\ Token(p)' = Token(p)
                        /\ record'[Token(p)] = record[Token(p)]
  <1> USE DEF CreationInv
  <1>t. record \in [Tokens -> {"none", "in_flight", "done"}]
    BY DEF TypeOK
  <1>r. \A p \in Received : Token(p) \in Tokens
    BY RequestsTyped
  <1>1. CASE Arrives
    <2>n. PICK n : n = Len(request) + 1
      OBVIOUS
    <2>1. PICK key \in Keys, route \in Routes, pc \in PCs :
            /\ Arrived(n, route, key, pc)
            /\ \/ record' = record /\ ~(route = "import" /\ pc = "working")
               \/ /\ route = "import" /\ record[<<"import", key>>] = "none"
                  /\ record' = [record EXCEPT ![<<"import", key>>] = "in_flight"]
      BY <1>1, <2>n, ArrivalSteps, RouteNames DEF Arrives, PCs, Routes
    <2>2. /\ Received' = Received \cup {n} /\ n \notin Received
          /\ request'[n].route = route /\ request'[n].key = key /\ request'[n].pc = pc
          /\ \A p \in Received : request'[p] = request[p]
      BY <2>1 DEF Arrived, Received
    <2>3. \A p \in Received : Token(p)' = Token(p) /\ (Importing(p)' <=> Importing(p))
      BY <2>2 DEF Token, Importing, IsWorking
    <2>4. Token(n)' = <<route, key>> /\ <<route, key>> \in Tokens
      BY <2>2 DEF Token, Tokens
    <2>5. CASE record' = record /\ ~(route = "import" /\ pc = "working")
      <3>1. ~Importing(n)'
        BY <2>2, <2>5 DEF Importing, IsWorking
      <3> QED  BY <2>2, <2>3, <2>5, <3>1
    <2>6. CASE /\ route = "import" /\ record[<<"import", key>>] = "none"
               /\ record' = [record EXCEPT ![<<"import", key>>] = "in_flight"]
      <3> DEFINE t == <<"import", key>>
      <3>1. t \in Tokens /\ Token(n)' = t
        BY <2>4, <2>6
      <3>2. \A p \in Received : Importing(p) => Token(p) # t
        BY <2>6 DEF OneImporter
      <3>3. record'[t] = "in_flight" /\ \A u \in Tokens : u # t => record'[u] = record[u]
        BY <1>t, <2>6, <3>1
      <3>4. \A p \in Received : Importing(p) => record'[Token(p)] = record[Token(p)]
        BY <1>r, <3>2, <3>3
      <3> HIDE DEF t
      <3>5. record[t] = "none"
        BY <2>6 DEF t
      <3> QED  BY <2>2, <2>3, <3>1, <3>3, <3>4, <3>5
    <2> QED  BY <2>1, <2>5, <2>6
  <1>2. CASE Advances
    <2>1. PICK q \in Received :
            \/ EnterLock(q) \/ CreateStream(q) \/ CreateUnlocked(q)
            \/ ImportRow(q) \/ Deadline(q) \/ ImportThrows(q) \/ AbortSeen(q)
      BY <1>2 DEF Advances
    <2>2. PICK pc :
            /\ Moved(q, pc)
            /\ \/ pc = "working" /\ record' = record
                  /\ (request[q].route = "import" => request[q].pc \in {"queued", "working"})
               \/ pc # "working" /\ (record' = record \/ Remember(Token(q))
                                       \/ ReleaseReservation(q))
                  /\ (record' # record => request[q].pc = "working")
      BY <2>1, RequestSteps DEF IsWorking
    <2>3. /\ Received' = Received
          /\ \A p \in Received : /\ request'[p].route = request[p].route
                                 /\ Token(p)' = Token(p)
                                 /\ p # q => request'[p].pc = request[p].pc
                                 /\ p = q => request'[p].pc = pc
      BY <2>2, MovedTokens DEF Moved, Received
    <2>4. ASSUME NEW p \in Received, Importing(p)'
          PROVE  Importing(p) /\ record'[Token(p)] = record[Token(p)]
      <3>1. request[p].route = "import" /\ request'[p].pc = "working"
        BY <2>3, <2>4 DEF Importing, IsWorking
      <3>2. CASE p = q
        <4>1. pc = "working" /\ record' = record /\ request[q].pc # "queued"
          BY <2>2, <2>3, <3>1, <3>2 DEF OnlyCreatesQueue
        <4> QED  BY <2>2, <3>1, <3>2, <4>1 DEF Importing, IsWorking
      <3>3. CASE p # q
        <4>1. Importing(p)
          BY <2>3, <3>1, <3>3 DEF Importing, IsWorking
        <4>2. record' # record => Token(q) # Token(p)
          <5> SUFFICES ASSUME record' # record, Token(q) = Token(p)
                       PROVE  FALSE
            OBVIOUS
          <5>1. request[q].route = "import"
            BY <3>1 DEF Token
          <5>2. Importing(q)
            BY <2>2, <5>1 DEF Importing, IsWorking
          <5> QED  BY <3>3, <4>1, <5>2 DEF OneImporter
        <4> QED  BY <1>r, <1>t, <2>2, <4>1, <4>2 DEF Remember, ReleaseReservation
      <3> QED  BY <3>2, <3>3
    <2> QED  BY <2>3, <2>4
  <1>3. CASE Ages
    <2>1. UNCHANGED request /\ \A t \in Tokens : record[t] = "in_flight" => record'[t] = "in_flight"
      BY <1>t, <1>3, AgingSteps DEF Ages
    <2>2. \A p \in Received : Importing(p) => record[Token(p)] = "in_flight"
      BY DEF OneImporter
    <2> QED  BY <1>r, <2>1, <2>2 DEF Importing, IsWorking, Received, Token
  <1>4. CASE UNCHANGED vars
    BY <1>4 DEF vars, Importing, IsWorking, Received, Token
  <1> QED  BY <1>1, <1>2, <1>3, <1>4, StepKinds

LEMMA OneImporterKept ==
    ASSUME CreationInv, [Next]_vars
    PROVE  OneImporter'
  BY ImporterSteps DEF CreationInv, OneImporter

-----------------------------------------------------------------------------
(* What a step does to the counts of a key of POST /streams.               *)
LEMMA CreationsKept ==
    ASSUME CreationInv, [Next]_vars
    PROVE  CreationsRecorded'
  <1> USE DEF CreationInv
  <1> SUFFICES ASSUME NEW k \in Keys
               PROVE  LET t == <<"streams", k>> IN
                      created'[t] <= expired'[t] + (IF record'[t] = "none" THEN 0 ELSE 1)
    BY DEF CreationsRecorded
  <1> DEFINE t == <<"streams", k>>
  <1>t. /\ record \in [Tokens -> {"none", "in_flight", "done"}]
        /\ created \in [Tokens -> Nat] /\ expired \in [Tokens \cup Rows -> Nat]
    BY DEF TypeOK
  <1>k. /\ t \in Tokens
        /\ created[t] <= expired[t] + (IF record[t] = "none" THEN 0 ELSE 1)
    BY DEF CreationsRecorded, Tokens, Routes
  <1>n. created[t] \in Nat /\ expired[t] \in Nat
    BY <1>t, <1>k
  <1>1. CASE Arrives
    <2>1. UNCHANGED <<created, expired>> /\ record'[t] = record[t]
      BY <1>t, <1>k, <1>1, ArrivalSteps DEF Arrives
    <2> QED  BY <1>k, <2>1
  <1>2. CASE Advances
    <2>1. PICK q \in Received :
            \/ EnterLock(q) \/ CreateStream(q) \/ CreateUnlocked(q)
            \/ ImportRow(q) \/ Deadline(q) \/ ImportThrows(q) \/ AbortSeen(q)
      BY <1>2 DEF Advances
    <2>2. Token(q) \in Tokens /\ expired' = expired
      BY <2>1, RequestsTyped, RequestRows
    <2>3. CASE Token(q) # t
      <3>1. created' = created \/ created' = [created EXCEPT ![Token(q)] = @ + 1]
        BY <2>1, RequestSteps
      <3>2. record' = record \/ Remember(Token(q)) \/ ReleaseReservation(q)
        BY <2>1, RequestSteps
      <3>3. created'[t] = created[t] /\ record'[t] = record[t]
        BY <1>t, <1>k, <2>2, <2>3, <3>1, <3>2 DEF Remember, ReleaseReservation
      <3> QED  BY <1>k, <2>2, <3>3
    <2>4. CASE Token(q) = t
      <3>1. request[q].route = "streams"
        BY <2>4 DEF Token
      <3>2. \/ created' = created /\ record' = record
            \/ /\ IsWorking(q, {"streams"})
               /\ created' = [created EXCEPT ![t] = @ + 1] /\ Remember(t)
        BY <2>1, <2>4, <3>1, RequestSteps, RouteNames DEF IsWorking
      <3>3. ASSUME IsWorking(q, {"streams"}), Remember(t),
                   created' = [created EXCEPT ![t] = @ + 1]
            PROVE  /\ record[t] = "none" /\ record'[t] = "done"
                   /\ created'[t] = created[t] + 1
        BY <1>t, <1>k, <2>4, <3>3 DEF WorkersHold, Remember
      <3> QED  BY <1>k, <1>n, <2>2, <3>2, <3>3
    <2> QED  BY <2>3, <2>4
  <1>3. CASE Ages
    <2>1. created' = created
      BY <1>3, AgingSteps DEF Ages
    <2>2. expired'[t] \in {expired[t], expired[t] + 1}
      BY <1>t, <1>k, <1>3, AgingSteps DEF Ages
    <2>3. \/ record'[t] = record[t]
          \/ record[t] = "done" /\ record'[t] = "none" /\ expired'[t] = expired[t] + 1
      BY <1>t, <1>k, <1>3, AgingSteps DEF Ages
    <2> HIDE DEF t
    <2>4. created'[t] <= expired'[t] + (IF record'[t] = "none" THEN 0 ELSE 1)
      BY <1>k, <1>n, <2>1, <2>2, <2>3
    <2> QED  BY <2>4 DEF t
  <1>4. CASE UNCHANGED vars
    BY <1>k, <1>4 DEF vars
  <1> QED  BY <1>1, <1>2, <1>3, <1>4, StepKinds

-----------------------------------------------------------------------------
LEMMA RequestsKept ==
    ASSUME CreationInv, [Next]_vars
    PROVE  request' \in Seq(ReqStates) /\ Len(request') <= MaxRequests
  <1> USE DEF CreationInv
  <1>t. request \in Seq(ReqStates) /\ Len(request) <= MaxRequests
    BY RequestsTyped DEF TypeOK
  <1>1. CASE Arrives
    BY <1>1, ArrivalSteps DEF Arrives, Arrived
  <1>2. CASE Advances
    <2>1. PICK q \in Received :
            \/ EnterLock(q) \/ CreateStream(q) \/ CreateUnlocked(q)
            \/ ImportRow(q) \/ Deadline(q) \/ ImportThrows(q) \/ AbortSeen(q)
      BY <1>2 DEF Advances
    <2>2. PICK pc : Moved(q, pc)
      BY <2>1, RequestSteps
    <2> QED  BY <1>t, <2>2 DEF Moved
  <1>3. CASE Ages
    BY <1>t, <1>3, AgingSteps DEF Ages
  <1>4. CASE UNCHANGED vars
    BY <1>t, <1>4 DEF vars
  <1> QED  BY <1>1, <1>2, <1>3, <1>4, StepKinds

(* The store, the locks and the counts; a released lock has a holder.      *)
LEMMA StoreTyped ==
    ASSUME CreationInv, [Next]_vars
    PROVE  /\ waiters' \in [Keys -> Seq(Nat)]
           /\ record' \in [Tokens -> {"none", "in_flight", "done"}]
           /\ created' \in [Tokens -> Nat] /\ expired' \in [Tokens \cup Rows -> Nat]
  <1> USE DEF CreationInv
  <1>t. /\ waiters \in [Keys -> Seq(Nat)]
        /\ record \in [Tokens -> {"none", "in_flight", "done"}]
        /\ created \in [Tokens -> Nat] /\ expired \in [Tokens \cup Rows -> Nat]
    BY DEF TypeOK
  <1>1. CASE Arrives
    <2>1. Len(request) + 1 \in Nat
      BY RequestsTyped
    <2>2. PICK key \in Keys :
            /\ UNCHANGED <<created, expired>>
            /\ \/ record' = record
               \/ record' = [record EXCEPT ![<<"import", key>>] = "in_flight"]
            /\ \/ waiters' = waiters
               \/ waiters' = [waiters EXCEPT ![key] = Append(@, Len(request) + 1)]
      BY <1>1, ArrivalSteps DEF Arrives
    <2>3. Append(waiters[key], Len(request) + 1) \in Seq(Nat)
      BY <1>t, <2>1, AppendProperties
    <2> QED  BY <1>t, <2>2, <2>3
  <1>2. CASE Advances
    <2>1. PICK q \in Received :
            \/ EnterLock(q) \/ CreateStream(q) \/ CreateUnlocked(q)
            \/ ImportRow(q) \/ Deadline(q) \/ ImportThrows(q) \/ AbortSeen(q)
      BY <1>2 DEF Advances
    <2>2. /\ request[q].key \in Keys /\ Token(q) \in Tokens
      BY RequestsTyped DEF ReqStates
    <2>3. created' = created \/ created' = [created EXCEPT ![Token(q)] = @ + 1]
      BY <2>1, RequestSteps
    <2>4. record' = record \/ Remember(Token(q)) \/ ReleaseReservation(q)
      BY <2>1, RequestSteps
    <2>5. waiters' = waiters \/ (Release(q) /\ Holds(q))
      BY <2>1, RequestSteps DEF WorkersHold
    <2>6. waiters' \in [Keys -> Seq(Nat)]
      <3>1. Holds(q) => Tail(waiters[request[q].key]) \in Seq(Nat)
        BY <1>t, <2>2, HeadTailProperties DEF Holds
      <3> QED  BY <1>t, <2>2, <2>5, <3>1 DEF Release
    <2>7. record' \in [Tokens -> {"none", "in_flight", "done"}]
      BY <1>t, <2>2, <2>4 DEF Remember, ReleaseReservation
    <2>8. created' \in [Tokens -> Nat] /\ expired' = expired
      BY <1>t, <2>1, <2>2, <2>3, RequestRows
    <2> QED  BY <1>t, <2>6, <2>7, <2>8
  <1>3. CASE Ages
    <2>1. /\ UNCHANGED <<waiters, created>>
          /\ record' = record \/ \E t \in Tokens : record' = [record EXCEPT ![t] = "none"]
          /\ \/ expired' = expired
             \/ \E x \in Tokens \cup Rows : expired' = [expired EXCEPT ![x] = @ + 1]
      BY <1>3, AgingSteps DEF Ages
    <2>2. record' \in [Tokens -> {"none", "in_flight", "done"}]
      BY <1>t, <2>1
    <2>3. expired' \in [Tokens \cup Rows -> Nat]
      <3> DEFINE S == Tokens \cup Rows
      <3> HIDE DEF S
      <3>1. ASSUME NEW x \in S, expired' = [expired EXCEPT ![x] = @ + 1]
            PROVE  expired' \in [S -> Nat]
        <4>1. expired \in [S -> Nat]
          BY <1>t DEF S
        <4>2. expired[x] + 1 \in Nat
          BY <4>1
        <4> QED  BY <3>1, <4>1, <4>2
      <3> QED  BY <1>t, <2>1, <3>1 DEF S
    <2> QED  BY <1>t, <2>1, <2>2, <2>3
  <1>4. CASE UNCHANGED vars
    BY <1>t, <1>4 DEF vars
  <1> QED  BY <1>1, <1>2, <1>3, <1>4, StepKinds

LEMMA StreamsTyped ==
    ASSUME CreationInv, [Next]_vars
    PROVE  /\ rowRecord' \in [Rows -> Nat] /\ imported' \in [Rows -> SUBSET Nat]
           /\ newStreamId' \in Nat \ {0}
           /\ \A r \in Rows : \A s \in imported'[r] \cup {rowRecord'[r]} : s < newStreamId'
  <1> USE DEF CreationInv
  <1>t. /\ rowRecord \in [Rows -> Nat] /\ imported \in [Rows -> SUBSET Nat]
        /\ newStreamId \in Nat \ {0}
        /\ \A r \in Rows : \A s \in imported[r] \cup {rowRecord[r]} : s < newStreamId
    BY DEF TypeOK
  <1>1. CASE UNCHANGED <<rowRecord, imported, newStreamId>>
    BY <1>t, <1>1
  <1>2. ASSUME NEW row \in Rows, RowImported(row)
        PROVE  /\ rowRecord' \in [Rows -> Nat] /\ imported' \in [Rows -> SUBSET Nat]
               /\ newStreamId' \in Nat \ {0}
               /\ \A r \in Rows : \A s \in imported'[r] \cup {rowRecord'[r]} : s < newStreamId'
    <2>1. /\ rowRecord' \in [Rows -> Nat] /\ imported' \in [Rows -> SUBSET Nat]
          /\ newStreamId' \in Nat \ {0} /\ newStreamId < newStreamId'
      BY <1>t, <1>2 DEF RowImported
    <2>2. ASSUME NEW r \in Rows, NEW s \in imported'[r] \cup {rowRecord'[r]}
          PROVE  s < newStreamId'
      <3>1. s \in imported[r] \cup {rowRecord[r], newStreamId}
        BY <1>t, <1>2, <2>2 DEF RowImported
      <3>2. s \in Nat /\ s <= newStreamId
        BY <1>t, <3>1
      <3> QED  BY <1>t, <2>1, <3>2
    <2> QED  BY <2>1, <2>2
  <1>3. CASE Ages
    <2>1. /\ newStreamId' = newStreamId
          /\ rowRecord' \in [Rows -> Nat] /\ imported' \in [Rows -> SUBSET Nat]
          /\ \A r \in Rows : /\ imported'[r] \subseteq imported[r]
                            /\ rowRecord'[r] \in {rowRecord[r], 0}
      BY <1>t, <1>3, AgingSteps DEF Ages
    <2> QED  BY <1>t, <2>1
  <1>4. CASE Arrives
    BY <1>1, <1>4, ArrivalSteps DEF Arrives
  <1>5. CASE Advances
    BY <1>1, <1>2, <1>5, RequestRows DEF Advances
  <1>6. CASE UNCHANGED vars
    BY <1>1, <1>6 DEF vars
  <1> QED  BY <1>3, <1>4, <1>5, <1>6, StepKinds

LEMMA TypeKept ==
    ASSUME CreationInv, [Next]_vars
    PROVE  TypeOK'
  BY RequestsKept, StoreTyped, StreamsTyped DEF TypeOK, ReqStates, PCs

LEMMA CreationInitially ==
    ASSUME Init  PROVE  CreationInv
  <1>1. request \in Seq(ReqStates) /\ Len(request) = 0 /\ Received = {}
    BY DEF Init, Received
  <1>2. TypeOK
    BY <1>1, CreationAssumption DEF Init, TypeOK, ReqStates, PCs
  <1>3. CreationsRecorded
    BY DEF Init, CreationsRecorded, Tokens, Routes
  <1>4. OnlyCreatesQueue /\ WorkersHold /\ OneImporter
    BY <1>1 DEF OnlyCreatesQueue, WorkersHold, OneImporter
  <1> QED  BY <1>2, <1>3, <1>4, RowsInitially DEF CreationInv

-----------------------------------------------------------------------------
(* Whatever requests arrive and time out, the invariant holds.             *)
THEOREM CreationInvariant ==
    Spec => []CreationInv
  <1>1. CreationInv /\ [Next]_vars => CreationInv'
    BY TypeKept, LockKept, CreationsKept, RowsKept, OneImporterKept DEF CreationInv
  <1> QED  BY <1>1, CreationInitially, PTL DEF Spec

(* The state of the creating routes stays within its types.                *)
THEOREM CreationTyped ==
    Spec => []TypeOK
  BY CreationInvariant, PTL DEF CreationInv

(* POST /streams creates one stream for a key while its record lasts       *)
(* (createOnce: withLock around checkIdempotency and setIdempotency).      *)
THEOREM KeysCreateOnce ==
    Spec => []CreatedOnce
  <1>1. CreationInv => CreatedOnce
    <2> SUFFICES ASSUME CreationInv, NEW k \in Keys
                 PROVE  created[<<"streams", k>>] <= 1 + expired[<<"streams", k>>]
      BY DEF CreatedOnce
    <2> DEFINE t == <<"streams", k>>
    <2>1. t \in Tokens
      BY DEF Tokens, Routes
    <2>2. created[t] \in Nat /\ expired[t] \in Nat
      BY <2>1 DEF CreationInv, TypeOK
    <2>3. created[t] <= expired[t] + (IF record[t] = "none" THEN 0 ELSE 1)
      BY DEF CreationInv, CreationsRecorded
    <2> HIDE DEF t
    <2>4. created[t] <= 1 + expired[t]
      BY <2>2, <2>3
    <2> QED  BY <2>4 DEF t
  <1> QED  BY <1>1, CreationInvariant, PTL

(* POST /streams/import gives a row one stream, and one more at most for   *)
(* every time its record has expired (the look-up of rowDedupeToken).      *)
THEOREM RowsImportOnce ==
    Spec => []ImportedOnce
  <1>1. CreationInv => ImportedOnce
    <2> SUFFICES ASSUME CreationInv, NEW r \in Rows
                 PROVE  Cardinality(imported[r]) <= 1 + expired[r]
      BY DEF ImportedOnce
    <2>1. /\ IsFiniteSet(imported[r])
          /\ Cardinality(imported[r] \ {rowRecord[r]}) <= expired[r]
      BY DEF CreationInv, RowsRecorded
    <2>2. expired[r] \in Nat
      BY DEF CreationInv, TypeOK
    <2>3. IsFiniteSet(imported[r] \ {rowRecord[r]})
      BY <2>1, FS_RemoveElement
    <2>4. /\ Cardinality(imported[r] \ {rowRecord[r]}) \in Nat
          /\ Cardinality(imported[r]) \in Nat
      BY <2>1, <2>3, FS_CardinalityType
    <2>5. Cardinality(imported[r]) <= Cardinality(imported[r] \ {rowRecord[r]}) + 1
      BY <2>1, <2>4, FS_RemoveElement
    <2> QED  BY <2>1, <2>2, <2>4, <2>5
  <1> QED  BY <1>1, CreationInvariant, PTL

(* One handler imports under a key, and the reservation stays its own      *)
(* (releaseReservation and the checks of signal.aborted).                  *)
THEOREM ReservationsAreOwn ==
    Spec => []OneImporter
  BY CreationInvariant, PTL DEF CreationInv
=============================================================================
