--------------------------- MODULE BrowserProofs ---------------------------
(***************************************************************************)
(* Proofs about the two stores of the browser: the retry queue of          *)
(* SorobanRetryQueue, for any limits, delays and bounds, and the fetches   *)
(* of AccountFetch, for any accounts, keys and retries. The two have no    *)
(* state in common.                                                        *)
(***************************************************************************)
EXTENDS SorobanRetryQueue, AccountFetch, SequenceTheorems, TLAPS

(***************************************************************************)
(* The retry queue.  An entry stays within its account (runs, attempts,    *)
(* the limit it was given), the disk holds the queue as it was saved last, *)
(* and what changes the queue saves it.                                    *)
(***************************************************************************)

Statuses == {"none", "pending", "processing", "dead"}

EntryFits(entry) ==
    /\ entry \in [ status : Statuses, attempts : Nat, maxAttempts : Nat,
                   nextRetryAt : {entry.nextRetryAt} ]
    /\ entry.status \in {"pending", "processing"} =>
         entry.attempts < AtLeastOne(entry.maxAttempts)
    /\ entry.status = "dead" => entry.attempts = AtLeastOne(entry.maxAttempts)

(* A table of entries, of which only the first n have been enqueued.       *)
Table(entries, n) ==
    /\ DOMAIN entries = Ids /\ entries = [id \in Ids |-> entries[id]]
    /\ \A id \in Ids : EntryFits(entries[id]) /\ (id > n => entries[id].status = "none")

(* The runs of an entry, accounted for: those of the times it was brought  *)
(* back, those that failed since, the one in progress, those cut off.      *)
Allowance(m, n) == m * n
Within(entry, n, requeued, reloaded) ==
    entry.status # "none" =>
        n <= Allowance(AtLeastOne(entry.maxAttempts), requeued) + entry.attempts
             + (IF entry.status = "processing" THEN 1 ELSE 0) + reloaded

Concluded(status) == IF status = "processing" THEN "pending" ELSE status

(* What is saved is what is in memory, but for what was in flight.         *)
Agrees(entry, other) ==
    /\ entry.attempts = other.attempts /\ entry.maxAttempts = other.maxAttempts
    /\ Concluded(entry.status) = Concluded(other.status)

QueueTypes ==
    /\ limit \in Nat /\ disk.limit \in Nat /\ disk = Envelope(disk.entries, disk.limit)
    /\ available \in BOOLEAN /\ saved \in BOOLEAN /\ faults \in Nat
    /\ enqueued \in Nat /\ requeues \in Nat /\ reloads \in Nat /\ runs \in [Ids -> Nat]

QueueInv ==
    /\ QueueTypes
    /\ Table(storage, enqueued) /\ Table(disk.entries, enqueued)
    /\ \A id \in Ids : id > enqueued => runs[id] = 0
    /\ faults = 0 =>
        /\ available
        /\ \A id \in Ids : /\ Within(storage[id], runs[id], requeues, reloads)
                           /\ Within(disk.entries[id], runs[id], requeues, reloads)
    /\ saved =>
        /\ disk.limit = limit
        /\ \A id \in Ids : Agrees(disk.entries[id], storage[id])

-----------------------------------------------------------------------------
LEMMA Allowances ==
    ASSUME NEW m \in Nat, NEW n \in Nat
    PROVE  Allowance(m, n) \in Nat /\ Allowance(m, n + 1) = Allowance(m, n) + m
  BY DEF Allowance

LEMMA AtLeast ==
    ASSUME NEW m \in Nat
    PROVE  AtLeastOne(m) \in Nat /\ AtLeastOne(m) > 0
  BY DEF AtLeastOne

(* The account of an entry allows more as dead letters are brought back    *)
(* and the page is loaded.                                                 *)
LEMMA WithinGrows ==
    ASSUME NEW entry, EntryFits(entry), NEW n \in Nat,
           NEW q \in Nat, NEW l \in Nat, NEW p \in Nat, NEW k \in Nat,
           p = q \/ p = q + 1, l <= k, Within(entry, n, q, l)
    PROVE  Within(entry, n, p, k)
  <1> DEFINE m == AtLeastOne(entry.maxAttempts)
  <1>1. m \in Nat /\ entry.attempts \in Nat
    BY AtLeast DEF EntryFits
  <1> HIDE DEF m
  <1>2. Allowance(m, q) \in Nat /\ Allowance(m, p) \in Nat /\ Allowance(m, q) <= Allowance(m, p)
    <2>1. /\ Allowance(m, q) \in Nat /\ Allowance(m, p) \in Nat
          /\ Allowance(m, q + 1) = Allowance(m, q) + m
      BY <1>1, Allowances
    <2>2. CASE p = q
      BY <2>1, <2>2
    <2>3. CASE p = q + 1
      BY <1>1, <2>1, <2>3
    <2> QED  BY <2>2, <2>3
  <1>3. SUFFICES ASSUME entry.status # "none"
                 PROVE  n <= Allowance(m, p) + entry.attempts
                             + (IF entry.status = "processing" THEN 1 ELSE 0) + k
    BY DEF Within, m
  <1>4. n <= Allowance(m, q) + entry.attempts
             + (IF entry.status = "processing" THEN 1 ELSE 0) + l
    BY <1>3 DEF Within, m
  <1> QED  BY <1>1, <1>2, <1>4

(* An account that is kept bounds the runs.                                *)
LEMMA WithinBounds ==
    ASSUME NEW entry, EntryFits(entry), NEW n \in Nat, NEW q \in Nat, NEW l \in Nat,
           Within(entry, n, q, l), entry.status # "none"
    PROVE  n <= AtLeastOne(entry.maxAttempts) * (1 + q) + l
  <1> DEFINE m == AtLeastOne(entry.maxAttempts)
  <1>1. /\ m \in Nat /\ entry.attempts \in Nat
        /\ entry.status = "processing" => entry.attempts + 1 <= m
        /\ entry.attempts <= m
    <2>1. entry.attempts \in Nat /\ m \in Nat
      BY AtLeast DEF EntryFits
    <2>2. /\ entry.status \in {"pending", "processing"} => entry.attempts < m
          /\ entry.status = "dead" => entry.attempts = m
          /\ entry.status \in Statuses
      BY DEF EntryFits
    <2> HIDE DEF m
    <2> QED  BY <2>1, <2>2 DEF Statuses
  <1>2. n <= Allowance(m, q) + entry.attempts
             + (IF entry.status = "processing" THEN 1 ELSE 0) + l
    BY DEF Within
  <1> HIDE DEF m
  <1>3. Allowance(m, q) \in Nat /\ Allowance(m, q + 1) = Allowance(m, q) + m
    BY <1>1, Allowances
  <1>4. n <= Allowance(m, q + 1) + l
    BY <1>1, <1>2, <1>3
  <1>5. Allowance(m, q + 1) = m * (1 + q)
    BY <1>1 DEF Allowance
  <1> QED  BY <1>4, <1>5 DEF m

LEMMA EmptyTable ==
    ASSUME NEW n
    PROVE  /\ Table(Empty, n)
           /\ \A id \in Ids : Empty[id].status = "none" /\ EntryFits(Empty[id])
  BY DEF Table, Empty, NoEntry, Entry, EntryFits, Statuses

LEMMA AgreesItself ==
    ASSUME NEW entry
    PROVE  Agrees(entry, entry)
  BY DEF Agrees

-----------------------------------------------------------------------------
(* Every change of the queue ends in _persist.                             *)
LEMMA PersistKeeps ==
    ASSUME QueueInv, NEW entries, NEW m \in Nat, Persist(entries, m),
           UNCHANGED environment,
           enqueued' \in Nat, enqueued <= enqueued',
           requeues' \in Nat, requeues' = requeues \/ requeues' = requeues + 1,
           reloads' = reloads, runs' \in [Ids -> Nat],
           Table(entries, enqueued'), \A id \in Ids : id > enqueued' => runs'[id] = 0,
           faults = 0 =>
             \A id \in Ids : Within(entries[id], runs'[id], requeues', reloads)
    PROVE  QueueInv'
  <1>1. /\ storage' = entries /\ limit' = m /\ saved' = available
        /\ disk' = IF available THEN Envelope(entries, m) ELSE disk
        /\ available' = available /\ faults' = faults
    BY DEF Persist, environment
  <1>2. available \in BOOLEAN /\ faults \in Nat
    BY DEF QueueInv, QueueTypes
  <1>3. CASE available
    <2>1. disk'.entries = entries /\ disk'.limit = m /\ disk' = Envelope(entries, m)
      BY <1>1, <1>3 DEF Envelope
    <2>2. QueueTypes'
      BY <1>1, <1>2, <2>1 DEF QueueInv, QueueTypes
    <2>3. saved' =>
            /\ disk'.limit = limit'
            /\ \A id \in Ids : Agrees(disk'.entries[id], storage'[id])
      BY <1>1, <2>1, AgreesItself
    <2> QED  BY <1>1, <1>3, <2>1, <2>2, <2>3 DEF QueueInv
  <1>4. CASE ~available
    <2>1. disk' = disk /\ ~saved' /\ faults # 0
      BY <1>1, <1>4 DEF QueueInv
    <2>2. QueueTypes'
      BY <1>1, <1>2, <2>1 DEF QueueInv, QueueTypes
    <2>3. Table(disk.entries, enqueued')
      <3>1. enqueued \in Nat /\ Ids \subseteq Int
        BY DEF QueueInv, QueueTypes, Ids
      <3> QED  BY <3>1 DEF QueueInv, Table
    <2> QED  BY <1>1, <2>1, <2>2, <2>3 DEF QueueInv
  <1> QED  BY <1>2, <1>3, <1>4

(* One entry is replaced.                                                  *)
LEMMA ChangeKeeps ==
    ASSUME QueueInv, NEW id \in Ids, NEW r, EntryFits(r), Change(id, r),
           UNCHANGED <<environment, reloads>>,
           enqueued' \in Nat, enqueued <= enqueued', id <= enqueued',
           requeues' = requeues \/ requeues' = requeues + 1,
           runs' \in [Ids -> Nat], \A o \in Ids : o # id => runs'[o] = runs[o],
           faults = 0 => Within(r, runs'[id], requeues', reloads)
    PROVE  QueueInv'
  <1> DEFINE entries == [storage EXCEPT ![id] = r]
  <1>1. /\ QueueTypes /\ Table(storage, enqueued)
        /\ \A o \in Ids : o > enqueued => runs[o] = 0
        /\ faults = 0 => \A o \in Ids : Within(storage[o], runs[o], requeues, reloads)
    BY DEF QueueInv
  <1>2. /\ DOMAIN entries = Ids /\ entries[id] = r
        /\ \A o \in Ids : o # id => entries[o] = storage[o]
    BY <1>1 DEF Table
  <1>3. entries = [o \in Ids |-> entries[o]]
    BY <1>1 DEF Table
  <1>4. Persist(entries, limit)
    BY DEF Change
  <1> HIDE DEF entries
  <1>5. /\ enqueued \in Nat /\ requeues \in Nat /\ reloads \in Nat /\ limit \in Nat
        /\ runs \in [Ids -> Nat] /\ Ids \subseteq Int
    BY <1>1 DEF QueueTypes, Ids
  <1>6. Table(entries, enqueued')
    BY <1>1, <1>2, <1>3, <1>5 DEF Table
  <1>7. \A o \in Ids : o > enqueued' => runs'[o] = 0
    BY <1>1, <1>5
  <1>8. requeues' \in Nat /\ reloads' = reloads
    BY <1>5
  <1>9. ASSUME faults = 0, NEW o \in Ids
        PROVE  Within(entries[o], runs'[o], requeues', reloads)
    <2>1. CASE o = id
      BY <1>2, <1>9, <2>1
    <2>2. CASE o # id
      <3>1. /\ Within(storage[o], runs[o], requeues, reloads) /\ EntryFits(storage[o])
            /\ runs[o] \in Nat
        BY <1>1, <1>5, <1>9 DEF Table
      <3>2. Within(storage[o], runs[o], requeues', reloads)
        BY <1>5, <1>8, <3>1, WithinGrows
      <3> QED  BY <1>2, <2>2, <3>2
    <2> QED  BY <2>1, <2>2
  <1>10. UNCHANGED environment
    OBVIOUS
  <1> QED  BY <1>4, <1>5, <1>6, <1>7, <1>8, <1>9, <1>10, PersistKeeps

LEMMA StoredEntry ==
    ASSUME QueueInv, NEW id \in Ids
    PROVE  /\ EntryFits(storage[id]) /\ runs[id] \in Nat /\ id \in Nat
           /\ enqueued \in Nat /\ requeues \in Nat /\ reloads \in Nat /\ limit \in Nat
           /\ storage[id].status # "none" => id <= enqueued
           /\ faults = 0 => Within(storage[id], runs[id], requeues, reloads)
  BY DEF QueueInv, QueueTypes, Table, Ids

LEMMA EnqueueKeeps ==
    ASSUME QueueInv, enqueue
    PROVE  QueueInv'
  <1> DEFINE id == enqueued + 1
             r  == Entry("pending", 0, limit, now)
  <1>1. /\ enqueued < MaxEntries /\ enqueued' = enqueued + 1 /\ Change(id, r)
        /\ UNCHANGED <<environment, runs, requeues, reloads>>
    BY DEF enqueue
  <1>2. /\ enqueued \in Nat /\ requeues \in Nat /\ reloads \in Nat /\ limit \in Nat
        /\ runs \in [Ids -> Nat]
    BY DEF QueueInv, QueueTypes
  <1>3. id \in Ids /\ enqueued' \in Nat /\ enqueued <= enqueued' /\ id <= enqueued'
    BY <1>1, <1>2, QueueAssumption DEF Ids
  <1>4. AtLeastOne(limit) \in Nat /\ AtLeastOne(limit) > 0
    BY <1>2, AtLeast
  <1>5. /\ EntryFits(r) /\ r.status = "pending" /\ r.attempts = 0 /\ r.maxAttempts = limit
    BY <1>2, <1>4 DEF Entry, EntryFits, Statuses
  <1>6. runs[id] = 0
    BY <1>2, <1>3 DEF QueueInv
  <1> HIDE DEF r, id
  <1>7. Within(r, runs'[id], requeues', reloads)
    <2>1. Allowance(AtLeastOne(limit), requeues) \in Nat
      BY <1>2, <1>4, Allowances
    <2> QED  BY <1>1, <1>2, <1>5, <1>6, <2>1 DEF Within
  <1>8. UNCHANGED <<environment, reloads>> /\ runs' = runs /\ requeues' = requeues
    BY <1>1
  <1> QED  BY <1>1, <1>2, <1>3, <1>5, <1>7, <1>8, ChangeKeeps

LEMMA DequeueKeeps ==
    ASSUME QueueInv, NEW id \in Ids, dequeue(id)
    PROVE  QueueInv'
  <1> DEFINE r == [storage[id] EXCEPT !.status = "processing"]
  <1>1. /\ storage[id].status = "pending" /\ Change(id, r)
        /\ runs' = [runs EXCEPT ![id] = @ + 1]
        /\ UNCHANGED <<environment, enqueued, requeues, reloads>>
    BY DEF dequeue, Due
  <1>2. /\ EntryFits(storage[id]) /\ runs[id] \in Nat /\ id \in Nat /\ id <= enqueued
        /\ enqueued \in Nat /\ requeues \in Nat /\ reloads \in Nat
        /\ faults = 0 => Within(storage[id], runs[id], requeues, reloads)
    BY <1>1, StoredEntry
  <1>3. /\ EntryFits(r) /\ r.status = "processing" /\ r.attempts = storage[id].attempts
        /\ r.maxAttempts = storage[id].maxAttempts
    BY <1>1, <1>2 DEF EntryFits, Entry, Statuses
  <1>4. runs' \in [Ids -> Nat] /\ runs'[id] = runs[id] + 1
        /\ \A o \in Ids : o # id => runs'[o] = runs[o]
    BY <1>1 DEF QueueInv, QueueTypes
  <1>5. AtLeastOne(r.maxAttempts) \in Nat /\ r.attempts \in Nat
    BY <1>3, AtLeast DEF EntryFits
  <1>6. Allowance(AtLeastOne(r.maxAttempts), requeues) \in Nat
    BY <1>2, <1>5, Allowances
  <1> HIDE DEF r
  <1>7. faults = 0 => Within(r, runs'[id], requeues, reloads)
    BY <1>1, <1>2, <1>3, <1>4, <1>5, <1>6 DEF Within
  <1>8. /\ UNCHANGED <<environment, reloads>> /\ enqueued' = enqueued /\ requeues' = requeues
        /\ Change(id, r)
    BY <1>1
  <1> QED  BY <1>2, <1>3, <1>4, <1>7, <1>8, ChangeKeeps

(* What is in memory and on disk is not touched.                           *)
LEMMA StorageKept ==
    ASSUME QueueInv, UNCHANGED <<queue, available, faults, history>>
    PROVE  QueueInv'
  BY DEF QueueInv, QueueTypes, queue, history, Table

LEMMA CompleteKeeps ==
    ASSUME QueueInv, NEW id \in Ids, markComplete(id)
    PROVE  QueueInv'
  <1>1. /\ UNCHANGED <<environment, history>>
        /\ \/ Change(id, NoEntry) /\ storage[id].status = "processing"
           \/ UNCHANGED queue
    BY DEF markComplete, Returned
  <1>2. CASE Change(id, NoEntry) /\ storage[id].status = "processing"
    <2>1. id <= enqueued /\ enqueued \in Nat
      BY <1>2, StoredEntry
    <2>2. EntryFits(NoEntry) /\ NoEntry.status = "none"
      BY DEF EntryFits, NoEntry, Entry, Statuses
    <2>3. Within(NoEntry, runs'[id], requeues', reloads)
      BY <2>2 DEF Within
    <2>4. /\ UNCHANGED <<environment, reloads>> /\ enqueued' = enqueued
          /\ requeues' = requeues /\ runs' = runs
      BY <1>1 DEF history
    <2>5. runs \in [Ids -> Nat]
      BY DEF QueueInv, QueueTypes
    <2> QED  BY <1>2, <2>1, <2>2, <2>3, <2>4, <2>5, ChangeKeeps
  <1>3. CASE UNCHANGED queue
    BY <1>1, <1>3, StorageKept DEF environment
  <1> QED  BY <1>1, <1>2, <1>3

(* A failed run becomes an attempt.                                        *)
LEMMA AttemptKeeps ==
    ASSUME QueueInv, NEW id \in Ids, UNCHANGED <<environment, history>>,
           storage[id].status = "processing", Fail(id)
    PROVE  QueueInv'
  <1> DEFINE e == storage[id]
  <1>1. /\ UNCHANGED <<environment, history>> /\ e.status = "processing"
        /\ \/ /\ Exhausted(e)
              /\ Change(id, [e EXCEPT !.attempts = @ + 1, !.status = "dead"])
           \/ /\ ~Exhausted(e)
              /\ \E at : Change(id, [e EXCEPT !.attempts = @ + 1, !.status = "pending",
                                              !.nextRetryAt = at])
    BY DEF Fail
  <1>2. /\ EntryFits(e) /\ runs[id] \in Nat /\ id \in Nat /\ id <= enqueued
        /\ enqueued \in Nat /\ requeues \in Nat /\ reloads \in Nat
        /\ faults = 0 => Within(e, runs[id], requeues, reloads)
    BY <1>1, StoredEntry
  <1>3. PICK r : /\ Change(id, r) /\ EntryFits(r) /\ r.status \in {"dead", "pending"}
                 /\ r.attempts = e.attempts + 1 /\ r.maxAttempts = e.maxAttempts
    <2>1. /\ e.attempts < AtLeastOne(e.maxAttempts) /\ e.attempts \in Nat
          /\ e.maxAttempts \in Nat
          /\ e \in [ status : Statuses, attempts : Nat, maxAttempts : Nat,
                     nextRetryAt : {e.nextRetryAt} ]
      BY <1>1, <1>2 DEF EntryFits
    <2> HIDE DEF e
    <2>2. CASE Exhausted(e)
      <3> DEFINE r == [e EXCEPT !.attempts = @ + 1, !.status = "dead"]
      <3>1. Change(id, r)
        BY <1>1, <2>2
      <3>2. /\ r.status = "dead" /\ r.attempts = e.attempts + 1
            /\ r.maxAttempts = e.maxAttempts /\ r.nextRetryAt = e.nextRetryAt
            /\ r \in [ status : Statuses, attempts : Nat, maxAttempts : Nat,
                       nextRetryAt : {e.nextRetryAt} ]
        <4>1. e.attempts + 1 \in Nat
          BY <2>1
        <4> QED  BY <2>1, <4>1 DEF Statuses
      <3> HIDE DEF r
      <3>3. r.attempts = AtLeastOne(r.maxAttempts)
        BY <2>1, <2>2, <3>2 DEF Exhausted, AtLeastOne
      <3> QED  BY <2>1, <3>1, <3>2, <3>3 DEF EntryFits, Statuses
    <2>3. CASE ~Exhausted(e)
      <3>1. PICK at : Change(id, [e EXCEPT !.attempts = @ + 1, !.status = "pending",
                                           !.nextRetryAt = at])
        BY <1>1, <2>3
      <3> DEFINE r == [e EXCEPT !.attempts = @ + 1, !.status = "pending", !.nextRetryAt = at]
      <3>2. /\ r.status = "pending" /\ r.attempts = e.attempts + 1
            /\ r.maxAttempts = e.maxAttempts /\ r.nextRetryAt = at
            /\ r \in [ status : Statuses, attempts : Nat, maxAttempts : Nat,
                       nextRetryAt : {at} ]
        <4>1. e.attempts + 1 \in Nat
          BY <2>1
        <4> QED  BY <2>1, <4>1 DEF Statuses
      <3>3. Change(id, r)
        BY <3>1
      <3> HIDE DEF r
      <3>4. r.attempts < AtLeastOne(r.maxAttempts)
        BY <2>1, <2>3, <3>2 DEF Exhausted, AtLeastOne
      <3> QED  BY <2>1, <3>2, <3>3, <3>4 DEF EntryFits, Statuses
    <2> QED  BY <2>2, <2>3
  <1>4. /\ AtLeastOne(e.maxAttempts) \in Nat /\ e.attempts \in Nat
    BY <1>2, AtLeast DEF EntryFits
  <1>5. Allowance(AtLeastOne(e.maxAttempts), requeues) \in Nat
    BY <1>2, <1>4, Allowances
  <1> HIDE DEF e
  <1>6. /\ UNCHANGED <<environment, reloads>> /\ enqueued' = enqueued
        /\ requeues' = requeues /\ runs' = runs
    BY <1>1 DEF history
  <1>7. faults = 0 => Within(r, runs'[id], requeues', reloads)
    <2>1. SUFFICES ASSUME faults = 0
                   PROVE  Within(r, runs[id], requeues, reloads)
      BY <1>6
    <2>2. runs[id] <= Allowance(AtLeastOne(e.maxAttempts), requeues) + e.attempts + 1 + reloads
      BY <1>1, <1>2, <2>1 DEF Within
    <2>3. SUFFICES runs[id] <= Allowance(AtLeastOne(e.maxAttempts), requeues)
                               + (e.attempts + 1) + 0 + reloads
      BY <1>3 DEF Within
    <2> QED  BY <1>2, <1>4, <1>5, <2>2
  <1>8. runs' \in [Ids -> Nat] /\ \A o \in Ids : o # id => runs'[o] = runs[o]
    BY <1>6 DEF QueueInv, QueueTypes
  <1> QED  BY <1>2, <1>3, <1>6, <1>7, <1>8, ChangeKeeps

(* A failure that is refused, or reported for an entry that is gone,       *)
(* changes nothing of the queue.                                           *)
LEMMA FailKeeps ==
    ASSUME QueueInv, NEW id \in Ids, NEW error, markFailed(id, error)
    PROVE  QueueInv'
  <1>1. /\ UNCHANGED <<environment, history>>
        /\ UNCHANGED queue \/ (storage[id].status = "processing" /\ Fail(id))
    BY DEF markFailed, Returned, Refuse
  <1>2. CASE UNCHANGED queue
    BY <1>1, <1>2, StorageKept DEF environment
  <1> QED  BY <1>1, <1>2, AttemptKeeps

LEMMA RequeueKeeps ==
    ASSUME QueueInv, NEW id \in Ids, requeueDeadLetter(id)
    PROVE  QueueInv'
  <1> DEFINE e == storage[id]
             r == Requeued(e)
  <1>1. /\ e.status = "dead" /\ Change(id, r) /\ requeues' = requeues + 1
        /\ UNCHANGED <<environment, enqueued, runs, reloads>>
    BY DEF requeueDeadLetter
  <1>2. /\ EntryFits(e) /\ runs[id] \in Nat /\ id \in Nat /\ id <= enqueued
        /\ enqueued \in Nat /\ requeues \in Nat /\ reloads \in Nat
        /\ faults = 0 => Within(e, runs[id], requeues, reloads)
    BY <1>1, StoredEntry
  <1> DEFINE m == AtLeastOne(e.maxAttempts)
  <1>3. /\ m \in Nat /\ m > 0 /\ e.maxAttempts \in Nat /\ e.attempts = m
    BY <1>1, <1>2, AtLeast DEF EntryFits
  <1>4. /\ EntryFits(r) /\ r.status = "pending" /\ r.attempts = 0
        /\ r.maxAttempts = e.maxAttempts
    <2>1. e \in [ status : Statuses, attempts : Nat, maxAttempts : Nat,
                 nextRetryAt : {e.nextRetryAt} ]
      BY <1>2 DEF EntryFits
    <2> HIDE DEF e
    <2>2. /\ r.status = "pending" /\ r.attempts = 0 /\ r.maxAttempts = e.maxAttempts
          /\ r \in [ status : Statuses, attempts : Nat, maxAttempts : Nat,
                     nextRetryAt : {r.nextRetryAt} ]
      BY <2>1 DEF Requeued, Statuses
    <2> HIDE DEF r
    <2> QED  BY <1>3, <2>2 DEF EntryFits, Statuses
  <1>5. Allowance(m, requeues) \in Nat /\ Allowance(m, requeues + 1) = Allowance(m, requeues) + m
    BY <1>2, <1>3, Allowances
  <1>6. AtLeastOne(r.maxAttempts) = m
    BY <1>4
  <1> HIDE DEF r, e
  <1>7. faults = 0 => Within(r, runs[id], requeues + 1, reloads)
    <2>1. SUFFICES ASSUME faults = 0
                   PROVE  runs[id] <= Allowance(m, requeues + 1) + 0 + 0 + reloads
      BY <1>4, <1>6 DEF Within
    <2>2. runs[id] <= Allowance(m, requeues) + m + 0 + reloads
      BY <1>1, <1>2, <1>3, <2>1 DEF Within
    <2> QED  BY <1>2, <1>3, <1>5, <2>2
  <1>8. /\ UNCHANGED <<environment, reloads>> /\ enqueued' = enqueued /\ runs' = runs
        /\ runs \in [Ids -> Nat]
    BY <1>1 DEF QueueInv, QueueTypes
  <1> QED  BY <1>1, <1>2, <1>4, <1>7, <1>8, ChangeKeeps

LEMMA ConfigKeeps ==
    ASSUME QueueInv,
           (\E m \in Limits : setConfig(m)) \/ clear
    PROVE  QueueInv'
  <1>1. PICK entries, m : /\ Persist(entries, m) /\ UNCHANGED <<environment, history>>
                          /\ entries = storage \/ entries = Empty
                          /\ m \in Nat
    BY QueueAssumption DEF setConfig, clear
  <1>2. /\ enqueued' = enqueued /\ requeues' = requeues /\ reloads' = reloads /\ runs' = runs
        /\ UNCHANGED environment
    BY <1>1 DEF history
  <1>3. /\ enqueued \in Nat /\ requeues \in Nat /\ runs \in [Ids -> Nat]
        /\ \A id \in Ids : id > enqueued => runs[id] = 0
    BY DEF QueueInv, QueueTypes
  <1>4. Table(entries, enqueued)
    BY <1>1, EmptyTable DEF QueueInv
  <1>5. faults = 0 => \A id \in Ids : Within(entries[id], runs[id], requeues, reloads)
    BY <1>1, EmptyTable DEF QueueInv, Within
  <1> QED  BY <1>1, <1>2, <1>3, <1>4, <1>5, PersistKeeps

LEMMA RecoveredFits ==
    ASSUME NEW entry, EntryFits(entry)
    PROVE  /\ EntryFits(Recovered(entry)) /\ Agrees(entry, Recovered(entry))
           /\ Recovered(entry).status = Concluded(entry.status)
           /\ Recovered(entry).status = "none" <=> entry.status = "none"
           /\ Recovered(entry).attempts = entry.attempts
           /\ Recovered(entry).maxAttempts = entry.maxAttempts
  <1>1. CASE entry.status = "processing"
    <2> DEFINE r == [entry EXCEPT !.status = "pending", !.nextRetryAt = now]
    <2>1. Recovered(entry) = r
      BY <1>1 DEF Recovered
    <2>2. /\ r \in [ status : Statuses, attempts : Nat, maxAttempts : Nat, nextRetryAt : {now} ]
          /\ r.status = "pending" /\ r.attempts = entry.attempts
          /\ r.maxAttempts = entry.maxAttempts /\ r.nextRetryAt = now
      BY DEF EntryFits, Statuses
    <2> HIDE DEF r
    <2>3. EntryFits(r)
      BY <1>1, <2>2 DEF EntryFits
    <2> QED  BY <1>1, <2>1, <2>2, <2>3 DEF Agrees, Concluded
  <1>2. CASE entry.status # "processing"
    BY <1>2 DEF Recovered, Agrees, Concluded
  <1> QED  BY <1>1, <1>2

(* A run that a reload cuts off is one more run and no attempt.            *)
LEMMA WithinRecovered ==
    ASSUME NEW entry, EntryFits(entry), NEW n \in Nat, NEW q \in Nat, NEW l \in Nat,
           Within(entry, n, q, l)
    PROVE  Within(Recovered(entry), n, q, l + 1)
  <1> DEFINE r == Recovered(entry)
             a == Allowance(AtLeastOne(entry.maxAttempts), q)
  <1>1. /\ r.status = Concluded(entry.status) /\ r.attempts = entry.attempts
        /\ r.maxAttempts = entry.maxAttempts
        /\ r.status = "none" <=> entry.status = "none"
    BY RecoveredFits
  <1>2. entry.attempts \in Nat /\ entry.maxAttempts \in Nat
    BY DEF EntryFits
  <1>3. a \in Nat
    BY <1>2, AtLeast, Allowances
  <1>4. Allowance(AtLeastOne(r.maxAttempts), q) = a /\ r.status # "processing"
    BY <1>1 DEF Concluded
  <1>5. entry.status # "none" =>
          n <= a + entry.attempts + (IF entry.status = "processing" THEN 1 ELSE 0) + l
    BY DEF Within
  <1> HIDE DEF a, r
  <1>6. entry.status # "none" => n <= a + r.attempts + 0 + (l + 1)
    BY <1>1, <1>2, <1>3, <1>5
  <1>7. Within(r, n, q, l + 1)
    BY <1>1, <1>4, <1>6 DEF Within
  <1> QED  BY <1>7 DEF r

LEMMA HydrateKeeps ==
    ASSUME QueueInv, hydrate
    PROVE  QueueInv'
  <1>1. /\ reloads' = reloads + 1 /\ saved' = available
        /\ storage' = IF available THEN [id \in Ids |-> Recovered(disk.entries[id])] ELSE Empty
        /\ limit' = IF available THEN disk.limit ELSE DefaultLimit
        /\ disk' = disk /\ available' = available /\ faults' = faults
        /\ enqueued' = enqueued /\ runs' = runs /\ requeues' = requeues
    BY DEF hydrate, environment
  <1>2. /\ QueueTypes /\ Table(disk.entries, enqueued)
        /\ DefaultLimit \in Nat
    BY QueueAssumption DEF QueueInv
  <1>3. limit' \in Nat /\ QueueTypes'
    BY <1>1, <1>2 DEF QueueTypes
  <1>4. Table(storage', enqueued)
    <2>1. CASE available
      <3>1. \A id \in Ids : /\ storage'[id] = Recovered(disk.entries[id])
                            /\ EntryFits(storage'[id])
                            /\ id > enqueued => storage'[id].status = "none"
        BY <1>1, <1>2, <2>1, RecoveredFits DEF Table
      <3>2. storage' = [id \in Ids |-> Recovered(disk.entries[id])]
        BY <1>1, <2>1
      <3>3. DOMAIN storage' = Ids /\ storage' = [id \in Ids |-> storage'[id]]
        BY <3>2
      <3> QED  BY <3>1, <3>3 DEF Table
    <2>2. CASE ~available
      BY <1>1, <2>2, EmptyTable
    <2> QED  BY <2>1, <2>2
  <1>5. ASSUME faults = 0
        PROVE  /\ available
               /\ \A id \in Ids : /\ Within(storage'[id], runs[id], requeues, reloads + 1)
                                  /\ Within(disk.entries[id], runs[id], requeues, reloads + 1)
    <2>1. available /\ \A id \in Ids : Within(disk.entries[id], runs[id], requeues, reloads)
      BY <1>5 DEF QueueInv
    <2> SUFFICES ASSUME NEW id \in Ids
                 PROVE  /\ Within(storage'[id], runs[id], requeues, reloads + 1)
                        /\ Within(disk.entries[id], runs[id], requeues, reloads + 1)
      BY <2>1
    <2>2. /\ EntryFits(disk.entries[id]) /\ runs[id] \in Nat /\ requeues \in Nat
          /\ reloads \in Nat /\ reloads + 1 \in Nat /\ reloads <= reloads + 1
      BY <1>2 DEF Table, QueueTypes
    <2>3. storage'[id] = Recovered(disk.entries[id])
      BY <1>1, <2>1
    <2>4. Within(Recovered(disk.entries[id]), runs[id], requeues, reloads + 1)
      BY <2>1, <2>2, WithinRecovered
    <2>5. Within(disk.entries[id], runs[id], requeues, reloads + 1)
      BY <2>1, <2>2, WithinGrows
    <2> QED  BY <2>3, <2>4, <2>5
  <1>6. ASSUME available
        PROVE  disk.limit = limit' /\ \A id \in Ids : Agrees(disk.entries[id], storage'[id])
    BY <1>1, <1>2, <1>6, RecoveredFits DEF Table
  <1> QED  BY <1>1, <1>2, <1>3, <1>4, <1>5, <1>6 DEF QueueInv

(* localStorage stops, returns or loses its data; time passes.             *)
LEMMA EnvironmentKeeps ==
    ASSUME QueueInv,
           StorageStops \/ StorageReturns \/ StorageLost \/ Tick \/ UNCHANGED vars
    PROVE  QueueInv'
  <1>1. QueueTypes
    BY DEF QueueInv
  <1>2. CASE StorageStops
    <2>1. /\ faults' = faults + 1 /\ available' = FALSE
          /\ UNCHANGED <<storage, limit, disk, saved, history>>
      BY <1>2 DEF StorageStops, queue
    <2>2. faults' # 0 /\ faults' \in Nat
      BY <1>1, <2>1 DEF QueueTypes
    <2>3. QueueTypes'
      BY <1>1, <2>1, <2>2 DEF QueueTypes, history
    <2> QED  BY <2>1, <2>2, <2>3 DEF QueueInv, history
  <1>3. CASE StorageReturns
    <2>1. /\ available' = TRUE /\ UNCHANGED <<storage, limit, disk, faults, saved, history>>
      BY <1>3 DEF StorageReturns, queue
    <2>2. QueueTypes'
      BY <1>1, <2>1 DEF QueueTypes, history
    <2> QED  BY <2>1, <2>2 DEF QueueInv, history
  <1>4. CASE StorageLost
    <2>1. /\ disk' = NoEnvelope /\ saved' = FALSE /\ faults' = faults + 1
          /\ UNCHANGED <<storage, limit, available, history>>
      BY <1>4 DEF StorageLost
    <2>2. disk'.entries = Empty /\ disk'.limit = DefaultLimit
          /\ disk' = Envelope(Empty, DefaultLimit)
      BY <2>1 DEF NoEnvelope, Envelope
    <2>3. faults' # 0 /\ faults' \in Nat /\ DefaultLimit \in Nat
      BY <1>1, <2>1, QueueAssumption DEF QueueTypes
    <2>4. Table(disk'.entries, enqueued')
      BY <2>2, EmptyTable
    <2>5. QueueTypes'
      BY <1>1, <2>1, <2>2, <2>3 DEF QueueTypes, history
    <2> QED  BY <2>1, <2>3, <2>4, <2>5 DEF QueueInv, history
  <1>5. CASE Tick \/ UNCHANGED vars
    BY <1>5, StorageKept DEF Tick, vars, queue, environment, history
  <1> QED  BY <1>2, <1>3, <1>4, <1>5

LEMMA QueueNext ==
    ASSUME QueueInv, [Next]_vars
    PROVE  QueueInv'
  BY EnqueueKeeps, DequeueKeeps, CompleteKeeps, FailKeeps, RequeueKeeps, ConfigKeeps,
     HydrateKeeps, EnvironmentKeeps DEF Next, Report

LEMMA QueueInit ==
    ASSUME Init
    PROVE  QueueInv
  <1>1. /\ storage = Empty /\ limit = DefaultLimit /\ disk = NoEnvelope
        /\ available = TRUE /\ faults = 0 /\ saved = TRUE
        /\ enqueued = 0 /\ reloads = 0 /\ runs = [id \in Ids |-> 0] /\ requeues = 0
    BY DEF Init
  <1>2. disk.entries = Empty /\ disk.limit = DefaultLimit
        /\ disk = Envelope(Empty, DefaultLimit)
    BY <1>1 DEF NoEnvelope, Envelope
  <1>3. QueueTypes
    BY <1>1, <1>2, QueueAssumption DEF QueueTypes
  <1>4. Table(storage, enqueued) /\ Table(disk.entries, enqueued)
    BY <1>1, <1>2, EmptyTable
  <1>5. \A id \in Ids : /\ Within(storage[id], runs[id], requeues, reloads)
                        /\ Within(disk.entries[id], runs[id], requeues, reloads)
    BY <1>1, <1>2, EmptyTable DEF Within
  <1>6. \A id \in Ids : Agrees(disk.entries[id], storage[id])
    BY <1>1, <1>2, AgreesItself
  <1> QED  BY <1>1, <1>2, <1>3, <1>4, <1>5, <1>6 DEF QueueInv

(* Every entry stays within its account and the disk holds what the last   *)
(* successful change saved (persist and hydrate, sorobanRetryQueue.ts).    *)
THEOREM QueueInvariant == Spec => []QueueInv
  BY QueueInit, QueueNext, PTL DEF Spec

(* An entry runs at most as often as its limit allows for each time it was *)
(* enqueued or brought back, plus once per reload, while localStorage      *)
(* works.                                                                  *)
THEOREM RunsAreBounded == Spec => []RunsBounded
  <1>1. QueueInv => RunsBounded
    <2> SUFFICES ASSUME QueueInv, faults = 0, NEW id \in Ids, storage[id].status # "none"
                 PROVE  runs[id] <= AtLeastOne(storage[id].maxAttempts) * (1 + requeues) + reloads
      BY DEF RunsBounded
    <2>1. /\ EntryFits(storage[id]) /\ runs[id] \in Nat /\ requeues \in Nat /\ reloads \in Nat
          /\ Within(storage[id], runs[id], requeues, reloads)
      BY StoredEntry
    <2> QED  BY <2>1, WithinBounds
  <1> QED  BY <1>1, QueueInvariant, PTL

(* A reload changes nothing but what was in flight if the last change had  *)
(* reached localStorage.                                                   *)
THEOREM ReloadsAreExact == Spec => ReloadLosesNothing
  <1>1. QueueInv /\ [Next]_vars =>
          [ hydrate /\ saved /\ available =>
              /\ limit' = limit
              /\ \A id \in Ids :
                  /\ storage'[id].attempts = storage[id].attempts
                  /\ storage'[id].maxAttempts = storage[id].maxAttempts
                  /\ storage'[id].status = IF storage[id].status = "processing"
                                           THEN "pending" ELSE storage[id].status ]_vars
    <2> SUFFICES ASSUME QueueInv, hydrate, saved, available
                 PROVE  /\ limit' = limit
                        /\ \A id \in Ids :
                            /\ storage'[id].attempts = storage[id].attempts
                            /\ storage'[id].maxAttempts = storage[id].maxAttempts
                            /\ storage'[id].status = IF storage[id].status = "processing"
                                                     THEN "pending" ELSE storage[id].status
      OBVIOUS
    <2>1. limit' = limit
      BY DEF hydrate, QueueInv
    <2>2. ASSUME NEW id \in Ids
          PROVE  /\ storage'[id].attempts = storage[id].attempts
                 /\ storage'[id].maxAttempts = storage[id].maxAttempts
                 /\ storage'[id].status = Concluded(storage[id].status)
      <3>1. storage'[id] = Recovered(disk.entries[id])
        BY DEF hydrate
      <3>2. EntryFits(disk.entries[id]) /\ Agrees(disk.entries[id], storage[id])
        BY DEF QueueInv, Table
      <3> QED  BY <3>1, <3>2, RecoveredFits DEF Agrees
    <2> QED  BY <2>1, <2>2 DEF Concluded
  <1> QED  BY <1>1, QueueInvariant, PTL DEF Spec, ReloadLosesNothing

-----------------------------------------------------------------------------
(***************************************************************************)
(* Account fetches.  The coordinator's operators work on a record of its   *)
(* state, and Good is shown to survive each of them, then each action made *)
(* of them.                                                                *)
(***************************************************************************)

IsList(f) == \E n \in Nat : DOMAIN f = 1 .. n /\ f = [i \in 1 .. n |-> f[i]]

CallFits(call) ==
    call \in [ account : Accounts, key : {call.key}, set : {call.set}, epoch : {call.epoch},
               pc : {call.pc}, attempt : {call.attempt}, aborted : {call.aborted} ]

HookFits(h) ==
    h \in [account : Accounts \cup {None}, data : {h.data}, from : {h.from}, loading : {h.loading}]

StateFits(s) ==
    s \in [ active : Accounts \cup {None}, epoch : {s.epoch}, sets : {s.sets},
            setOf : {s.setOf}, dedup : {s.dedup}, calls : {s.calls},
            waiting : {s.waiting}, hook : {s.hook} ]

(* Whoever awaits a call awaits it for the account it was made for.        *)
WaiterFits(w, calling) ==
    /\ w \in [account : Accounts, latest : BOOLEAN, call : DOMAIN calling]
    /\ w.account = calling[w.call].account

Shows(h, calling, on, stay) ==
    h.data # None =>
        /\ h.data = h.account /\ h.from \in DOMAIN calling
        /\ calling[h.from].account = h.account
        /\ on = h.account => calling[h.from].epoch = stay

Good(s) ==
    /\ StateFits(s) /\ HookFits(s.hook)
    /\ IsList(s.calls) /\ \A c \in DOMAIN s.calls : CallFits(s.calls[c])
    /\ \A k \in Composite : s.dedup[k] \in {0} \cup DOMAIN s.calls
    /\ \A w \in s.waiting : WaiterFits(w, s.calls)
    /\ Shows(s.hook, s.calls, s.active, s.epoch)

(* The calls of one list are those of another, later on.                   *)
Same(list, other) ==
    /\ IsList(other) /\ DOMAIN other = DOMAIN list
    /\ \A c \in DOMAIN list : /\ CallFits(other[c]) /\ other[c].account = list[c].account
                              /\ other[c].epoch = list[c].epoch

-----------------------------------------------------------------------------
LEMMA ListAppend ==
    ASSUME NEW f, IsList(f), NEW e
    PROVE  /\ Len(f) \in Nat /\ DOMAIN f = 1 .. Len(f)
           /\ IsList(Append(f, e)) /\ DOMAIN Append(f, e) = 1 .. Len(f) + 1
           /\ \A i \in 1 .. Len(f) : Append(f, e)[i] = f[i]
           /\ Append(f, e)[Len(f) + 1] = e
  <1>1. PICK n \in Nat : DOMAIN f = 1 .. n /\ f = [i \in 1 .. n |-> f[i]]
    BY DEF IsList
  <1> DEFINE S == {f[i] : i \in 1 .. n} \cup {e}
  <1>2. f \in Seq(S) /\ e \in S
    <2>1. \A i \in 1 .. n : f[i] \in S
      OBVIOUS
    <2> HIDE DEF S
    <2>2. f \in [1 .. n -> S]
      BY <1>1, <2>1
    <2> QED  BY <2>2 DEF S
  <1> HIDE DEF S
  <1>3. /\ Append(f, e) \in Seq(S) /\ Len(Append(f, e)) = Len(f) + 1
        /\ \A i \in 1 .. Len(f) : Append(f, e)[i] = f[i]
        /\ Append(f, e)[Len(f) + 1] = e
    BY <1>2, AppendProperties
  <1>4. Len(f) \in Nat /\ DOMAIN f = 1 .. Len(f)
    BY <1>2
  <1> DEFINE g == Append(f, e)
  <1>5. Len(g) \in Nat /\ DOMAIN g = 1 .. Len(g) /\ g = [i \in 1 .. Len(g) |-> g[i]]
    <2>1. g \in Seq(S)
      BY <1>3
    <2> HIDE DEF g
    <2>2. Len(g) \in Nat /\ g \in [1 .. Len(g) -> S]
      BY <2>1
    <2> QED  BY <2>2
  <1> HIDE DEF g
  <1>6. IsList(g) /\ DOMAIN g = 1 .. Len(g)
    BY <1>5 DEF IsList
  <1> QED  BY <1>3, <1>4, <1>6 DEF g

LEMMA CallChanges ==
    ASSUME NEW call, CallFits(call)
    PROVE  /\ CallFits([call EXCEPT !.aborted = TRUE])
           /\ [call EXCEPT !.aborted = TRUE].account = call.account
           /\ [call EXCEPT !.aborted = TRUE].epoch = call.epoch
           /\ CallFits(Over(call)) /\ Over(call).account = call.account
           /\ Over(call).epoch = call.epoch
  BY DEF CallFits, Over

LEMMA WaiterKept ==
    ASSUME NEW list, NEW other, Same(list, other), NEW w, WaiterFits(w, list)
    PROVE  WaiterFits(w, other)
  BY DEF Same, WaiterFits

LEMMA ShownKept ==
    ASSUME NEW list, NEW other, Same(list, other), NEW h, NEW on, NEW stay,
           Shows(h, list, on, stay)
    PROVE  Shows(h, other, on, stay)
  BY DEF Same, Shows

(* Calls that go on, fewer waiters and fewer shared calls disturb nothing. *)
LEMMA GoodAfter ==
    ASSUME NEW s, Good(s), NEW t, StateFits(t),
           t.hook = s.hook, t.active = s.active, t.epoch = s.epoch,
           Same(s.calls, t.calls),
           \A k \in Composite : t.dedup[k] \in {0, s.dedup[k]},
           t.waiting \subseteq s.waiting
    PROVE  Good(t)
  <1>1. \A w \in t.waiting : WaiterFits(w, t.calls)
    BY WaiterKept DEF Good
  <1>2. Shows(t.hook, t.calls, t.active, t.epoch)
    BY ShownKept DEF Good
  <1> QED  BY <1>1, <1>2 DEF Good, Same

-----------------------------------------------------------------------------
(* The operators on the coordinator's state, one by one.                   *)
LEMMA MarkGood ==
    ASSUME NEW s, Good(s), NEW ids
    PROVE  Good(Mark(s, ids))
  <1> DEFINE t == Mark(s, ids)
             calling == [c \in DOMAIN s.calls |->
                           IF c \in ids THEN [s.calls[c] EXCEPT !.aborted = TRUE]
                           ELSE s.calls[c]]
  <1>1. StateFits(s) /\ IsList(s.calls) /\ \A c \in DOMAIN s.calls : CallFits(s.calls[c])
    BY DEF Good
  <1>2. Same(s.calls, calling)
    BY <1>1, CallChanges DEF Same, IsList
  <1>3. t = [s EXCEPT !.calls = calling]
    BY DEF Mark
  <1> HIDE DEF t, calling
  <1>4. /\ StateFits(t) /\ t.calls = calling /\ t.hook = s.hook /\ t.active = s.active
        /\ t.epoch = s.epoch /\ t.dedup = s.dedup /\ t.waiting = s.waiting
    BY <1>1, <1>3 DEF StateFits
  <1>5. Good(t)
    BY <1>2, <1>4, GoodAfter
  <1> QED  BY <1>5 DEF t

LEMMA RejectedGood ==
    ASSUME NEW s, Good(s), NEW ids
    PROVE  Good(Rejected(s, ids))
  <1> DEFINE over == Cleaned(s, ids)
             t == Rejected(s, ids)
             shared == [k \in Composite |->
                          IF \E c \in ids : <<s.calls[c].account, s.calls[c].key>> = k
                          THEN 0 ELSE s.dedup[k]]
             calling == [c \in DOMAIN s.calls |->
                           IF c \in ids THEN Over(s.calls[c]) ELSE s.calls[c]]
             left == {w \in s.waiting : w.call \notin ids}
  <1>1. StateFits(s) /\ IsList(s.calls) /\ \A c \in DOMAIN s.calls : CallFits(s.calls[c])
    BY DEF Good
  <1>2. Same(s.calls, calling)
    BY <1>1, CallChanges DEF Same, IsList
  <1>3. PICK tables, accounts : over = [s EXCEPT !.sets = tables, !.setOf = accounts,
                                                 !.dedup = shared]
    BY DEF Cleaned
  <1>4. t = [over EXCEPT !.calls = [c \in DOMAIN @ |-> IF c \in ids THEN Over(@[c]) ELSE @[c]],
                         !.waiting = {w \in @ : w.call \notin ids}]
    BY DEF Rejected
  <1> HIDE DEF over, t
  <1>5. /\ over.hook = s.hook /\ over.active = s.active /\ over.epoch = s.epoch
        /\ over.dedup = shared /\ over.waiting = s.waiting /\ over.calls = s.calls
        /\ StateFits(over)
    BY <1>1, <1>3 DEF StateFits
  <1>6. t = [over EXCEPT !.calls = calling, !.waiting = left]
    BY <1>4, <1>5
  <1> HIDE DEF calling, left
  <1>7. /\ StateFits(t) /\ t.calls = calling /\ t.hook = s.hook /\ t.active = s.active
        /\ t.epoch = s.epoch /\ t.dedup = shared /\ t.waiting = left
    BY <1>5, <1>6 DEF StateFits
  <1>8. \A k \in Composite : t.dedup[k] \in {0, s.dedup[k]}
    BY <1>7
  <1>9. Good(t)
    BY <1>2, <1>7, <1>8, GoodAfter DEF left
  <1> QED  BY <1>9 DEF t

(* A switch to an account that is not the hook's.                          *)
LEMMA SwitchedGood ==
    ASSUME NEW s, Good(s), NEW a \in Accounts \cup {None}, a # s.hook.account \/ a = None
    PROVE  Good(Switched(s, a)) /\ Switched(s, a).active = a
           /\ Switched(s, a).hook = s.hook
  <1>1. CASE s.active = a
    BY <1>1 DEF Switched
  <1>2. CASE s.active # a
    <2>1. PICK ids, accounts :
            Switched(s, a) = [Mark(s, ids) EXCEPT !.active = a, !.epoch = @ + 1,
                                !.setOf = accounts, !.dedup = [k \in Composite |-> 0]]
      <3> DEFINE inSet == IF s.active = None \/ s.setOf[s.active] = 0 THEN {}
                          ELSE s.sets[s.setOf[s.active]]
                 keyed == {s.dedup[k] : k \in Composite} \ {0}
                 ids == inSet \cup keyed
      <3>1. Switched(s, a) = [Mark(s, ids) EXCEPT
                 !.active = a, !.epoch = @ + 1,
                 !.setOf = [b \in Accounts |-> IF b = s.active THEN 0 ELSE @[b]],
                 !.dedup = [k \in Composite |-> 0]]
        BY <1>2 DEF Switched
      <3> HIDE DEF ids
      <3> QED  BY <3>1
    <2> DEFINE m == Mark(s, ids)
               t == Switched(s, a)
    <2>2. Good(m)
      BY MarkGood
    <2>3. m.hook = s.hook
      BY DEF Mark, Good, StateFits
    <2>4. t = [m EXCEPT !.active = a, !.epoch = @ + 1, !.setOf = accounts,
                        !.dedup = [k \in Composite |-> 0]]
      BY <2>1
    <2> HIDE DEF m, t
    <2>5. /\ StateFits(t) /\ t.hook = m.hook /\ t.active = a /\ t.calls = m.calls
          /\ t.waiting = m.waiting /\ t.dedup = [k \in Composite |-> 0]
      BY <2>2, <2>4 DEF Good, StateFits
    <2>6. Shows(t.hook, t.calls, t.active, t.epoch)
      <3>1. Shows(m.hook, m.calls, m.active, m.epoch)
        BY <2>2 DEF Good
      <3>2. CASE m.hook.data = None
        BY <2>5, <3>2 DEF Shows
      <3>3. CASE m.hook.data # None
        <4>1. a # m.hook.account
          BY <2>3, <3>1, <3>3 DEF Shows
        <4> QED  BY <2>5, <3>1, <4>1 DEF Shows
      <3> QED  BY <3>2, <3>3
    <2>7. Good(t)
      BY <2>2, <2>5, <2>6 DEF Good
    <2> QED  BY <2>3, <2>5, <2>7 DEF t
  <1> QED  BY <1>1, <1>2

LEMMA OutdatedGood ==
    ASSUME NEW s, Good(s)
    PROVE  /\ Good(Outdated(s)) /\ Outdated(s).hook = s.hook
           /\ Outdated(s).active = s.active
  <1> DEFINE old == {[w EXCEPT !.latest = FALSE] : w \in s.waiting}
             t == Outdated(s)
  <1>1. t = [s EXCEPT !.waiting = old]
    BY DEF Outdated
  <1>2. \A w \in old : WaiterFits(w, s.calls)
    <2> SUFFICES ASSUME NEW w \in s.waiting
                 PROVE  WaiterFits([w EXCEPT !.latest = FALSE], s.calls)
      OBVIOUS
    <2>1. WaiterFits(w, s.calls)
      BY DEF Good
    <2> QED  BY <2>1 DEF WaiterFits
  <1> HIDE DEF old, t
  <1>3. /\ StateFits(t) /\ t.waiting = old /\ t.hook = s.hook /\ t.active = s.active
        /\ t.epoch = s.epoch /\ t.dedup = s.dedup /\ t.calls = s.calls
    BY <1>1 DEF Good, StateFits
  <1>4. Good(t)
    BY <1>2, <1>3 DEF Good
  <1> QED  BY <1>3, <1>4 DEF t

(* The hook shows nothing yet of the account it is shown on.                 *)
LEMMA ShownGood ==
    ASSUME NEW s, Good(s), NEW a \in Accounts \cup {None}
    PROVE  /\ Good(Shown(s, a)) /\ Shown(s, a).active = s.active
           /\ Shown(s, a).hook.account = a
  <1> DEFINE h == [s.hook EXCEPT !.account = a, !.data = None, !.from = 0]
             t == Shown(s, a)
  <1>1. HookFits(h) /\ h.data = None /\ h.account = a
    BY DEF Good, HookFits
  <1>2. t = [s EXCEPT !.hook = h]
    BY DEF Shown, Good, StateFits
  <1> HIDE DEF h, t
  <1>3. /\ StateFits(t) /\ t.waiting = s.waiting /\ t.hook = h /\ t.active = s.active
        /\ t.epoch = s.epoch /\ t.dedup = s.dedup /\ t.calls = s.calls
    BY <1>2 DEF Good, StateFits
  <1>4. Good(t)
    BY <1>1, <1>3 DEF Good, Shows
  <1> QED  BY <1>1, <1>3, <1>4 DEF t

LEMMA LoadingGood ==
    ASSUME NEW s, Good(s), NEW b
    PROVE  /\ Good([s EXCEPT !.hook.loading = b])
           /\ [s EXCEPT !.hook.loading = b].active = s.active
           /\ [s EXCEPT !.hook.loading = b].hook.account = s.hook.account
  <1> DEFINE h == [s.hook EXCEPT !.loading = b]
             t == [s EXCEPT !.hook.loading = b]
  <1>1. /\ HookFits(h) /\ h.data = s.hook.data /\ h.account = s.hook.account
        /\ h.from = s.hook.from
    BY DEF Good, HookFits
  <1>2. t = [s EXCEPT !.hook = h]
    BY DEF Good, StateFits
  <1> HIDE DEF h, t
  <1>3. /\ StateFits(t) /\ t.waiting = s.waiting /\ t.hook = h /\ t.active = s.active
        /\ t.epoch = s.epoch /\ t.dedup = s.dedup /\ t.calls = s.calls
    BY <1>2 DEF Good, StateFits
  <1>4. Shows(h, s.calls, s.active, s.epoch)
    BY <1>1 DEF Good, Shows
  <1>5. Good(t)
    BY <1>1, <1>3, <1>4 DEF Good
  <1> QED  BY <1>1, <1>3, <1>5 DEF t

LEMMA StopsLoading ==
    ASSUME NEW s, Good(s)
    PROVE  Good([s EXCEPT !.hook.loading = FALSE])
  <1> DEFINE after(b) == [s EXCEPT !.hook.loading = b]
  <1>1. \A b : Good(after(b))
    BY LoadingGood
  <1> HIDE DEF after
  <1>2. Good(after(FALSE))
    BY <1>1
  <1> QED  BY <1>2 DEF after

LEMMA StartedGood ==
    ASSUME NEW s, Good(s), NEW a \in Accounts, NEW key
    PROVE  /\ Good(Started(s, a, key)) /\ Started(s, a, key).hook = s.hook
           /\ Started(s, a, key).active = s.active
           /\ Len(s.calls) + 1 \in DOMAIN Started(s, a, key).calls
           /\ Started(s, a, key).calls[Len(s.calls) + 1].account = a
           /\ Started(s, a, key).waiting = s.waiting
  <1> DEFINE c == Len(s.calls) + 1
             set == IF s.setOf[a] = 0 THEN Len(s.sets) + 1 ELSE s.setOf[a]
             new == [ account |-> a, key |-> key, set |-> set, epoch |-> s.epoch,
                      pc |-> "fetching", attempt |-> 0, aborted |-> FALSE ]
             calling == Append(s.calls, new)
             shared == [k \in Composite |-> IF k = <<a, key>> THEN c ELSE s.dedup[k]]
             t == Started(s, a, key)
  <1>1. CallFits(new) /\ new.account = a
    BY DEF CallFits
  <1>2. PICK tables, accounts :
          t = [s EXCEPT !.calls = calling, !.sets = tables, !.setOf = accounts,
                        !.dedup = shared]
    <2>1. t = [s EXCEPT !.calls = Append(@, new),
                  !.sets = IF set > Len(@) THEN Append(@, {c}) ELSE [@ EXCEPT ![set] = @ \cup {c}],
                  !.setOf[a] = set,
                  !.dedup = [k \in Composite |-> IF k = <<a, key>> THEN c ELSE @[k]]]
      BY DEF Started
    <2> HIDE DEF new, set, t
    <2> QED  BY <2>1 DEF Good, StateFits
  <1>3. IsList(s.calls) /\ \A i \in DOMAIN s.calls : CallFits(s.calls[i])
    BY DEF Good
  <1> HIDE DEF set, new, t
  <1>4. /\ Len(s.calls) \in Nat /\ DOMAIN s.calls = 1 .. Len(s.calls)
        /\ IsList(calling) /\ DOMAIN calling = 1 .. c
        /\ \A i \in 1 .. Len(s.calls) : calling[i] = s.calls[i]
        /\ calling[c] = new
    BY <1>3, ListAppend
  <1>5. c \in DOMAIN calling /\ DOMAIN s.calls \subseteq DOMAIN calling
    BY <1>4
  <1>6. \A i \in DOMAIN calling : CallFits(calling[i])
    <2> SUFFICES ASSUME NEW i \in DOMAIN calling PROVE CallFits(calling[i])
      OBVIOUS
    <2>1. i = c \/ i \in 1 .. Len(s.calls)
      BY <1>4
    <2> QED  BY <1>1, <1>3, <1>4, <2>1
  <1> HIDE DEF c, calling
  <1>7. /\ StateFits(t) /\ t.waiting = s.waiting /\ t.hook = s.hook /\ t.active = s.active
        /\ t.epoch = s.epoch /\ t.calls = calling /\ t.dedup = shared
    BY <1>2 DEF Good, StateFits
  <1>8. \A k \in Composite : t.dedup[k] \in {0} \cup DOMAIN calling
    BY <1>5, <1>7 DEF Good
  <1>9. \A w \in t.waiting : WaiterFits(w, calling)
    BY <1>4, <1>5, <1>7 DEF Good, WaiterFits
  <1>10. Shows(t.hook, calling, t.active, t.epoch)
    BY <1>4, <1>5, <1>7 DEF Good, Shows
  <1>11. Good(t)
    BY <1>4, <1>6, <1>7, <1>8, <1>9, <1>10 DEF Good
  <1> QED  BY <1>1, <1>4, <1>5, <1>7, <1>11 DEF t, c

(* The call that execute returns was made for the account asked for.       *)
LEMMA ExecutedGood ==
    ASSUME NEW s, Good(s), NEW a \in Accounts, NEW key, key \in Keys \cup {None}
    PROVE  /\ Good(Executed(s, a, key)) /\ Executed(s, a, key).hook = s.hook
           /\ Executed(s, a, key).active = s.active
           /\ Executed(s, a, key).waiting = s.waiting
           /\ CallOf(s, a, key) \in DOMAIN Executed(s, a, key).calls
           /\ Executed(s, a, key).calls[CallOf(s, a, key)].account = a
  <1>1. CASE MayShare(s, a, key)
    <2>1. /\ key # None /\ s.dedup[<<a, key>>] # 0
          /\ s.calls[s.dedup[<<a, key>>]].account = a
      BY <1>1 DEF MayShare
    <2>2. <<a, key>> \in Composite
      BY <2>1 DEF Composite
    <2>3. s.dedup[<<a, key>>] \in DOMAIN s.calls
      BY <2>1, <2>2 DEF Good
    <2> QED  BY <1>1, <2>1, <2>3 DEF Executed, CallOf
  <1>2. CASE ~MayShare(s, a, key)
    BY <1>2, StartedGood DEF Executed, CallOf
  <1> QED  BY <1>1, <1>2

LEMMA BecomesGood ==
    ASSUME NEW s, Good(s), Becomes(s)
    PROVE  Good(State)'
  <1>1. State' = s
    BY DEF State, Becomes, Good, StateFits
  <1> QED  BY <1>1

LEMMA FetchedGood ==
    ASSUME NEW s, Good(s), NEW a \in Accounts
    PROVE  Good(Fetched(s, a))
  <1> DEFINE begun == [Outdated(s) EXCEPT !.hook.loading = TRUE]
  <1>1. Good(begun)
    BY OutdatedGood, LoadingGood
  <1>2. Fetched(s, a) = IF a # s.active THEN begun
          ELSE [Executed(begun, a, HookKey) EXCEPT
                 !.waiting = @ \cup {[ account |-> a, latest |-> TRUE,
                                       call |-> CallOf(s, a, HookKey) ]}]
    BY DEF Fetched
  <1>3. CallOf(s, a, HookKey) = CallOf(begun, a, HookKey)
    <2>1. /\ begun.dedup = s.dedup /\ begun.calls = s.calls /\ begun.epoch = s.epoch
      BY DEF Outdated, Good, StateFits
    <2> HIDE DEF begun
    <2> QED  BY <2>1 DEF CallOf, MayShare
  <1> HIDE DEF begun
  <1> DEFINE x == Executed(begun, a, HookKey)
             w == [ account |-> a, latest |-> TRUE, call |-> CallOf(begun, a, HookKey) ]
             t == [x EXCEPT !.waiting = @ \cup {w}]
  <1>4. /\ Good(x) /\ CallOf(begun, a, HookKey) \in DOMAIN x.calls
        /\ x.calls[CallOf(begun, a, HookKey)].account = a
    BY <1>1, ExecutedGood, FetchAssumption
  <1> HIDE DEF x
  <1>5. WaiterFits(w, x.calls)
    BY <1>4 DEF WaiterFits
  <1> HIDE DEF w
  <1>6. /\ StateFits(t) /\ t.waiting = x.waiting \cup {w} /\ t.hook = x.hook
        /\ t.active = x.active /\ t.epoch = x.epoch /\ t.dedup = x.dedup /\ t.calls = x.calls
    BY <1>4 DEF Good, StateFits
  <1> HIDE DEF t
  <1>7. Good(t)
    BY <1>4, <1>5, <1>6 DEF Good
  <1>8. Fetched(s, a) = IF a # s.active THEN begun ELSE t
    BY <1>2, <1>3 DEF t, x, w
  <1> QED  BY <1>1, <1>7, <1>8

(* The answer of the latest request, with the account still the same one   *)
(* and the stay the same.                                                  *)
LEMMA ContinuedGood ==
    ASSUME NEW s, Good(s), NEW c \in DOMAIN s.calls, NEW outcome,
           outcome = "ok" => s.active = s.calls[c].account /\ s.epoch = s.calls[c].epoch
    PROVE  Good(Continued(s, c, outcome))
  <1>1. CASE outcome = "switched" \/ ~\E w \in s.waiting : w.call = c /\ IsLatest(s, w)
    BY <1>1 DEF Continued
  <1>2. CASE outcome # "switched" /\ (\E w \in s.waiting : w.call = c /\ IsLatest(s, w))
    <2>1. PICK w \in s.waiting : w.call = c /\ IsLatest(s, w)
      BY <1>2
    <2>2. s.calls[c].account = s.hook.account
      BY <2>1 DEF Good, WaiterFits, IsLatest
    <2>3. CASE outcome # "ok"
      <3>1. Continued(s, c, outcome) = [s EXCEPT !.hook.loading = FALSE]
        BY <1>2, <2>3 DEF Continued
      <3> QED  BY <3>1, StopsLoading
    <2>4. CASE outcome = "ok"
      <3> DEFINE h == [s.hook EXCEPT !.data = s.calls[c].account, !.from = c, !.loading = FALSE]
                 t == Continued(s, c, outcome)
      <3>1. t = [s EXCEPT !.hook.data = s.calls[c].account, !.hook.from = c,
                          !.hook.loading = FALSE]
        BY <1>2, <2>4 DEF Continued
      <3>2. t = [s EXCEPT !.hook = h]
        BY <3>1 DEF Good, StateFits
      <3>3. /\ HookFits(h) /\ h.data = s.calls[c].account /\ h.account = s.hook.account
            /\ h.from = c
        BY DEF Good, HookFits
      <3> HIDE DEF h, t
      <3>4. /\ StateFits(t) /\ t.waiting = s.waiting /\ t.hook = h /\ t.active = s.active
            /\ t.epoch = s.epoch /\ t.dedup = s.dedup /\ t.calls = s.calls
        BY <3>2 DEF Good, StateFits
      <3>5. Shows(h, s.calls, s.active, s.epoch)
        BY <2>2, <2>4, <3>3 DEF Shows
      <3>6. Good(t)
        BY <3>3, <3>4, <3>5 DEF Good
      <3> QED  BY <3>6 DEF t
    <2> QED  BY <2>3, <2>4
  <1> QED  BY <1>1, <1>2

LEMMA SettledGood ==
    ASSUME NEW s, Good(s), NEW c \in DOMAIN s.calls, NEW outcome,
           outcome = "ok" => s.active = s.calls[c].account /\ s.epoch = s.calls[c].epoch
    PROVE  Good(Settled(s, c, outcome))
  BY ContinuedGood, RejectedGood DEF Settled

-----------------------------------------------------------------------------
(* Every action leaves a good state.                                       *)
LEMMA ReturnsGood ==
    ASSUME NEW before, NEW after, Good(after), Returns(before, after)
    PROVE  Good(State)'
  <1> DEFINE x == Rejected(after, Struck(before, after))
  <1>1. Good(x)
    BY RejectedGood
  <1>2. Becomes(x)
    BY DEF Returns
  <1> HIDE DEF x
  <1> QED  BY <1>1, <1>2, BecomesGood

LEMMA AccountChangesGood ==
    ASSUME Good(State), NEW a \in Accounts \cup {None}, AccountChanges(a)
    PROVE  Good(State)'
  <1> DEFINE s == Switched(Outdated(State), a)
             shown == Shown(s, a)
  <1>1. a # hook.account /\ State.hook = hook
    BY DEF AccountChanges, State
  <1>2. Good(Outdated(State)) /\ Outdated(State).hook = State.hook
    BY OutdatedGood
  <1>3. Good(s)
    BY <1>1, <1>2, SwitchedGood
  <1> HIDE DEF s
  <1>4. Good(shown)
    BY <1>3, ShownGood
  <1>5. Returns(State, IF a = None THEN [shown EXCEPT !.hook.loading = FALSE] ELSE Fetched(shown, a))
    BY DEF AccountChanges, s
  <1> HIDE DEF shown
  <1>6. CASE a = None
    BY <1>4, <1>5, <1>6, StopsLoading, ReturnsGood
  <1>7. CASE a # None
    BY <1>4, <1>5, <1>7, FetchedGood, ReturnsGood
  <1> QED  BY <1>6, <1>7

LEMMA HookAbortGood ==
    ASSUME Good(State), HookAbort
    PROVE  Good(State)'
  <1> DEFINE s == Switched(State, None)
  <1>1. Good(s)
    BY SwitchedGood
  <1>2. Returns(State, [s EXCEPT !.hook.loading = FALSE])
    BY DEF HookAbort
  <1> HIDE DEF s
  <1> QED  BY <1>1, <1>2, StopsLoading, ReturnsGood

LEMMA AbortAllGood ==
    ASSUME Good(State), AbortAll
    PROVE  Good(State)'
  <1>1. PICK ids : Returns(State, [Mark(State, ids) EXCEPT
                                     !.setOf = [a \in Accounts |-> 0],
                                     !.dedup = [k \in Composite |-> 0]])
    BY DEF AbortAll
  <1> DEFINE m == Mark(State, ids)
             t == [m EXCEPT !.setOf = [a \in Accounts |-> 0],
                            !.dedup = [k \in Composite |-> 0]]
  <1>2. Good(m)
    BY MarkGood
  <1>3. Returns(State, t)
    BY <1>1
  <1> HIDE DEF m
  <1>4. /\ StateFits(t) /\ t.calls = m.calls /\ t.hook = m.hook /\ t.active = m.active
        /\ t.epoch = m.epoch /\ t.dedup = [k \in Composite |-> 0] /\ t.waiting = m.waiting
    BY <1>2 DEF Good, StateFits
  <1> HIDE DEF t
  <1>5. Good(t)
    BY <1>2, <1>4 DEF Good
  <1> QED  BY <1>3, <1>5, ReturnsGood

LEMMA RefetchGood ==
    ASSUME Good(State), Refetch
    PROVE  Good(State)'
  <1>1. hook.account \in Accounts
    BY DEF Refetch, Good, HookFits, State
  <1>2. Good(Fetched(State, hook.account))
    BY <1>1, FetchedGood
  <1> QED  BY <1>2, ReturnsGood DEF Refetch

LEMMA OtherExecutesGood ==
    ASSUME Good(State), NEW key \in Keys, OtherExecutes(key)
    PROVE  Good(State)'
  <1>1. active \in Accounts
    BY DEF OtherExecutes, Good, StateFits, State
  <1>2. Good(Executed(State, active, key))
    BY <1>1, ExecutedGood
  <1> QED  BY <1>2, BecomesGood DEF OtherExecutes

LEMMA TimeoutGood ==
    ASSUME Good(State), NEW c \in CallIds, Timeout(c)
    PROVE  Good(State)'
  <1>1. Good(Mark(State, {c}))
    BY MarkGood
  <1> QED  BY <1>1, ReturnsGood DEF Timeout

LEMMA SettlesGood ==
    ASSUME Good(State), NEW c \in CallIds, NEW outcome,
           outcome = "ok" => SameGeneration(c), Becomes(Settled(State, c, outcome))
    PROVE  Good(State)'
  <1>1. State.active = active /\ State.epoch = epoch /\ State.calls = calls
    BY DEF State
  <1>2. c \in DOMAIN State.calls
    BY <1>1 DEF CallIds
  <1>3. outcome = "ok" => State.active = State.calls[c].account /\ State.epoch = State.calls[c].epoch
    BY <1>1 DEF SameGeneration
  <1> DEFINE x == Settled(State, c, outcome)
  <1>4. Good(x) /\ Becomes(x)
    BY <1>2, <1>3, SettledGood
  <1> HIDE DEF x
  <1> QED  BY <1>4, BecomesGood

(* A call that sleeps or fetches again is the call it was.                 *)
LEMMA GoesOnGood ==
    ASSUME Good(State), NEW c \in CallIds, NEW call,
           CallFits(call), call.account = calls[c].account, call.epoch = calls[c].epoch,
           Becomes([State EXCEPT !.calls[c] = call])
    PROVE  Good(State)'
  <1> DEFINE calling == [calls EXCEPT ![c] = call]
             t == [State EXCEPT !.calls[c] = call]
  <1>1. IsList(calls) /\ \A d \in DOMAIN calls : CallFits(calls[d])
    BY DEF Good, State
  <1>2. Same(calls, calling)
    BY <1>1 DEF Same, IsList, CallIds
  <1>3. t = [State EXCEPT !.calls = calling]
    BY DEF State
  <1>4. Becomes(t)
    OBVIOUS
  <1>5. State.calls = calls
    BY DEF State
  <1> HIDE DEF t, calling
  <1>6. /\ StateFits(t) /\ t.calls = calling /\ t.hook = State.hook /\ t.active = State.active
        /\ t.epoch = State.epoch /\ t.dedup = State.dedup /\ t.waiting = State.waiting
    BY <1>3 DEF Good, StateFits
  <1>7. Good(t)
    BY <1>2, <1>5, <1>6, GoodAfter
  <1> QED  BY <1>4, <1>7, BecomesGood

LEMMA AnswersGood ==
    ASSUME Good(State), NEW c \in CallIds, Answers(c)
    PROVE  Good(State)'
  <1> DEFINE outcome == IF SameGeneration(c) /\ ~calls[c].aborted THEN "ok" ELSE "switched"
  <1>1. outcome = "ok" => SameGeneration(c)
    OBVIOUS
  <1>2. Becomes(Settled(State, c, outcome))
    BY DEF Answers
  <1> HIDE DEF outcome
  <1> QED  BY <1>1, <1>2, SettlesGood

LEMMA FailsGood ==
    ASSUME Good(State), NEW c \in CallIds, Fails(c)
    PROVE  Good(State)'
  <1>1. ASSUME NEW outcome, outcome # "ok", Becomes(Settled(State, c, outcome))
        PROVE  Good(State)'
    BY <1>1, SettlesGood
  <1>2. CASE Becomes([State EXCEPT !.calls[c].pc = "sleeping"])
    <2> DEFINE call == [calls[c] EXCEPT !.pc = "sleeping"]
    <2>1. CallFits(calls[c])
      BY DEF Good, State, CallIds
    <2>2. CallFits(call) /\ call.account = calls[c].account /\ call.epoch = calls[c].epoch
      BY <2>1 DEF CallFits
    <2>3. [State EXCEPT !.calls[c].pc = "sleeping"] = [State EXCEPT !.calls[c] = call]
      BY DEF State
    <2> HIDE DEF call
    <2> QED  BY <1>2, <2>2, <2>3, GoesOnGood
  <1>3. \/ Becomes(Settled(State, c, "switched")) \/ Becomes(Settled(State, c, "error"))
        \/ Becomes([State EXCEPT !.calls[c].pc = "sleeping"])
    BY DEF Fails
  <1> QED  BY <1>1, <1>2, <1>3

LEMMA WakesGood ==
    ASSUME Good(State), NEW c \in CallIds, Wakes(c)
    PROVE  Good(State)'
  <1>1. CASE Becomes(Settled(State, c, "switched"))
    BY <1>1, SettlesGood
  <1>2. CASE Becomes([State EXCEPT !.calls[c].pc = "fetching", !.calls[c].attempt = @ + 1])
    <2> DEFINE call == [calls[c] EXCEPT !.pc = "fetching", !.attempt = @ + 1]
               t == [State EXCEPT !.calls[c].pc = "fetching", !.calls[c].attempt = @ + 1]
    <2>1. CallFits(calls[c])
      BY DEF Good, State, CallIds
    <2>2. CallFits(call) /\ call.account = calls[c].account /\ call.epoch = calls[c].epoch
      BY <2>1 DEF CallFits
    <2>3. t = [State EXCEPT !.calls[c] = call]
      BY DEF State, CallIds
    <2> HIDE DEF call
    <2> QED  BY <1>2, <2>2, <2>3, GoesOnGood
  <1> QED  BY <1>1, <1>2 DEF Wakes

LEMMA InitGood ==
    ASSUME FetchInit
    PROVE  Good(State)
  <1>1. IsList(calls) /\ DOMAIN calls = {}
    BY DEF FetchInit, IsList
  <1>2. StateFits(State) /\ HookFits(State.hook) /\ State.hook.data = None
    BY DEF FetchInit, State, StateFits, HookFits
  <1>3. /\ State.calls = calls /\ State.waiting = {} /\ State.dedup = [k \in Composite |-> 0]
    BY DEF FetchInit, State
  <1> QED  BY <1>1, <1>2, <1>3 DEF Good, Shows

LEMMA NextGood ==
    ASSUME Good(State), [FetchNext]_fetchVars
    PROVE  Good(State)'
  <1>1. CASE FetchNext
    <2>1. ASSUME NEW a \in Accounts \cup {None}, AccountChanges(a) PROVE Good(State)'
      BY <2>1, AccountChangesGood
    <2>2. CASE Refetch
      BY <2>2, RefetchGood
    <2>3. CASE HookAbort
      BY <2>3, HookAbortGood
    <2>4. CASE AbortAll
      BY <2>4, AbortAllGood
    <2>5. ASSUME NEW key \in Keys, OtherExecutes(key) PROVE Good(State)'
      BY <2>5, OtherExecutesGood
    <2>6. ASSUME NEW c \in CallIds, Timeout(c) \/ Answers(c) \/ Fails(c) \/ Wakes(c)
          PROVE  Good(State)'
      BY <2>6, TimeoutGood, AnswersGood, FailsGood, WakesGood
    <2>7. CASE Done
      BY <2>7 DEF Done, fetchVars, coordinator, State
    <2> QED  BY <1>1, <2>1, <2>2, <2>3, <2>4, <2>5, <2>6, <2>7 DEF FetchNext
  <1>2. CASE UNCHANGED fetchVars
    BY <1>2 DEF fetchVars, coordinator, State
  <1> QED  BY <1>1, <1>2

(* The data of a hook is never that of another account, nor of an earlier  *)
(* stay on its own (the epoch checks of accountFetchCoordinator.ts and the *)
(* sequence check of useAccountFetch).                                     *)
THEOREM DataIsOfThisStay == FetchSpec => []DataIsCurrent
  <1>1. FetchInit => Good(State)
    BY InitGood
  <1>2. Good(State) /\ [FetchNext]_fetchVars => Good(State)'
    BY NextGood
  <1>3. Good(State) => DataIsCurrent
    BY DEF Good, Shows, State, DataIsCurrent
  <1> QED  BY <1>1, <1>2, <1>3, PTL DEF FetchSpec
=============================================================================
