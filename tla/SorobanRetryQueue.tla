------------------------- MODULE SorobanRetryQueue -------------------------
(***************************************************************************)
(* The retry queue for Soroban calls that runs in the browser              *)
(* (lib/sorobanRetryQueue.ts): a map of entries in memory, written whole   *)
(* to localStorage after every change and read back when the page loads.   *)
(*                                                                         *)
(* Every method runs to its end before another starts.  Between dequeue    *)
(* and markComplete or markFailed the caller waits for the network, and    *)
(* the page may be reloaded there.  Entries are numbered in the order in   *)
(* which they were enqueued, which is the order of the map.                *)
(*                                                                         *)
(* A definition named Mutant... is a faulty form of the one it precedes.   *)
(* The specification never uses it: it shows that a property can fail.     *)
(***************************************************************************)
EXTENDS Integers

CONSTANTS
    MaxEntries,     \* bound: entries ever enqueued
    Limits,         \* values of maxRetries that setConfig is given
    DefaultLimit,   \* maxRetries of DEFAULT_RETRY_QUEUE_CONFIG
    BaseDelay, MaxDelay,    \* of the backoff
    JitterPercent,  \* jitterFactor, in hundredths
    MaxTime,        \* bound: last instant
    MaxReloads,     \* bound: page loads
    MaxRequeues,    \* bound: dead letters brought back
    MaxFaults       \* bound: times that localStorage stops or loses its data

ASSUME QueueAssumption ==
    /\ MaxEntries \in Nat /\ MaxTime \in Nat
    /\ MaxReloads \in Nat /\ MaxRequeues \in Nat /\ MaxFaults \in Nat
    /\ DefaultLimit \in Limits /\ Limits \subseteq Nat
    /\ BaseDelay \in Nat /\ MaxDelay \in Nat
    /\ JitterPercent \in 0..100

VARIABLES
    now,
    storage,        \* _storage: the entries in memory
    limit,          \* _config.maxRetries
    disk,           \* what localStorage holds
    inFlight,       \* entries a caller has dequeued and works on
    refused,        \* history: entries whose failure was refused since the page was loaded
    available,      \* localStorage can be written
    faults,         \* times it stopped or lost its data
    saved,          \* history: localStorage has the last change, or was just read
    enqueued,       \* history: entries enqueued
    runs,           \* history: per entry, how often it was handed out
    requeues,       \* history: dead letters brought back
    reloads         \* history: page loads

vars == <<now, storage, limit, disk, inFlight, refused, available, faults,
          saved, enqueued, runs, requeues, reloads>>
queue == <<storage, limit, disk, saved>>
callers == <<inFlight, refused>>
history == <<enqueued, runs, requeues, reloads>>
environment == <<available, faults>>

Ids == 1..MaxEntries
Entry(status, attempts, maxAttempts, nextRetryAt) ==
    [ status |-> status, attempts |-> attempts,
      maxAttempts |-> maxAttempts, nextRetryAt |-> nextRetryAt ]
NoEntry == Entry("none", 0, 0, 0)
Empty == [id \in Ids |-> NoEntry]

Envelope(entries, maxRetries) == [ entries |-> entries, limit |-> maxRetries ]
NoEnvelope == Envelope(Empty, DefaultLimit)     \* hydrates like no envelope

Init ==
    /\ now = 0
    /\ storage = Empty /\ limit = DefaultLimit /\ inFlight = {} /\ refused = {}
    /\ disk = NoEnvelope /\ available = TRUE /\ faults = 0 /\ saved = TRUE
    /\ enqueued = 0 /\ reloads = 0
    /\ runs = [id \in Ids |-> 0] /\ requeues = 0

-----------------------------------------------------------------------------
(* _persist after a change; without localStorage the queue goes on in      *)
(* memory.  The mutant writes before it makes the change.                  *)
MutantPersist(entries, maxRetries) ==
    /\ storage' = entries /\ limit' = maxRetries
    /\ disk' = IF available THEN Envelope(storage, limit) ELSE disk
    /\ saved' = available
Persist(entries, maxRetries) ==
    /\ storage' = entries /\ limit' = maxRetries
    /\ disk' = IF available THEN Envelope(entries, maxRetries) ELSE disk
    /\ saved' = available

Change(id, entry) == Persist([storage EXCEPT ![id] = entry], limit)

enqueue ==
    /\ enqueued < MaxEntries
    /\ enqueued' = enqueued + 1
    /\ Change(enqueued + 1, Entry("pending", 0, limit, now))
    /\ UNCHANGED <<now, callers, environment, runs, requeues, reloads>>

(* The pending entry that has been due for longest; of equals, the first.  *)
Due == {id \in Ids : storage[id].status = "pending" /\ storage[id].nextRetryAt <= now}
Before(id, other) ==
    \/ storage[id].nextRetryAt < storage[other].nextRetryAt
    \/ storage[id].nextRetryAt = storage[other].nextRetryAt /\ id <= other

dequeue(id) ==
    /\ id \in Due
    /\ \A other \in Due : Before(id, other)
    /\ Change(id, [storage[id] EXCEPT !.status = "processing"])
    /\ inFlight' = inFlight \cup {id}
    /\ runs' = [runs EXCEPT ![id] = @ + 1]
    /\ UNCHANGED <<now, refused, environment, enqueued, requeues, reloads>>

(* The caller of dequeue is back.  If the entry was cleared meanwhile, it  *)
(* is told so and nothing changes.                                         *)
Returned(id) ==
    /\ id \in inFlight
    /\ inFlight' = inFlight \ {id}
    /\ UNCHANGED <<now, environment, history>>

markComplete(id) ==
    /\ Returned(id) /\ UNCHANGED refused
    /\ \/ storage[id].status = "processing" /\ Change(id, NoEntry)
       \/ storage[id].status # "processing" /\ UNCHANGED queue

(* computeBackoff: doubling up to the cap, with jitter of at most its      *)
(* share of that either way (below it on the upper side: random() < 1),    *)
(* rounded to the nearest.                                                 *)
Backoff(attempt) ==
    LET exponential == BaseDelay * 2 ^ attempt
        capped      == IF exponential < MaxDelay THEN exponential ELSE MaxDelay
        jitter      == JitterPercent * capped
    IN  (capped + (50 - jitter) \div 100) .. (capped + (jitter + 49) \div 100)

MutantExhausted(entry) == entry.attempts + 1 > entry.maxAttempts
Exhausted(entry) == entry.attempts + 1 >= entry.maxAttempts

(* validateMarkFailedError comes first: what is no SorobanError is refused *)
(* whatever the entry is, and an entry that is processing stays so, with   *)
(* its caller gone.                                                        *)
Errors == {"SorobanError", "other"}

Refuse(id) == refused' = refused \cup {id} /\ UNCHANGED queue

Fail(id) ==
    LET entry == storage[id]
    IN  \/ /\ Exhausted(entry)
           /\ Change(id, [entry EXCEPT !.attempts = @ + 1, !.status = "dead"])
        \/ /\ ~Exhausted(entry)
           /\ \E delay \in Backoff(entry.attempts) :
                Change(id, [entry EXCEPT !.attempts = @ + 1, !.status = "pending",
                                         !.nextRetryAt = now + delay])

markFailed(id, error) ==
    /\ Returned(id)
    /\ \/ error # "SorobanError" /\ Refuse(id)
       \/ error = "SorobanError" /\ UNCHANGED refused
          /\ \/ storage[id].status = "processing" /\ Fail(id)
             \/ storage[id].status # "processing" /\ UNCHANGED queue

Requeued(entry) == [entry EXCEPT !.status = "pending", !.attempts = 0, !.nextRetryAt = now]

requeueDeadLetter(id) ==
    /\ storage[id].status = "dead" /\ requeues < MaxRequeues
    /\ Change(id, Requeued(storage[id]))
    /\ requeues' = requeues + 1
    /\ UNCHANGED <<now, callers, environment, enqueued, runs, reloads>>

setConfig(maxRetries) ==
    /\ Persist(storage, maxRetries)
    /\ UNCHANGED <<now, callers, environment, history>>

clear ==
    /\ Persist(Empty, DefaultLimit)
    /\ UNCHANGED <<now, callers, environment, history>>

-----------------------------------------------------------------------------
(* _hydrate as the page loads: what was in flight starts again, its caller *)
(* is gone.                                                                *)
MutantRecovered(entry) == entry
Recovered(entry) ==
    IF entry.status = "processing"
    THEN [entry EXCEPT !.status = "pending", !.nextRetryAt = now]
    ELSE entry

hydrate ==
    /\ reloads < MaxReloads
    /\ reloads' = reloads + 1
    /\ storage' = IF available THEN [id \in Ids |-> Recovered(disk.entries[id])] ELSE Empty
    /\ limit' = IF available THEN disk.limit ELSE DefaultLimit
    /\ inFlight' = {} /\ refused' = {} /\ saved' = available
    /\ UNCHANGED <<now, disk, environment, enqueued, runs, requeues>>

(* localStorage stops taking writes or takes them again, or what it holds  *)
(* is removed, or unreadable and then discarded.                           *)
StorageStops ==
    /\ available /\ faults < MaxFaults
    /\ available' = FALSE /\ faults' = faults + 1
    /\ UNCHANGED <<now, queue, callers, history>>
StorageReturns ==
    /\ ~available
    /\ available' = TRUE
    /\ UNCHANGED <<now, queue, callers, faults, history>>
StorageLost ==
    /\ disk # NoEnvelope /\ faults < MaxFaults
    /\ disk' = NoEnvelope /\ saved' = FALSE /\ faults' = faults + 1
    /\ UNCHANGED <<now, storage, limit, callers, available, history>>

Tick ==
    /\ now < MaxTime
    /\ now' = now + 1
    /\ UNCHANGED <<queue, callers, environment, history>>

(* A caller reports how its call ended. *)
Report(id) == markComplete(id) \/ \E error \in Errors : markFailed(id, error)

Next ==
    \/ enqueue \/ clear \/ hydrate \/ Tick
    \/ \E id \in Ids : dequeue(id) \/ Report(id) \/ requeueDeadLetter(id)
    \/ \E maxRetries \in Limits : setConfig(maxRetries)
    \/ StorageStops \/ StorageReturns \/ StorageLost

(* A caller polls the queue, and its calls return; time passes. *)
Fairness ==
    /\ WF_vars(Tick)
    /\ WF_vars(\E id \in Ids : dequeue(id))
    /\ \A id \in Ids : WF_vars(Report(id))

Spec == Init /\ [][Next]_vars /\ Fairness

-----------------------------------------------------------------------------
Entries ==
    [ status : {"none", "pending", "processing", "dead"}, attempts : Nat,
      maxAttempts : Limits \cup {0}, nextRetryAt : Nat ]

AtLeastOne(n) == IF n = 0 THEN 1 ELSE n

(* Type invariant, in memory and on disk.  An entry that may still run has *)
(* failed less often than its limit, whatever the limit has become since.  *)
Fits(entries) ==
    /\ entries \in [Ids -> Entries]
    /\ \A id \in Ids :
        /\ entries[id].status \in {"pending", "processing"} =>
             entries[id].attempts < AtLeastOne(entries[id].maxAttempts)
        /\ entries[id].status = "dead" =>
             entries[id].attempts = AtLeastOne(entries[id].maxAttempts)
        /\ id > enqueued => entries[id] = NoEntry

TypeOK ==
    /\ now \in 0..MaxTime
    /\ Fits(storage) /\ limit \in Limits
    /\ Fits(disk.entries) /\ disk.limit \in Limits
    /\ inFlight \subseteq Ids /\ available \in BOOLEAN /\ saved \in BOOLEAN /\ faults \in 0..MaxFaults
    /\ refused \subseteq Ids
    /\ \A id \in Ids : storage[id].status = "processing" => id \in inFlight \cup refused
    /\ \A id \in refused : storage[id].status \in {"processing", "none"}
    /\ enqueued \in 0..MaxEntries /\ reloads \in 0..MaxReloads
    /\ runs \in [Ids -> Nat] /\ requeues \in 0..MaxRequeues

(* A reload changes nothing but what was in flight, as long as the last    *)
(* change had reached localStorage: no entry is lost, none comes back, and *)
(* no failed attempt is forgotten, at whichever call the page was cut off. *)
ReloadLosesNothing ==
    [][ hydrate /\ saved /\ available =>
          /\ limit' = limit
          /\ \A id \in Ids :
              /\ storage'[id].attempts = storage[id].attempts
              /\ storage'[id].maxAttempts = storage[id].maxAttempts
              /\ storage'[id].status = IF storage[id].status = "processing"
                                       THEN "pending" ELSE storage[id].status ]_vars

(* An entry is handed out as often as its limit allows for every time it   *)
(* was enqueued or brought back; only a reload in mid-flight, whose run is *)
(* not counted as an attempt, adds to that.  Stated while localStorage     *)
(* works: stale data would bring back spent attempts.                      *)
RunsBounded ==
    faults = 0 =>
        \A id \in Ids : storage[id].status # "none" =>
            runs[id] <= AtLeastOne(storage[id].maxAttempts) * (1 + requeues) + reloads

(* Every entry is retried until it is completed or dead, however the page  *)
(* is reloaded and localStorage fails, but for a failure that is refused   *)
(* (sorobanRetryQueue.ts:837): that leaves the entry processing until the  *)
(* page is loaded, and from then on it must settle or be refused again.    *)
(* (Past MaxTime nothing is due.)                                          *)
Open(id) == storage[id].status \in {"pending", "processing"}
EveryEntrySettles ==
    \A id \in Ids :
        Open(id) ~> (~Open(id) \/ storage[id].nextRetryAt > MaxTime \/ id \in refused)

(* "Nothing is ever stuck mid-flight" (docs/soroban-retry-queue.md:42).    *)
(* TLC refutes it: the processor of the same document (:135) hands over    *)
(* whatever it has caught, and a failure that is no SorobanError is        *)
(* refused, with nobody left to report the entry.  No run checks it.       *)
NothingIsStuck ==
    \A id \in Ids :
        Open(id) ~> (~Open(id) \/ storage[id].nextRetryAt > MaxTime)
=============================================================================
