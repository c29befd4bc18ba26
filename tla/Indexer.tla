------------------------------- MODULE Indexer -------------------------------
(***************************************************************************)
(* lib/indexer.ts and the job of scripts/backfill-indexer.ts.  A main loop *)
(* asks Horizon for the events of the ledgers after a durable cursor and   *)
(* processes them one by one; a backfill job in another process re-reads   *)
(* the ledgers before it.  They share the store (cursorsDb and             *)
(* processedEventsDb) and nothing else.                                    *)
(*                                                                         *)
(* Starting twice runs two loops: Loops.  So does starting again while an  *)
(* old loop sleeps, since stop() only clears a flag that the loop reads    *)
(* between two batches.                                                    *)
(*                                                                         *)
(* Events are numbered in ledger order.  What fetchEvents answers is up to *)
(* its caller; here it is every closed ledger from the one asked.  The     *)
(* failure, the breaker switch and lastUpdatedAt are left out: they feed   *)
(* the status shown to operators, and no step of a loop or job reads them. *)
(*                                                                         *)
(* A definition named Mutant... is a faulty form of the one it precedes.   *)
(***************************************************************************)
EXTENDS Integers, FiniteSets, FiniteSetsExt

CONSTANTS
    Loops,          \* main loops the indexing process may have at once
    LedgerOf,       \* the ledger of each event
    overlapWindow,
    MaxTip,      \* bound: ledgers closed
    MaxFaults       \* bound: crashes, stops and failed saves together

Events == DOMAIN LedgerOf

ASSUME IndexerAssumption ==
    /\ overlapWindow \in Nat /\ MaxTip \in Nat /\ MaxFaults \in Nat
    /\ Events \subseteq Nat
    /\ LedgerOf \in [Events -> 1 .. MaxTip]
    /\ \A d, e \in Events : d < e => LedgerOf[d] <= LedgerOf[e]

VARIABLES
    tip,            \* newest ledger Horizon has closed
    cursor,         \* lastLedger of cursorsDb; 0 before the first save
    processed,      \* processedEventsDb
    isRunning,      \* of the indexing process
    loop,           \* its main loops
    job,            \* the backfill job
    dropped,        \* history: events fetched and given up with their batch
    faults

store == <<cursor, processed>>
indexerVars == <<tip, store, isRunning, loop, job, dropped, faults>>

Off == [pc |-> "off", from |-> 0, batch |-> {}]
NoJob == [on |-> FALSE, cursor |-> 0, target |-> 0, batch |-> {}]

IndexerTypeOK ==
    /\ tip \in 0 .. MaxTip /\ cursor \in 0 .. tip
    /\ isRunning \in BOOLEAN
    /\ processed \subseteq {e \in Events : LedgerOf[e] <= tip}
    /\ loop \in [Loops -> [pc : {"off", "poll", "fetch", "batch"},
                          from : 0 .. MaxTip + 1, batch : SUBSET Events]]
    /\ \A l \in Loops : loop[l].pc \in {"off", "poll"} => loop[l].from = 0
    /\ \A l \in Loops : loop[l].pc # "batch" => loop[l].batch = {}
    /\ job \in [on : BOOLEAN, cursor : 0 .. MaxTip, target : 0 .. MaxTip,
                batch : SUBSET Events]
    /\ ~job.on => job = NoJob
    /\ dropped \subseteq Events
    /\ faults \in 0 .. MaxFaults

IndexerInit ==
    /\ tip = 0 /\ cursor = 0 /\ processed = {}
    /\ isRunning = FALSE
    /\ loop = [l \in Loops |-> Off]
    /\ job = NoJob
    /\ dropped = {} /\ faults = 0

-----------------------------------------------------------------------------
(* The events of closed ledgers from first to last.                        *)
Closed(first, last) == {e \in Events : LedgerOf[e] \in first .. last /\ LedgerOf[e] <= tip}

MutantNextLedger(c) == c + 2
NextLedger(c) == c + 1

MutantStartLedger(c) == c
StartLedger(c) == IF c > overlapWindow THEN c - overlapWindow ELSE 0

(* saveCursor *)
Save(e) == cursor' = LedgerOf[e]

(* A batch is cut: what is left of it is not tried again by this loop.     *)
Drop(batch) == dropped' = dropped \cup batch

Fault == faults < MaxFaults /\ faults' = faults + 1

SetLoop(l, pc, from, batch) ==
    loop' = [loop EXCEPT ![l] = [pc |-> pc, from |-> from, batch |-> batch]]

(* The end of an iteration: the flag is read, then the poll interval.      *)
MutantIterationEnds(l) == SetLoop(l, "off", 0, {})
IterationEnds(l) == SetLoop(l, IF isRunning THEN "poll" ELSE "off", 0, {})

-----------------------------------------------------------------------------
CloseLedger ==
    /\ tip < MaxTip /\ tip' = tip + 1
    /\ UNCHANGED <<store, isRunning, loop, job, dropped, faults>>

-----------------------------------------------------------------------------
(* startMainLoop: nothing checks that the indexer is not running, or that  *)
(* an earlier loop has ended.                                              *)
startMainLoop(l) ==
    /\ loop[l] = Off
    /\ isRunning' = TRUE
    /\ SetLoop(l, "poll", 0, {})
    /\ UNCHANGED <<tip, store, job, dropped, faults>>

stop ==
    /\ isRunning /\ Fault
    /\ isRunning' = FALSE
    /\ UNCHANGED <<tip, store, loop, job, dropped>>

(* The sleep is over: while (this.isRunning), then the cursor is read and  *)
(* the request sent; the answer is what is closed when it arrives.         *)
Wake(l) ==
    /\ loop[l].pc = "poll"
    /\ IF isRunning THEN SetLoop(l, "fetch", NextLedger(cursor), {}) ELSE IterationEnds(l)
    /\ UNCHANGED <<tip, store, isRunning, job, dropped, faults>>

FetchAnswers(l) ==
    /\ loop[l].pc = "fetch"
    /\ SetLoop(l, "batch", loop[l].from, Closed(loop[l].from, tip))
    /\ UNCHANGED <<tip, store, isRunning, job, dropped, faults>>

FetchFails(l) ==
    /\ loop[l].pc = "fetch"
    /\ IterationEnds(l)
    /\ UNCHANGED <<tip, store, isRunning, job, dropped, faults>>

(* processEvent on an event whose key is known returns before the cursor   *)
(* is saved.                                                               *)
Duplicate(e) == e \in processed /\ UNCHANGED store

(* On a new one the key is added first and the cursor saved next.          *)
Advance(e) ==
    /\ e \notin processed /\ processed' = processed \cup {e}
    /\ Save(e)

SaveFails(e) ==
    /\ e \notin processed /\ processed' = processed \cup {e}
    /\ Fault
    /\ UNCHANGED cursor

LoopStep(l) ==
    /\ loop[l].batch # {}
    /\ LET e == Min(loop[l].batch) IN
       \/ /\ Duplicate(e) \/ Advance(e)
          /\ loop' = [loop EXCEPT ![l].batch = @ \ {e}]
          /\ UNCHANGED <<dropped, faults>>
       \* processEvent throws and the loop's catch ends the iteration
       \/ /\ SaveFails(e)
          /\ Drop(loop[l].batch \ {e})
          /\ IterationEnds(l)
    /\ UNCHANGED <<tip, isRunning, job>>

BatchEnds(l) ==
    /\ loop[l].pc = "batch" /\ loop[l].batch = {}
    /\ IterationEnds(l)
    /\ UNCHANGED <<tip, store, isRunning, job, dropped, faults>>

(* The indexing process dies: the store survives, its instance does not.   *)
Crash ==
    /\ \E l \in Loops : loop[l] # Off
    /\ Fault
    /\ Drop(UNION {loop[l].batch : l \in Loops})
    /\ loop' = [l \in Loops |-> Off]
    /\ isRunning' = FALSE
    /\ UNCHANGED <<tip, store, job>>

-----------------------------------------------------------------------------
(* runBackfill: the ledgers from overlapWindow before the cursor.          *)
BackfillStarts(target) ==
    /\ ~job.on
    /\ job' = [on |-> TRUE, cursor |-> cursor, target |-> target,
               batch |-> Closed(StartLedger(cursor), target)]
    /\ UNCHANGED <<tip, store, isRunning, loop, dropped, faults>>

BackfillStep ==
    /\ job.batch # {}
    /\ LET e == Min(job.batch) IN
       \/ /\ Duplicate(e) \/ Advance(e)
          /\ job' = [job EXCEPT !.batch = @ \ {e}]
          /\ UNCHANGED <<dropped, faults>>
       \/ SaveFails(e) /\ Drop(job.batch \ {e}) /\ job' = NoJob
    /\ UNCHANGED <<tip, isRunning, loop>>

(* Backfill completed successfully.                                        *)
BackfillEnds ==
    /\ job.on /\ job.batch = {}
    /\ job' = NoJob
    /\ UNCHANGED <<tip, store, isRunning, loop, dropped, faults>>

BackfillDies ==
    /\ job.on /\ Fault
    /\ Drop(job.batch) /\ job' = NoJob
    /\ UNCHANGED <<tip, store, isRunning, loop>>

-----------------------------------------------------------------------------
IndexerNext ==
    \/ CloseLedger
    \/ \E l \in Loops :
          \/ startMainLoop(l) \/ Wake(l)
          \/ FetchAnswers(l) \/ FetchFails(l)
          \/ LoopStep(l) \/ BatchEnds(l)
    \/ stop \/ Crash
    \/ \E target \in 1 .. tip : BackfillStarts(target)
    \/ BackfillStep \/ BackfillEnds \/ BackfillDies

(* Ledgers close, a running loop or job goes on, and Horizon does not fail *)
(* for ever.  Nobody is obliged to start, stop, backfill or throw a switch.*)
IndexerFairness ==
    /\ WF_indexerVars(CloseLedger) /\ WF_indexerVars(BackfillStep) /\ WF_indexerVars(BackfillEnds)
    /\ \A l \in Loops :
          /\ WF_indexerVars(Wake(l)) /\ WF_indexerVars(LoopStep(l)) /\ WF_indexerVars(BatchEnds(l))
          /\ SF_indexerVars(FetchAnswers(l))

IndexerSpec == IndexerInit /\ [][IndexerNext]_indexerVars /\ IndexerFairness

-----------------------------------------------------------------------------
(* An event at or behind the cursor has been processed, or is still in the *)
(* batch of somebody who will, or its batch was cut: nothing else is ever  *)
(* skipped, whatever loops and backfills do to the one cursor they share   *)
(* (lib/indexer.ts:130-145, 163-180).                                      *)
InFlight == UNION ({loop[l].batch : l \in Loops} \cup {job.batch})

GapsOnlyAtCuts ==
    \A e \in Events :
        LedgerOf[e] <= cursor => e \in processed \cup InFlight \cup dropped

(* A backfill that reports success leaves no gap between overlapWindow     *)
(* ledgers behind the cursor it started from and its target, even when the *)
(* main loop ran meanwhile (docs/horizon-indexer.md:11).                   *)
BackfillHeals ==
    [][ BackfillEnds =>
        \A e \in Events :
            LedgerOf[e] \in job.cursor - overlapWindow .. job.target => e \in processed ]_indexerVars

(* If the loop is left running from some point on, every event that was    *)
(* not given up with a cut batch is processed, also when duplicates or a   *)
(* backfill have left the cursor behind (lib/indexer.ts:132, 177-201).     *)
EventsIndexed ==
    <>[]isRunning => <>(Events \subseteq processed \cup dropped)
=============================================================================
