----------------------------- MODULE LiveEvents -----------------------------
(***************************************************************************)
(* What happens between a change of one stream's row and the browsers that *)
(* watch it: the routes write the row and announce the change on the event *)
(* bus (app/lib/stream-publish.ts), which calls the listener of every open *)
(* connection before it returns.  Three routes hold connections:           *)
(*   "events"   /api/streams/events, on createSseConnection of             *)
(*              app/lib/sse.ts: counted heartbeats, an idle deadline;      *)
(*   "stream"   /api/streams/:id/events, pings for as long as it is open;  *)
(*   "indexer"  /api/indexer/sse, a counted series of snapshots that       *)
(*              listens to no bus.                                         *)
(* Each frame leaves its SseQueue in the call that put it there, so the    *)
(* queue is empty in every state.                                          *)
(*                                                                         *)
(* What the row says is named by the number of the write that said it.     *)
(* A client leaves when the runtime notices (its stream is cancelled and   *)
(* rejects writes) and vanishes when nothing does.                         *)
(*                                                                         *)
(* A definition named Mutant... is a faulty form of the one it precedes.   *)
(***************************************************************************)
EXTENDS Integers

CONSTANTS
    Conns,
    Routes,             \* the routes they may use
    HeartbeatLimits,    \* SSE_HEARTBEAT_MAX; 0 turns heartbeats off
    SSE_MAX_EVENTS,
    Patches,            \* requests that edit the row without its lock
    MaxWrites           \* bound: changes of the row

ASSUME LiveEventsAssumption ==
    /\ Routes \subseteq {"events", "stream", "indexer"}
    /\ HeartbeatLimits \subseteq Nat /\ SSE_MAX_EVENTS \in Nat \ {0} /\ MaxWrites \in Nat

VARIABLES
    row,            \* what the row says
    writes,         \* changes so far
    locked,         \* the change a settlement or withdrawal made, 0 if none runs
    patch,          \* what each edit in progress has read, or -1
    published,      \* history: what the newest event said
    breakerOpen,    \* the indexer breaker
    conn

feed == <<row, writes, locked, patch, published>>
liveVars == <<feed, breakerOpen, conn>>

Unopened == [state |-> "unopened", route |-> "none", listening |-> FALSE, timed |-> FALSE, client |-> "there",
             limit |-> 0, beats |-> 0, seen |-> 0]

LiveTypeOK ==
    /\ writes \in 0 .. MaxWrites /\ row \in 0 .. writes /\ locked \in 0 .. writes
    /\ published \in 0 .. writes
    /\ patch \in [Patches -> -1 .. writes]
    /\ breakerOpen \in BOOLEAN
    /\ conn \in [Conns -> [state : {"unopened", "open", "closed"}, route : Routes \cup {"none"},
                           listening : BOOLEAN, timed : BOOLEAN, client : {"there", "left", "vanished"},
                           limit : HeartbeatLimits \cup {0}, beats : Nat, seen : 0 .. MaxWrites]]

LiveInit ==
    /\ row = 0 /\ writes = 0 /\ locked = 0 /\ published = 0
    /\ patch = [p \in Patches |-> -1]
    /\ breakerOpen = FALSE
    /\ conn = [c \in Conns |-> Unopened]

-----------------------------------------------------------------------------
(* close: once, with timers, bus and abort listeners released together;    *)
(* nothing of the connection is looked at again.                           *)
MutantClosed(r) == [Unopened EXCEPT !.state = "closed", !.listening = r.listening]
Closed(r) == [Unopened EXCEPT !.state = "closed"]

(* A write is rejected once the runtime knows that the client is gone.     *)
Wrote(r, accepted) == IF r.client = "left" THEN Closed(r) ELSE accepted

(* publishStreamChange: emit calls the listeners one after the other, and  *)
(* none of them throws.                                                    *)
Heard(change) ==
    [c \in Conns |->
       IF conn[c].listening THEN Wrote(conn[c], [conn[c] EXCEPT !.seen = change]) ELSE conn[c]]

MutantPublish(change) ==
    /\ published' = change
    /\ conn' = IF \E c \in Conns : conn[c].listening /\ conn[c].client = "left"
               THEN conn ELSE Heard(change)

Publish(change) == published' = change /\ conn' = Heard(change)

(* A write to the store of something the row did not say before.           *)
NewWrite == writes < MaxWrites /\ writes' = writes + 1 /\ row' = writes + 1

-----------------------------------------------------------------------------
(* start, stop, pause, cancel and the batches: under the stream's lock,    *)
(* write and announcement with no await between them.                      *)
ShortChange ==
    /\ locked = 0
    /\ NewWrite /\ Publish(writes + 1)
    /\ UNCHANGED <<locked, patch, breakerOpen>>

(* admin/pause-by-sender does the same without the lock.                   *)
PauseBySender ==
    /\ NewWrite /\ Publish(writes + 1)
    /\ UNCHANGED <<locked, patch, breakerOpen>>

(* A group action writes its legs under their locks and announces nothing. *)
GroupAction ==
    /\ locked = 0
    /\ NewWrite
    /\ UNCHANGED <<locked, patch, published, breakerOpen, conn>>

(* settle and withdraw write the row, then wait for the chain.             *)
LongChangeBegins ==
    /\ locked = 0
    /\ NewWrite /\ locked' = writes + 1
    /\ UNCHANGED <<patch, published, breakerOpen, conn>>

(* settle writes the row it prepared once more and announces it.           *)
SettleEnds ==
    /\ locked # 0
    /\ row' = locked /\ locked' = 0
    /\ Publish(locked)
    /\ UNCHANGED <<writes, patch, breakerOpen>>

(* The chain refused (502), or Horizon's answer to a withdrawal could not  *)
(* be read (the route throws): the row stays as written, nobody is told.   *)
SettleFails ==
    /\ locked # 0 /\ locked' = 0
    /\ UNCHANGED <<row, writes, patch, published, breakerOpen, conn>>

(* withdraw writes what Horizon said of the row it prepared.               *)
WithdrawEnds ==
    /\ locked # 0 /\ locked' = 0
    /\ NewWrite /\ Publish(writes + 1)
    /\ UNCHANGED <<patch, breakerOpen>>

(* POST /streams/:id and PATCH of v2 read the row, wait for the body, and  *)
(* write it back; the lock is not theirs to take.                          *)
PatchReads(p) ==
    /\ patch[p] = -1
    /\ patch' = [patch EXCEPT ![p] = row]
    /\ UNCHANGED <<row, writes, locked, published, breakerOpen, conn>>

PatchLifecycle(p) ==
    /\ patch[p] # -1 /\ patch' = [patch EXCEPT ![p] = -1]
    /\ NewWrite /\ Publish(writes + 1)
    /\ UNCHANGED <<locked, breakerOpen>>

(* Only a label or a memo: the rest goes back as it was read, and since it *)
(* is compared with what was read there is no change to announce.          *)
PatchLabel(p) ==
    /\ patch[p] # -1 /\ patch' = [patch EXCEPT ![p] = -1]
    /\ row' = patch[p]
    /\ UNCHANGED <<writes, locked, published, breakerOpen, conn>>

-----------------------------------------------------------------------------
(* GET: the listeners are added in the call that opens the connection.     *)
Connect(c, route, limit) ==
    /\ conn[c].state = "unopened"
    /\ conn' = [conn EXCEPT ![c] =
         LET open == [Unopened EXCEPT !.state = "open", !.route = route, !.timed = TRUE,
                        !.limit = IF route = "events" THEN limit ELSE 0,
                        !.listening = route # "indexer", !.seen = published]
         IN IF route # "indexer" THEN open
            \* the first snapshot goes out at once, the only one under a breaker
            ELSE IF breakerOpen \/ SSE_MAX_EVENTS = 1 THEN Closed(open)
            ELSE [open EXCEPT !.beats = 1]]
    /\ UNCHANGED <<feed, breakerOpen>>

Open(c) == conn[c].state = "open"
Set(c, r) == conn' = [conn EXCEPT ![c] = r] /\ UNCHANGED <<feed, breakerOpen>>

ClientLeaves(c) == Open(c) /\ conn[c].client = "there" /\ Set(c, [conn[c] EXCEPT !.client = "left"])
ClientVanishes(c) == Open(c) /\ conn[c].client = "there" /\ Set(c, [conn[c] EXCEPT !.client = "vanished"])

(* The request's abort event or the stream's cancel callback.              *)
AbortOrCancel(c) ==
    /\ Open(c) /\ conn[c].client = "left" /\ conn[c].route # "indexer"
    /\ Set(c, Closed(conn[c]))

MutantCounted(r) == r
Counted(r) == [r EXCEPT !.beats = @ + 1]

(* The interval of sse.ts.                                                 *)
Heartbeat(c) ==
    /\ Open(c) /\ conn[c].route = "events" /\ conn[c].limit > 0
    /\ Set(c, IF conn[c].beats >= conn[c].limit THEN Closed(conn[c])
              ELSE Wrote(conn[c], Counted(conn[c])))

(* Only without heartbeats does a quiet connection reach the deadline that *)
(* every write puts off.                                                   *)
IdleDeadline(c) ==
    /\ Open(c) /\ conn[c].route = "events" /\ conn[c].limit = 0
    /\ Set(c, Closed(conn[c]))

(* The 30 second interval of /streams/:id/events.                          *)
Ping(c) ==
    /\ Open(c) /\ conn[c].route = "stream"
    /\ Set(c, Wrote(conn[c], conn[c]))

(* One turn of the poll loop of /indexer/sse.                              *)
Snapshot(c) ==
    /\ Open(c) /\ conn[c].route = "indexer"
    /\ LET sent == Counted(conn[c])
       IN Set(c, Wrote(conn[c], IF breakerOpen \/ sent.beats >= SSE_MAX_EVENTS
                                THEN Closed(sent) ELSE sent))

Breaker == breakerOpen' = ~breakerOpen /\ UNCHANGED <<feed, conn>>

-----------------------------------------------------------------------------
LiveNext ==
    \/ ShortChange \/ PauseBySender \/ GroupAction
    \/ LongChangeBegins \/ SettleEnds \/ SettleFails \/ WithdrawEnds
    \/ \E p \in Patches : PatchReads(p) \/ PatchLifecycle(p) \/ PatchLabel(p)
    \/ \E c \in Conns :
         \/ \E route \in Routes, limit \in HeartbeatLimits : Connect(c, route, limit)
         \/ ClientLeaves(c) \/ ClientVanishes(c) \/ AbortOrCancel(c)
         \/ Heartbeat(c) \/ IdleDeadline(c) \/ Ping(c) \/ Snapshot(c)
    \/ Breaker

(* Timers fire, and the runtime delivers the abort or cancel it owes.      *)
LiveFairness ==
    \A c \in Conns :
        WF_liveVars(AbortOrCancel(c)) /\ WF_liveVars(Heartbeat(c)) /\ WF_liveVars(IdleDeadline(c))
        /\ WF_liveVars(Ping(c)) /\ WF_liveVars(Snapshot(c))

LiveSpec == LiveInit /\ [][LiveNext]_liveVars /\ LiveFairness

-----------------------------------------------------------------------------
(* Every open subscription holds the newest announcement made since it was *)
(* opened: none is lost on the way or overtaken, whichever routes publish  *)
(* and whichever other clients drop out during the same emit               *)
(* (stream-publish.ts:147-165, sse.ts:213-226).                            *)
FeedIsCurrent ==
    \A c \in Conns : Open(c) /\ conn[c].route # "indexer" => conn[c].seen = published

(* Nothing outlives its connection: listeners on the bus and timers belong *)
(* to open connections and every open subscription has its listeners       *)
(* (docs/SSE-HEARTBEATS.md:27-29).                                         *)
NothingOutlives ==
    \A c \in Conns :
        /\ conn[c].listening \/ conn[c].timed => Open(c)
        /\ Open(c) /\ conn[c].route # "indexer" => conn[c].listening

(* A bounded connection ends whatever its client does, even one that       *)
(* vanished; the unbounded route ends once the runtime has noticed         *)
(* (docs/SSE-HEARTBEATS.md:15-26).                                         *)
ConnectionsEnd ==
    \A c \in Conns :
        (Open(c) /\ (conn[c].route # "stream" \/ conn[c].client = "left"))
            ~> conn[c].state = "closed"

(* "An abandoned client cannot pin an open connection (and its timers /    *)
(* event-bus listeners) forever" (docs/SSE-HEARTBEATS.md:17).              *)
AbandonedIsReleased ==
    \A c \in Conns : (Open(c) /\ conn[c].client = "vanished") ~> conn[c].state = "closed"

(* "Stream lifecycle routes publish to the in-process event bus after the  *)
(* store write succeeds" (docs/SSE-HEARTBEATS.md:74): at rest the newest   *)
(* announcement says what the row says.                                    *)
AtRestAnnounced ==
    locked = 0 /\ (\A p \in Patches : patch[p] = -1) => row = published
=============================================================================
