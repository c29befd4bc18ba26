-------------------------- MODULE StreamApiProofs ---------------------------
(***************************************************************************)
(* What holds of the stream routes for any streams, keys, amounts, batches *)
(* and groups, any number of requests, and whatever the settlement client  *)
(* and Horizon answer: a payout is accounted for in the row, a key acts    *)
(* once, a status follows the table, and what has vested never falls.      *)
(***************************************************************************)
EXTENDS StreamApi, SequenceTheorems, WellFoundedInduction, TLAPS

(* A row that fits together at time t, and has not paid ahead of vesting.  *)
RowFits(s, t) ==
    /\ s \in Row
    /\ s.pausedAt <= t
    /\ s.status = "paused" => s.pausedAt # NoTime
    /\ s.status \in {"draft", "active"} => s.pausedAt = NoTime
    /\ s.status = "withdrawn" => s.tx /\ s.withdrawal = "succeeded"
    /\ s.pausedDuration <= IF s.pausedAt = NoTime THEN t ELSE s.pausedAt
    /\ s.released <= Vested(s, t)

(* What one stretch of a request may make of row s.                        *)
RowMove(s, n, t) ==
    /\ RowFits(n, t)
    /\ Vested(s, t) <= Vested(n, t)
    /\ n.status # s.status =>
         \E action \in Action : <<s.status, action, n.status>> \in TRANSITIONS
    /\ s.status = "cancelled" => n.status = "cancelled"

RequestRow ==
    [ op : SingleOps \cup WrappedOps \cup BatchOps \cup GroupOps \cup {"none"},
      ids : Seq(Streams), key : Keys \cup {"none"},
      amount : Amounts \cup {All, 0}, pc : {"lock", "chain", "horizon", "store", "done"},
      held : SUBSET Streams, answer : {"none", "ok", "refused", "failed"}, row : Row ]

(* Who holds a lock is first in its queue; who awaits one is in it.        *)
Heads(id, i) == queue[id] # <<>> /\ Head(queue[id]) = i
Waits(id, i) == \E k \in DOMAIN queue[id] : queue[id][k] = i

(* The lock discipline.  A request keeps what it holds while it awaits the *)
(* next lock; one that awaits a service holds the lock of its stream, so   *)
(* the row it has in hand is the row in the store.                         *)
LockOK(i) ==
    LET r == requests[i]
    IN  /\ r.pc = "lock" =>
             /\ Remaining(r) # {}
             /\ \A id \in r.held : Heads(id, i)
             /\ Waits(NextLock(r), i)
        /\ r.pc \in {"chain", "horizon"} =>
             /\ r.ids # <<>> /\ Heads(Target(i), i)
             /\ r.row = stream[Target(i)] /\ r.row.status = "ended"

(* A token that has changed a stream has its response stored, or was a     *)
(* cancellation that failed afterwards; then its stream stays cancelled.   *)
AppliedOK ==
    \A token \in applied :
        token[1] \in SingleOps \cup GroupOps =>
          \/ token \in idempotency
          \/ /\ token[1] = "cancel" /\ token[2][1] \in Streams
             /\ stream[token[2][1]].status = "cancelled"

RowsInv  == /\ now \in 0..MaxTime
            /\ stream \in [Streams -> Row]
            /\ \A id \in Streams : RowFits(stream[id], now)
            /\ paid = [id \in Streams |-> stream[id].released]
LocksInv == /\ requests \in Seq(RequestRow) /\ Len(requests) <= MaxRequests
            /\ queue \in [Streams -> Seq(1..MaxRequests)]
            /\ \A i \in DOMAIN requests : LockOK(i)
OnceInv  == AppliedOK /\ AppliedOnce /\ appliedTwice \subseteq applied
ApiInv   == RowsInv /\ LocksInv /\ OnceInv /\ settledOnChain \subseteq Streams

-----------------------------------------------------------------------------
(* What has vested                                                         *)

LEMMA MinMaxOfTwo ==
    ASSUME NEW a \in Int, NEW b \in Int
    PROVE  /\ Min({a, b}) = IF a <= b THEN a ELSE b
           /\ Max({a, b}) = IF a <= b THEN b ELSE a
  <1>1. \A x \in {a, b} : x = a \/ x = b
    OBVIOUS
  <1>2. CASE a <= b
    <2>1. Min({a, b}) = a
      BY <1>2 DEF Min
    <2>2. Max({a, b}) = b
      BY <1>2 DEF Max
    <2> QED  BY <1>2, <2>1, <2>2
  <1>3. CASE b < a
    <2>1. Min({a, b}) = b
      BY <1>3 DEF Min
    <2>2. Max({a, b}) = a
      BY <1>3 DEF Max
    <2> QED  BY <1>3, <2>1, <2>2
  <1> QED  BY <1>2, <1>3

Clamped(x) == IF x <= 0 THEN 0 ELSE IF x <= Duration THEN x ELSE Duration
Reached(s, t) == IF s.pausedAt = NoTime \/ t <= s.pausedAt THEN t ELSE s.pausedAt

LEMMA VestedIs ==
    ASSUME NEW s, s.pausedAt \in Int, s.pausedDuration \in Int, NEW t \in Int
    PROVE  /\ Reached(s, t) \in Int
           /\ Vested(s, t) = Clamped(Reached(s, t) - s.pausedDuration)
           /\ Vested(s, t) \in 0..Duration
  <1>1. Duration \in Nat
    BY ApiAssumption
  <1>2. (IF s.pausedAt = NoTime THEN t ELSE Min({t, s.pausedAt})) = Reached(s, t)
    BY MinMaxOfTwo DEF Reached, NoTime
  <1>3. Reached(s, t) \in Int
    BY DEF Reached
  <1> DEFINE x == Reached(s, t) - s.pausedDuration
  <1>4. x \in Int
    BY <1>3
  <1>5. Vested(s, t) = Max({0, Min({x, Duration})})
    BY <1>2 DEF Vested
  <1> HIDE DEF x
  <1>6. Max({0, Min({x, Duration})}) = Clamped(x)
    <2> DEFINE m == Min({x, Duration})
    <2>1. m = (IF x <= Duration THEN x ELSE Duration)
      BY <1>1, <1>4, MinMaxOfTwo
    <2>2. m \in Int
      BY <1>1, <1>4, <2>1
    <2> HIDE DEF m
    <2>3. Max({0, m}) = IF 0 <= m THEN m ELSE 0
      <3>1. 0 \in Int
        OBVIOUS
      <3> QED  BY <2>2, <3>1, MinMaxOfTwo, Zenon
    <2>4. Max({0, m}) = Clamped(x)
      BY <1>1, <1>4, <2>1, <2>3 DEF Clamped
    <2> QED  BY <2>4 DEF m
  <1> QED  BY <1>1, <1>3, <1>4, <1>5, <1>6 DEF Clamped, x

LEMMA RowTypes ==
    ASSUME NEW s \in Row
    PROVE  /\ s.status \in Status /\ s.pausedAt \in Int /\ s.pausedDuration \in Nat
           /\ s.released \in Nat /\ s.pausedAt \in {NoTime} \cup Nat
  BY ApiAssumption DEF Row, NoTime

LEMMA VestedGrows ==
    ASSUME NEW s \in Row, NEW t \in Nat, NEW u \in Nat, t <= u
    PROVE  Vested(s, t) <= Vested(s, u)
  <1>1. Reached(s, t) <= Reached(s, u)
    BY RowTypes DEF Reached
  <1>2. /\ Reached(s, t) \in Int /\ Reached(s, u) \in Int
        /\ Vested(s, t) = Clamped(Reached(s, t) - s.pausedDuration)
        /\ Vested(s, u) = Clamped(Reached(s, u) - s.pausedDuration)
    BY RowTypes, VestedIs
  <1> QED  BY <1>1, <1>2, RowTypes, ApiAssumption DEF Clamped

LEMMA RowStillFits ==
    ASSUME NEW s, NEW t \in Nat, NEW u \in Nat, t <= u, RowFits(s, t)
    PROVE  RowFits(s, u) /\ RowMove(s, s, u)
  <1>1. s \in Row /\ Vested(s, t) <= Vested(s, u)
    BY VestedGrows DEF RowFits
  <1>2. Vested(s, t) \in Int /\ Vested(s, u) \in Int
    BY <1>1, RowTypes, VestedIs
  <1>3. RowFits(s, u)
    BY <1>1, <1>2, RowTypes DEF RowFits
  <1> QED  BY <1>2, <1>3 DEF RowMove

(* A row whose pause is untouched has vested as much.                      *)
LEMMA SamePause ==
    ASSUME NEW s, NEW n, n.pausedAt = s.pausedAt, n.pausedDuration = s.pausedDuration, NEW t
    PROVE  Vested(n, t) = Vested(s, t)
  BY DEF Vested

(* A change of status alone, or of the transaction or the payout with it.  *)
LEMMA StatusMoves ==
    ASSUME NEW t \in 0..MaxTime, NEW s, RowFits(s, t), NEW n \in Row,
           n.pausedAt = s.pausedAt, n.pausedDuration = s.pausedDuration,
           n.released <= Vested(s, t),
           n.status \in {"paused", "draft", "active"} => n.status = s.status,
           n.status = "withdrawn" => n.tx /\ n.withdrawal = "succeeded",
           n.status # s.status =>
             \E action \in Action : <<s.status, action, n.status>> \in TRANSITIONS,
           s.status # "cancelled"
    PROVE  RowMove(s, n, t)
  <1>1. Vested(n, t) = Vested(s, t) /\ Vested(s, t) \in Int
    <2>1. s \in Row /\ t \in Int
      BY ApiAssumption DEF RowFits
    <2> QED  BY <2>1, SamePause, RowTypes, VestedIs
  <1>2. RowFits(n, t)
    BY <1>1 DEF RowFits
  <1> QED  BY <1>1, <1>2 DEF RowMove

LEMMA StoppedMoves ==
    ASSUME NEW t \in 0..MaxTime, NEW s, RowFits(s, t), s.status \in {"draft", "active", "paused"}
    PROVE  RowMove(s, Stopped(s), t) /\ Stopped(s).released = s.released
  <1>1. /\ Stopped(s) \in Row /\ Stopped(s).status = "ended" /\ Stopped(s).released = s.released
        /\ Stopped(s).pausedAt = s.pausedAt /\ Stopped(s).pausedDuration = s.pausedDuration
    BY DEF RowFits, Row, Status, Stopped
  <1>2. <<s.status, "stop", "ended">> \in TRANSITIONS
    BY DEF TRANSITIONS
  <1>3. s.released <= Vested(s, t)
    BY DEF RowFits
  <1> QED  BY <1>1, <1>2, <1>3, StatusMoves DEF Action

LEMMA CancelledMoves ==
    ASSUME NEW t \in 0..MaxTime, NEW s, RowFits(s, t), s.status \in {"active", "paused"},
           NEW n, n = [s EXCEPT !.status = "cancelled", !.released = Vested(s, t)]
    PROVE  /\ RowMove(s, n, t)
           /\ n.status = "cancelled" /\ n.released = Vested(s, t)
           /\ Vested(s, t) \in Nat
  <1>1. Vested(s, t) \in 0..Duration /\ Duration \in Nat
    BY RowTypes, VestedIs, ApiAssumption DEF RowFits
  <1>2. /\ n \in Row /\ n.status = "cancelled" /\ n.released = Vested(s, t)
        /\ n.pausedAt = s.pausedAt /\ n.pausedDuration = s.pausedDuration
    BY <1>1 DEF RowFits, Row, Status
  <1>3. <<s.status, "cancel", "cancelled">> \in TRANSITIONS
    BY DEF TRANSITIONS
  <1>4. n.released <= Vested(s, t)
    BY <1>1, <1>2
  <1>5. \E action \in Action : <<s.status, action, n.status>> \in TRANSITIONS
    BY <1>2, <1>3 DEF Action
  <1>6. RowMove(s, n, t)
    BY <1>2, <1>4, <1>5, StatusMoves
  <1> QED  BY <1>1, <1>2, <1>6

LEMMA SettledMoves ==
    ASSUME NEW t \in 0..MaxTime, NEW s, RowFits(s, t), s.status \in {"active", "paused"},
           NEW n, n = [s EXCEPT !.status = "ended", !.tx = TRUE, !.withdrawal = "pending"]
    PROVE  RowMove(s, n, t) /\ n.released = s.released /\ n.status = "ended"
  <1>1. /\ n \in Row /\ n.status = "ended" /\ n.released = s.released
        /\ n.pausedAt = s.pausedAt /\ n.pausedDuration = s.pausedDuration
    BY DEF RowFits, Row, Status
  <1>2. <<s.status, "settle", "ended">> \in TRANSITIONS
    BY DEF TRANSITIONS
  <1>3. s.released <= Vested(s, t)
    BY DEF RowFits
  <1> QED  BY <1>1, <1>2, <1>3, StatusMoves DEF Action

LEMMA WithdrawalMoves ==
    ASSUME NEW t \in 0..MaxTime, NEW s, RowFits(s, t), s.status = "ended",
           NEW amount \in Nat, amount <= Vested(s, t) - s.released,
           NEW n, n = [s EXCEPT !.released = @ + amount]
    PROVE  RowMove(s, n, t) /\ n.released = s.released + amount /\ n.status = "ended"
  <1>1. Vested(s, t) \in 0..Duration /\ Duration \in Nat /\ s.released \in Nat
    BY RowTypes, VestedIs, ApiAssumption DEF RowFits
  <1>2. s.released + amount \in 0..Duration /\ s.released + amount <= Vested(s, t)
    BY <1>1
  <1>3. /\ n \in Row /\ n.status = "ended" /\ n.released = s.released + amount
        /\ n.pausedAt = s.pausedAt /\ n.pausedDuration = s.pausedDuration
    BY <1>2 DEF RowFits, Row
  <1> QED  BY <1>2, <1>3, StatusMoves

LEMMA EvaluatedMoves ==
    ASSUME NEW t \in 0..MaxTime, NEW s, RowFits(s, t), s.status = "ended",
           NEW n \in Row, n.released = s.released,
           n.pausedAt = s.pausedAt, n.pausedDuration = s.pausedDuration,
           \/ n.status = "ended"
           \/ n.status = "withdrawn" /\ n.tx /\ n.withdrawal = "succeeded"
    PROVE  RowMove(s, n, t)
  <1>1. <<"ended", "withdraw", "withdrawn">> \in TRANSITIONS
    BY DEF TRANSITIONS
  <1>2. n.status # s.status =>
          \E action \in Action : <<s.status, action, n.status>> \in TRANSITIONS
    BY <1>1 DEF Action
  <1>3. n.released <= Vested(s, t)
    BY DEF RowFits
  <1>4. /\ n.status \in {"paused", "draft", "active"} => n.status = s.status
        /\ n.status = "withdrawn" => n.tx /\ n.withdrawal = "succeeded"
        /\ s.status # "cancelled"
    OBVIOUS
  <1> QED  BY <1>2, <1>3, <1>4, StatusMoves

(* Pausing stops the schedule where it stands.                             *)
LEMMA PausedMoves ==
    ASSUME now \in 0..MaxTime, NEW s, RowFits(s, now), s.status = "active"
    PROVE  RowMove(s, Paused(s), now) /\ Paused(s).released = s.released
  <1> DEFINE n == Paused(s)
  <1>1. /\ n \in Row /\ n.status = "paused" /\ n.released = s.released
        /\ n.pausedAt = now /\ n.pausedDuration = s.pausedDuration
    BY DEF RowFits, Row, Status, Paused
  <1>2. /\ s \in Row /\ s.pausedAt = NoTime /\ s.pausedDuration <= now
        /\ s.released <= Vested(s, now) /\ now \in Int /\ now # NoTime
    BY ApiAssumption DEF RowFits, NoTime
  <1> HIDE DEF n
  <1>3. Reached(n, now) = Reached(s, now)
    BY <1>1, <1>2 DEF Reached
  <1>4. Vested(n, now) = Vested(s, now) /\ Vested(s, now) \in Int
    BY <1>1, <1>2, <1>3, RowTypes, VestedIs
  <1>5. RowFits(n, now)
    BY <1>1, <1>2, <1>4 DEF RowFits
  <1>6. <<"active", "pause", "paused">> \in TRANSITIONS
    BY DEF TRANSITIONS
  <1>7. RowMove(s, n, now)
    BY <1>1, <1>4, <1>5, <1>6 DEF RowMove, Action
  <1> QED  BY <1>1, <1>7 DEF n

(* Resuming from where it stood, or as if there had been no pause: what    *)
(* has vested stays or grows.                                              *)
LEMMA ResumingMoves ==
    ASSUME now \in 0..MaxTime, NEW s, RowFits(s, now), s.status \in {"draft", "paused"},
           NEW gap \in Int, gap = 0 \/ (s.status = "paused" /\ gap = now - s.pausedAt),
           NEW n, n.status = "active", n.released = s.released, n.pausedAt = NoTime,
           n.pausedDuration = s.pausedDuration + gap,
           n.pausedDuration \in 0..MaxTime => n \in Row
    PROVE  RowMove(s, n, now)
  <1>1. /\ s \in Row /\ s.pausedAt <= now /\ s.released <= Vested(s, now)
        /\ now \in Int /\ now \in Nat /\ now <= MaxTime /\ MaxTime \in Nat
        /\ s.pausedDuration <= IF s.pausedAt = NoTime THEN now ELSE s.pausedAt
        /\ s.status = "paused" => s.pausedAt # NoTime
        /\ s.status # "paused" => s.pausedAt = NoTime
    BY ApiAssumption DEF RowFits
  <1>2. /\ s.pausedDuration \in Nat /\ s.pausedAt \in Int /\ s.released \in Nat
        /\ s.pausedAt \in {NoTime} \cup Nat
    BY <1>1, RowTypes
  <1>3. n.pausedDuration \in 0..now
    BY <1>1, <1>2 DEF NoTime
  <1>4. n \in Row /\ n.pausedAt \in Int /\ n.pausedDuration \in Int
    BY <1>1, <1>3 DEF NoTime
  <1>5. Reached(s, now) - s.pausedDuration <= Reached(n, now) - n.pausedDuration
    <2>1. Reached(n, now) = now
      BY DEF Reached
    <2>2. CASE s.status = "paused"
      <3>1. Reached(s, now) = s.pausedAt
        BY <1>1, <1>2, <2>2 DEF Reached
      <3> QED  BY <1>1, <1>2, <2>1, <3>1
    <2>3. CASE s.status # "paused"
      <3>1. Reached(s, now) = now /\ gap = 0
        BY <1>1, <2>3 DEF Reached
      <3> QED  BY <1>1, <1>2, <2>1, <3>1
    <2> QED  BY <2>2, <2>3
  <1>6. /\ Vested(s, now) = Clamped(Reached(s, now) - s.pausedDuration)
        /\ Reached(s, now) \in Int /\ Vested(s, now) \in 0..Duration
    BY <1>1, <1>2, VestedIs
  <1>7. /\ Vested(n, now) = Clamped(Reached(n, now) - n.pausedDuration)
        /\ Reached(n, now) \in Int /\ Vested(n, now) \in 0..Duration
    BY <1>1, <1>4, VestedIs
  <1>8. Vested(s, now) <= Vested(n, now)
    BY <1>2, <1>4, <1>5, <1>6, <1>7, ApiAssumption DEF Clamped
  <1>9. RowFits(n, now)
    <2>1. n.released <= Vested(n, now)
      BY <1>1, <1>2, <1>6, <1>7, <1>8, ApiAssumption
    <2> QED  BY <1>1, <1>3, <1>4, <2>1 DEF RowFits, NoTime
  <1>10. <<s.status, "start", "active">> \in TRANSITIONS
    BY DEF TRANSITIONS
  <1> QED  BY <1>8, <1>9, <1>10 DEF RowMove, Action

LEMMA StartedMoves ==
    ASSUME now \in 0..MaxTime, NEW s, RowFits(s, now), s.status \in {"draft", "paused"}
    PROVE  RowMove(s, Started(s), now) /\ Started(s).released = s.released
  <1> DEFINE gap == IF s.status = "paused" THEN now - s.pausedAt ELSE 0
             n   == Started(s)
  <1>1. gap \in Int /\ (gap = 0 \/ (s.status = "paused" /\ gap = now - s.pausedAt))
    BY RowTypes, ApiAssumption DEF RowFits
  <1>2. /\ n.status = "active" /\ n.released = s.released /\ n.pausedAt = NoTime
        /\ n.pausedDuration = s.pausedDuration + gap
        /\ n.pausedDuration \in 0..MaxTime => n \in Row
    BY DEF Started, RowFits, Row, Status
  <1> HIDE DEF gap, n
  <1>3. RowMove(s, n, now)
    BY <1>1, <1>2, ResumingMoves
  <1> QED  BY <1>2, <1>3 DEF n

ForgetsPause(s) == [s EXCEPT !.status = "active", !.pausedAt = NoTime]
LEMMA ForgettingMoves ==
    ASSUME now \in 0..MaxTime, NEW s, RowFits(s, now), s.status \in {"draft", "paused"}
    PROVE  RowMove(s, ForgetsPause(s), now) /\ ForgetsPause(s).released = s.released
  <1> DEFINE gap == 0
             n   == ForgetsPause(s)
  <1>1. gap \in Int /\ (gap = 0 \/ (s.status = "paused" /\ gap = now - s.pausedAt))
    OBVIOUS
  <1>2. /\ n.status = "active" /\ n.released = s.released /\ n.pausedAt = NoTime
        /\ n.pausedDuration = s.pausedDuration
        /\ n.pausedDuration \in 0..MaxTime => n \in Row
    BY DEF ForgetsPause, RowFits, Row, Status
  <1>3. n.pausedDuration = s.pausedDuration + gap
    BY <1>2, RowTypes DEF RowFits
  <1> HIDE DEF gap, n
  <1>4. RowMove(s, n, now)
    BY <1>1, <1>2, <1>3, ResumingMoves
  <1> QED  BY <1>2, <1>4 DEF n

(* What the transition table says of each action. *)
LEMMA TableSays ==
    ASSUME NEW status
    PROVE  /\ Legal(status, "start") =>
                /\ status \in {"draft", "active", "paused"}
                /\ nextStatus(status, "start") = "active"
           /\ Legal(status, "stop") =>
                /\ status \in {"draft", "active", "paused", "ended"}
                /\ nextStatus(status, "stop") = "ended"
           /\ Legal(status, "pause") =>
                /\ status \in {"active", "paused"}
                /\ nextStatus(status, "pause") = "paused"
  <1>1. \A action, next :
          <<status, action, next>> \in TRANSITIONS =>
            /\ action = "start" => next = "active" /\ status \in {"draft", "active", "paused"}
            /\ action = "stop" =>
                 next = "ended" /\ status \in {"draft", "active", "paused", "ended"}
            /\ action = "pause" => next = "paused" /\ status \in {"active", "paused"}
    BY DEF TRANSITIONS
  <1>2. ASSUME NEW action, Legal(status, action)
        PROVE  <<status, action, nextStatus(status, action)>> \in TRANSITIONS
    BY <1>2 DEF Legal, nextStatus
  <1> QED  BY <1>1, <1>2

-----------------------------------------------------------------------------
(* Locks                                                                   *)

(* A set of numbers with a member has a least one. *)
LEMMA LeastOf ==
    ASSUME NEW T, T \subseteq Nat, T # {}
    PROVE  Min(T) \in T /\ \A n \in T : Min(T) <= n
  <1> DEFINE R == OpToRel(<, Nat)
  <1>1. IsWellFoundedOn(R, Nat)
    BY Zenon, NatLessThanWellFounded
  <1>2. \E x \in T : \A y \in T : ~ (<<y, x>> \in R)
    <2> HIDE DEF R
    <2> QED  BY <1>1, WFMin
  <1>3. \A x, y \in Nat : <<y, x>> \in R <=> y < x
    BY Zenon DEF OpToRel
  <1> HIDE DEF R
  <1>4. PICK m \in T : \A n \in T : ~ (<<n, m>> \in R)
    BY <1>2
  <1>5. \A n \in T : ~ (n < m) /\ n \in Nat /\ m \in Nat
    BY <1>3, <1>4
  <1>6. \A n \in T : m <= n
    BY <1>5
  <1> QED  BY <1>6 DEF Min

LEMMA LockIsRemaining ==
    ASSUME NEW r, r.ids \in Seq(Streams), Remaining(r) # {}
    PROVE  NextLock(r) \in Remaining(r) /\ Remaining(r) \subseteq Streams
  <1>1. Remaining(r) \subseteq Streams
    BY ElementOfSeq, LenProperties DEF Remaining, ToSet
  <1> QED  BY <1>1, LeastOf, ApiAssumption DEF NextLock

(* The head of a queue is its first element, and waits in it. *)
LEMMA HeadWaits ==
    ASSUME NEW id \in Streams, queue \in [Streams -> Seq(1..MaxRequests)], NEW i
    PROVE  /\ Waits(id, i) => queue[id] # <<>>
           /\ Heads(id, i) <=> 1 \in DOMAIN queue[id] /\ queue[id][1] = i
           /\ DOMAIN queue[id] = 1..Len(queue[id]) /\ Len(queue[id]) \in Nat
           /\ Heads(id, i) => Waits(id, i)
  <1>1. queue[id] \in Seq(1..MaxRequests)
    OBVIOUS
  <1>2. DOMAIN queue[id] = 1..Len(queue[id]) /\ Len(queue[id]) \in Nat
    BY <1>1, LenProperties
  <1>3. queue[id] = <<>> <=> Len(queue[id]) = 0
    BY <1>1, EmptySeq
  <1>4. queue[id] # <<>> => Head(queue[id]) = queue[id][1]
    BY <1>1
  <1> QED  BY <1>2, <1>3, <1>4 DEF Heads, Waits

(* A request that runs has every lock it asked for. *)
LEMMA HoldersHead ==
    ASSUME LocksInv, NEW i \in DOMAIN requests, NEW op, Holds(i, op)
    PROVE  LET r == requests[i]
           IN  /\ r.op = op /\ r \in RequestRow /\ r.pc = "lock"
               /\ ToSet(r.ids) \subseteq Streams
               /\ \A id \in ToSet(r.ids) : Heads(id, i)
               /\ r.ids # <<>> /\ Target(i) \in ToSet(r.ids)
  <1> DEFINE r == requests[i]
  <1>1. r \in RequestRow /\ LockOK(i)
    BY ElementOfSeq, LenProperties DEF LocksInv
  <1>2. r.ids \in Seq(Streams) /\ r.op = op /\ r.pc = "lock"
    BY <1>1 DEF RequestRow, Holds
  <1>3. /\ Remaining(r) = {NextLock(r)} /\ Head(queue[NextLock(r)]) = i
        /\ Waits(NextLock(r), i) /\ \A id \in r.held : Heads(id, i)
    BY <1>1, <1>2 DEF Holds, IsNext, LockOK
  <1>4. NextLock(r) \in Streams /\ NextLock(r) \in ToSet(r.ids)
    BY <1>2, <1>3, LockIsRemaining DEF Remaining
  <1>5. Heads(NextLock(r), i)
    <2>1. queue \in [Streams -> Seq(1..MaxRequests)]
      BY DEF LocksInv
    <2>2. queue[NextLock(r)] # <<>>
      BY <1>3, <1>4, <2>1, HeadWaits
    <2> QED  BY <1>3, <2>2 DEF Heads
  <1>6. \A id \in ToSet(r.ids) : Heads(id, i)
    BY <1>3, <1>5 DEF Remaining
  <1>7. ToSet(r.ids) \subseteq Streams
    BY <1>2, ElementOfSeq, LenProperties DEF ToSet
  <1>8. r.ids # <<>> /\ Target(i) \in ToSet(r.ids)
    <2>1. PICK k \in DOMAIN r.ids : TRUE
      BY <1>4 DEF ToSet
    <2>2. DOMAIN r.ids = 1..Len(r.ids) /\ Len(r.ids) \in Nat
      BY <1>2, LenProperties
    <2>3. 1 \in DOMAIN r.ids
      BY <2>1, <2>2
    <2>4. r.ids # <<>>
      BY <1>2, <2>2, <2>3, EmptySeq
    <2> QED  BY <2>3, <2>4 DEF ToSet, Target
  <1> HIDE DEF r
  <1>9. r.op = op /\ r \in RequestRow /\ r.pc = "lock"
    BY <1>1, <1>2
  <1> QED  BY <1>6, <1>7, <1>8, <1>9 DEF r

(* A step of request i writes only streams whose lock it holds, and leaves *)
(* the other requests their places in the queues.                          *)
Touches(i) == \A id \in Streams : stream'[id] # stream[id] => Heads(id, i)
KeepsPlace(j) ==
    \A id \in Streams : /\ Heads(id, j) => Heads(id, j)'
                        /\ Waits(id, j) => Waits(id, j)'
QueuesOK == queue \in [Streams -> Seq(1..MaxRequests)]

LEMMA ReleaseKeepsPlaces ==
    ASSUME QueuesOK, NEW i, queue' = Released(i)
    PROVE  QueuesOK' /\ \A j : j # i => KeepsPlace(j)
  <1>1. ASSUME NEW id \in Streams
        PROVE  /\ queue'[id] \in Seq(1..MaxRequests)
               /\ \A j : j # i => (Heads(id, j) => Heads(id, j)')
               /\ \A j : j # i => (Waits(id, j) => Waits(id, j)')
    <2> DEFINE q == queue[id]
    <2>1. /\ q \in Seq(1..MaxRequests)
          /\ queue'[id] = IF q # <<>> /\ Head(q) = i THEN Tail(q) ELSE q
      BY DEF QueuesOK, Released
    <2>2. CASE q # <<>> /\ Head(q) = i
      <3>1. /\ queue'[id] = Tail(q) /\ Tail(q) \in Seq(1..MaxRequests)
            /\ Len(Tail(q)) = Len(q) - 1
            /\ \A k \in 1..Len(Tail(q)) : Tail(q)[k] = q[k + 1]
        BY <2>1, <2>2, HeadTailProperties
      <3>2. /\ DOMAIN q = 1..Len(q) /\ Len(q) \in Nat
            /\ DOMAIN Tail(q) = 1..Len(Tail(q))
        BY <2>1, <3>1, LenProperties
      <3>3. q[1] = i
        BY <2>1, <2>2
      <3>4. ASSUME NEW j, j # i, Waits(id, j)
            PROVE  Waits(id, j)'
        <4>1. PICK k \in 1..Len(q) : q[k] = j
          BY <3>2, <3>4 DEF Waits
        <4>2. k # 1
          BY <3>3, <3>4, <4>1
        <4>3. k - 1 \in 1..Len(Tail(q)) /\ Tail(q)[k - 1] = q[k]
          BY <3>1, <3>2, <4>1, <4>2
        <4> QED  BY <3>1, <3>2, <4>1, <4>3 DEF Waits
      <3>5. \A j : j # i => ~Heads(id, j)
        BY <2>2 DEF Heads
      <3> QED  BY <3>1, <3>4, <3>5
    <2>3. CASE ~(q # <<>> /\ Head(q) = i)
      BY <2>1, <2>3 DEF Heads, Waits
    <2> QED  BY <2>2, <2>3
  <1>2. DOMAIN queue' = Streams /\ queue' = [id \in Streams |-> queue'[id]]
    BY DEF Released
  <1>3. queue' \in [Streams -> Seq(1..MaxRequests)]
    BY <1>1, <1>2
  <1> QED  BY <1>1, <1>3 DEF QueuesOK, KeepsPlace

LEMMA JoiningKeepsPlaces ==
    ASSUME QueuesOK, NEW i \in 1..MaxRequests, NEW lock \in Streams, queue' = Joined(lock, i)
    PROVE  QueuesOK' /\ (\A j : KeepsPlace(j)) /\ Waits(lock, i)'
  <1>1. queue' \in [Streams -> Seq(1..MaxRequests)]
    BY AppendProperties DEF QueuesOK, Joined
  <1> DEFINE q == queue[lock]
  <1>2. /\ q \in Seq(1..MaxRequests) /\ queue'[lock] = Append(q, i)
        /\ \A id \in Streams \ {lock} : queue'[id] = queue[id]
    BY DEF QueuesOK, Joined
  <1>3. /\ Append(q, i) \in Seq(1..MaxRequests) /\ Append(q, i) # <<>>
        /\ Len(Append(q, i)) = Len(q) + 1 /\ Append(q, i)[Len(q) + 1] = i
        /\ \A k \in 1..Len(q) : Append(q, i)[k] = q[k]
        /\ q # <<>> => Head(Append(q, i)) = Head(q)
    BY <1>2, AppendProperties, HeadTailAppend
  <1>4. /\ DOMAIN q = 1..Len(q) /\ Len(q) \in Nat
        /\ DOMAIN Append(q, i) = 1..(Len(q) + 1)
    BY <1>2, <1>3, LenProperties
  <1>5. \A j : /\ Heads(lock, j) => Heads(lock, j)'
               /\ Waits(lock, j) => Waits(lock, j)'
    BY <1>2, <1>3, <1>4 DEF Heads, Waits
  <1>6. \A j : \A id \in Streams \ {lock} :
               /\ Heads(id, j) => Heads(id, j)'
               /\ Waits(id, j) => Waits(id, j)'
    BY <1>2 DEF Heads, Waits
  <1>7. Waits(lock, i)'
    BY <1>2, <1>3, <1>4 DEF Waits
  <1> QED  BY <1>1, <1>5, <1>6, <1>7 DEF QueuesOK, KeepsPlace

(* Whoever keeps its place keeps its locks, and the row it has in hand.    *)
LEMMA BystanderIsOK ==
    ASSUME LocksInv, NEW j \in DOMAIN requests, requests'[j] = requests[j], KeepsPlace(j),
           \A id \in Streams : Heads(id, j) => stream'[id] = stream[id]
    PROVE  LockOK(j)'
  <1> DEFINE r == requests[j]
  <1>1. r \in RequestRow /\ LockOK(j)
    BY ElementOfSeq, LenProperties DEF LocksInv
  <1>2. r.ids \in Seq(Streams) /\ r.held \subseteq Streams
    BY <1>1 DEF RequestRow
  <1>3. r.pc = "lock" =>
          /\ Remaining(r) # {} /\ NextLock(r) \in Streams
          /\ \A id \in r.held : Heads(id, j)'
          /\ Waits(NextLock(r), j)'
    <2>1. r.pc = "lock" => Remaining(r) # {} /\ NextLock(r) \in Streams
      BY <1>1, <1>2, LockIsRemaining DEF LockOK
    <2> QED  BY <1>1, <1>2, <2>1 DEF LockOK, KeepsPlace
  <1>4. r.pc \in {"chain", "horizon"} =>
          /\ r.ids # <<>> /\ Heads(r.ids[1], j)'
          /\ r.row = stream'[r.ids[1]] /\ r.row.status = "ended"
    <2>1. r.ids # <<>> => r.ids[1] \in Streams
      BY <1>2
    <2> QED  BY <1>1, <2>1 DEF LockOK, KeepsPlace, Target
  <1> HIDE DEF r
  <1> QED  BY <1>3, <1>4 DEF LockOK, Target, r

LEMMA RequestSteps ==
    ASSUME LocksInv, NEW i \in DOMAIN requests, NEW r \in RequestRow,
           requests' = [requests EXCEPT ![i] = r], QueuesOK',
           \A j \in DOMAIN requests \ {i} : KeepsPlace(j),
           Touches(i), LockOK(i)'
    PROVE  LocksInv'
  <1>1. requests \in Seq(RequestRow) /\ DOMAIN requests = 1..Len(requests)
    BY LenProperties DEF LocksInv
  <1>2. requests' \in Seq(RequestRow) /\ Len(requests') = Len(requests)
    BY <1>1, ExceptSeq
  <1>3. DOMAIN requests' = DOMAIN requests
    BY <1>1
  <1>4. ASSUME NEW j \in DOMAIN requests, j # i
        PROVE  LockOK(j)'
    <2>1. requests'[j] = requests[j]
      BY <1>4
    <2>2. \A id \in Streams : Heads(id, j) => stream'[id] = stream[id]
      BY <1>4 DEF Touches, Heads
    <2> QED  BY <1>4, <2>1, <2>2, BystanderIsOK
  <1> QED  BY <1>2, <1>3, <1>4 DEF LocksInv, QueuesOK

LEMMA DoneIsRequest == Done \in RequestRow /\ Done.pc = "done"
  <1>1. Opened("draft") \in Row
    BY ApiAssumption DEF Opened, Row, Status, NoTime
  <1>2. <<>> \in Seq(Streams)
    BY EmptySeq
  <1> QED  BY <1>1, <1>2 DEF Done, Request, RequestRow

LEMMA RequestIsTyped ==
    ASSUME LocksInv, NEW i \in DOMAIN requests
    PROVE  requests[i] \in RequestRow /\ LockOK(i) /\ QueuesOK /\ i \in 1..MaxRequests
  <1>1. requests[i] \in RequestRow /\ i \in 1..Len(requests) /\ Len(requests) \in Nat
    BY ElementOfSeq, LenProperties DEF LocksInv
  <1> QED  BY <1>1, ApiAssumption DEF LocksInv, QueuesOK

LEMMA AnswerKeepsLocks ==
    ASSUME LocksInv, NEW i \in DOMAIN requests, Answer(i), Touches(i)
    PROVE  LocksInv'
  <1>1. QueuesOK' /\ \A j : j # i => KeepsPlace(j)
    BY RequestIsTyped, ReleaseKeepsPlaces DEF Answer
  <1>2. requests' = [requests EXCEPT ![i] = Done] /\ requests'[i] = Done
    BY DEF Answer
  <1>3. LockOK(i)'
    BY <1>2, DoneIsRequest DEF LockOK
  <1> QED  BY <1>1, <1>2, <1>3, DoneIsRequest, RequestSteps

LEMMA LaterKeepsLocks ==
    ASSUME LocksInv, NEW i \in DOMAIN requests, Touches(i),
           NEW answer \in {"ok", "refused", "failed"}, AnswerLater(i, answer)
    PROVE  LocksInv'
  <1> DEFINE r == [requests[i] EXCEPT !.pc = "store", !.answer = answer]
  <1>1. QueuesOK' /\ \A j : j # i => KeepsPlace(j)
    BY RequestIsTyped, ReleaseKeepsPlaces DEF AnswerLater
  <1>2. r \in RequestRow /\ r.pc = "store"
    BY RequestIsTyped DEF RequestRow
  <1>3. requests' = [requests EXCEPT ![i] = r] /\ requests'[i] = r
    BY DEF AnswerLater
  <1> HIDE DEF r
  <1>4. LockOK(i)'
    BY <1>2, <1>3 DEF LockOK
  <1> QED  BY <1>1, <1>2, <1>3, <1>4, RequestSteps

LEMMA StoreKeepsLocks ==
    ASSUME LocksInv, NEW i \in DOMAIN requests, Store(i)
    PROVE  LocksInv'
  <1>1. QueuesOK' /\ \A j : KeepsPlace(j)
    BY RequestIsTyped DEF Store, QueuesOK, KeepsPlace, Heads, Waits
  <1>2. requests' = [requests EXCEPT ![i] = Done] /\ requests'[i] = Done /\ Touches(i)
    BY DEF Store, Touches
  <1>3. LockOK(i)'
    BY <1>2, DoneIsRequest DEF LockOK
  <1> QED  BY <1>1, <1>2, <1>3, DoneIsRequest, RequestSteps

(* The row that is written is the row the request keeps in hand. *)
LEMMA AwaitKeepsLocks ==
    ASSUME LocksInv, NEW i \in DOMAIN requests, Touches(i), NEW pc \in {"chain", "horizon"},
           NEW row \in Row, row.status = "ended", Await(i, pc, row),
           Target(i) \in Streams, Heads(Target(i), i), requests[i].ids # <<>>,
           stream \in [Streams -> Row]
    PROVE  LocksInv'
  <1> DEFINE r == [requests[i] EXCEPT !.pc = pc, !.row = row]
  <1>1. QueuesOK' /\ \A j : KeepsPlace(j)
    BY RequestIsTyped DEF Await, QueuesOK, KeepsPlace, Heads, Waits
  <1>2. r \in RequestRow /\ r.pc = pc /\ r.row = row /\ r.ids = requests[i].ids
    BY RequestIsTyped DEF RequestRow
  <1>3. requests' = [requests EXCEPT ![i] = r] /\ requests'[i] = r
    BY DEF Await
  <1>4. PICK id \in Streams : id = Target(i)
    OBVIOUS
  <1>5. stream'[id] = row
    <2>1. stream' = [stream EXCEPT ![Target(i)] = row]
      BY DEF Await
    <2> QED  BY <1>4, <2>1
  <1>6. Heads(id, i)'
    BY <1>1, <1>4 DEF KeepsPlace
  <1> HIDE DEF r
  <1>7. requests'[i].ids[1] = id /\ requests'[i].ids # <<>>
    BY <1>2, <1>3, <1>4 DEF Target
  <1>8. LockOK(i)'
    BY <1>2, <1>3, <1>5, <1>6, <1>7 DEF LockOK, Target
  <1> QED  BY <1>1, <1>2, <1>3, <1>8, RequestSteps

LEMMA AcquireKeepsLocks ==
    ASSUME LocksInv, NEW i \in DOMAIN requests, Acquire(i)
    PROVE  LocksInv'
  <1> DEFINE r    == requests[i]
             got  == [r EXCEPT !.held = @ \cup {NextLock(r)}]
  <1>1. r \in RequestRow /\ LockOK(i) /\ QueuesOK /\ i \in 1..MaxRequests
    BY RequestIsTyped
  <1>2. /\ r.pc = "lock" /\ Head(queue[NextLock(r)]) = i /\ Remaining(got) # {}
        /\ requests' = [requests EXCEPT ![i] = got] /\ queue' = Joined(NextLock(got), i)
        /\ stream' = stream
    BY DEF Acquire, IsNext
  <1>3. r.ids \in Seq(Streams) /\ r.held \subseteq Streams
    BY <1>1 DEF RequestRow
  <1>4. NextLock(r) \in Streams /\ Waits(NextLock(r), i) /\ \A id \in r.held : Heads(id, i)
    BY <1>1, <1>2, <1>3, LockIsRemaining DEF LockOK
  <1>5. Heads(NextLock(r), i)
    BY <1>1, <1>2, <1>4, HeadWaits DEF Heads, QueuesOK
  <1>6. /\ got \in RequestRow /\ got.pc = "lock" /\ got.ids = r.ids
        /\ got.held = r.held \cup {NextLock(r)}
    BY <1>1, <1>2, <1>4 DEF RequestRow
  <1> HIDE DEF got
  <1>7. PICK lock \in Streams : lock = NextLock(got)
    BY <1>2, <1>3, <1>6, LockIsRemaining
  <1>8. QueuesOK' /\ (\A j : KeepsPlace(j)) /\ Waits(lock, i)'
    BY <1>1, <1>2, <1>7, JoiningKeepsPlaces
  <1>9. requests'[i] = got
    BY <1>2
  <1>10. \A id \in got.held : Heads(id, i)'
    BY <1>3, <1>4, <1>5, <1>6, <1>8 DEF KeepsPlace
  <1>11. /\ requests'[i].pc = "lock" /\ Remaining(requests'[i]) # {}
         /\ \A id \in requests'[i].held : Heads(id, i)'
         /\ NextLock(requests'[i]) = lock
    BY <1>2, <1>6, <1>7, <1>9, <1>10
  <1>12. LockOK(i)'
    BY <1>8, <1>11 DEF LockOK
  <1>13. Touches(i)
    BY <1>2 DEF Touches
  <1> QED  BY <1>2, <1>6, <1>8, <1>12, <1>13, RequestSteps

LEMMA ArriveKeepsLocks ==
    ASSUME LocksInv, NEW op \in SingleOps \cup WrappedOps \cup BatchOps \cup GroupOps,
           NEW ids \in Seq(Streams), ids # <<>>, NEW key \in Keys,
           NEW amount \in Amounts \cup {All}, Arrive(op, ids, key, amount)
    PROVE  LocksInv'
  <1>1. /\ requests \in Seq(RequestRow) /\ QueuesOK /\ stream' = stream
        /\ Len(requests) \in Nat /\ DOMAIN requests = 1..Len(requests)
    BY LenProperties DEF LocksInv, QueuesOK, Arrive
  <1>2. PICK i \in 1..MaxRequests : i = Len(requests) + 1
    BY <1>1, ApiAssumption DEF Arrive
  <1>3. PICK new \in RequestRow :
          /\ requests' = Append(requests, new)
          /\ \/ new.pc = "done" /\ queue' = queue
             \/ /\ new.pc = "lock" /\ new.held = {} /\ new.ids = ids
                /\ queue' = Joined(NextLock(new), i)
    <2> DEFINE r == Request(op, ids, key, amount)
    <2>1. r \in RequestRow /\ r.pc = "lock" /\ r.held = {} /\ r.ids = ids
      <3>1. Opened("draft") \in Row
        BY ApiAssumption DEF Opened, Row, Status, NoTime
      <3> QED  BY <3>1 DEF Request, RequestRow
    <2>2. CASE Known(r)
      <3>1. requests' = Append(requests, Done) /\ queue' = queue
        BY <1>2, <2>2 DEF Arrive
      <3> QED  BY <3>1, DoneIsRequest
    <2>3. CASE ~Known(r)
      <3>1. requests' = Append(requests, r) /\ queue' = Joined(NextLock(r), i)
        BY <1>2, <2>3 DEF Arrive
      <3> HIDE DEF r
      <3> QED  BY <2>1, <3>1
    <2> QED  BY <2>2, <2>3
  <1>4. /\ requests' \in Seq(RequestRow) /\ Len(requests') = i /\ requests'[i] = new
        /\ \A j \in DOMAIN requests : requests'[j] = requests[j]
    BY <1>1, <1>2, <1>3, AppendProperties
  <1>5. DOMAIN requests' = DOMAIN requests \cup {i}
    BY <1>1, <1>2, <1>4, LenProperties
  <1>6. QueuesOK' /\ (\A j : KeepsPlace(j)) /\ LockOK(i)'
    <2>1. CASE new.pc = "done" /\ queue' = queue
      BY <1>1, <1>2, <1>4, <2>1 DEF QueuesOK, KeepsPlace, Heads, Waits, LockOK
    <2>2. CASE /\ new.pc = "lock" /\ new.held = {} /\ new.ids = ids
               /\ queue' = Joined(NextLock(new), i)
      <3>1. Remaining(new) # {}
        <4>1. 1 \in DOMAIN ids
          BY EmptySeq, LenProperties
        <4> QED  BY <2>2, <4>1 DEF Remaining, ToSet
      <3>2. PICK lock \in Streams : lock = NextLock(new)
        BY <2>2, <3>1, LockIsRemaining
      <3>3. QueuesOK' /\ (\A j : KeepsPlace(j)) /\ Waits(lock, i)'
        BY <1>1, <2>2, <3>2, JoiningKeepsPlaces
      <3> QED  BY <1>4, <2>2, <3>1, <3>2, <3>3 DEF LockOK
    <2> QED  BY <1>3, <2>1, <2>2
  <1>7. ASSUME NEW j \in DOMAIN requests
        PROVE  LockOK(j)'
    BY <1>1, <1>4, <1>6, BystanderIsOK
  <1> QED  BY <1>2, <1>4, <1>5, <1>6, <1>7 DEF LocksInv, QueuesOK

-----------------------------------------------------------------------------
(* What each stretch of a request does                                     *)

RowsStep ==
    /\ now' = now /\ stream' \in [Streams -> Row]
    /\ \A id \in Streams : RowMove(stream[id], stream'[id], now)
    /\ paid' = [id \in Streams |-> stream'[id].released]

(* A stretch that counts an effect of a guarded request looked its key up, *)
(* and stores the response or leaves the stream cancelled.                 *)
OnceStep(r) ==
    /\ idempotency \subseteq idempotency'
    /\ \/ NotCounted
       \/ /\ Counted(r)
          /\ r.op \in SingleOps \cup GroupOps =>
               /\ ~Known(r)
               /\ r.op = "cancel" => stream[r.ids[1]].status # "cancelled"
               /\ \/ Token(r) \in idempotency'
                  \/ /\ r.op = "cancel" /\ r.ids[1] \in Streams
                     /\ stream'[r.ids[1]].status = "cancelled"

LEMMA RowsStepKeepsRows ==
    ASSUME RowsInv, RowsStep
    PROVE  RowsInv'
  BY DEF RowsInv, RowsStep, RowMove

LEMMA RowsStandStill ==
    ASSUME RowsInv, now' = now, stream' = stream, paid' = paid
    PROVE  RowsStep
  <1>1. now \in Nat /\ \A id \in Streams : RowMove(stream[id], stream[id], now)
    BY RowStillFits, ApiAssumption DEF RowsInv
  <1> QED  BY <1>1 DEF RowsInv, RowsStep

LEMMA OnceStepKeepsOnce ==
    ASSUME OnceInv, NEW r, OnceStep(r), RowsInv, RowsStep
    PROVE  OnceInv'
  <1>1. \A id \in Streams : stream[id].status = "cancelled" => stream'[id].status = "cancelled"
    BY DEF RowsStep, RowMove
  <1>2. CASE NotCounted
    BY <1>1, <1>2 DEF OnceInv, AppliedOK, AppliedOnce, OnceStep, NotCounted
  <1>3. CASE Counted(r) /\ r.op \notin SingleOps \cup GroupOps
    <2>1. Token(r)[1] = r.op
      BY DEF Token
    <2> QED  BY <1>1, <1>3, <2>1 DEF OnceInv, AppliedOK, AppliedOnce, OnceStep, Counted
  <1>4. CASE Counted(r) /\ r.op \in SingleOps \cup GroupOps /\ ~NotCounted
    <2>1. Token(r)[1] = r.op /\ (r.op = "cancel" => Token(r)[2] = r.ids)
      BY DEF Token, BatchOps
    <2>2. /\ Token(r) \notin idempotency
          /\ r.op = "cancel" => stream[r.ids[1]].status # "cancelled"
          /\ \/ Token(r) \in idempotency'
             \/ /\ r.op = "cancel" /\ r.ids[1] \in Streams
                /\ stream'[r.ids[1]].status = "cancelled"
      BY <1>4 DEF OnceStep, Known
    <2>3. Token(r) \notin applied
      BY <1>4, <2>1, <2>2 DEF OnceInv, AppliedOK
    <2>4. appliedTwice' = appliedTwice /\ applied' = applied \cup {Token(r)}
      BY <1>4, <2>3 DEF Counted
    <2>5. AppliedOK'
      BY <1>1, <2>1, <2>2, <2>4 DEF OnceInv, AppliedOK, OnceStep
    <2> QED  BY <2>4, <2>5 DEF OnceInv, AppliedOnce
  <1> QED  BY <1>2, <1>3, <1>4 DEF OnceStep

Stretch(i) == /\ RowsStep /\ OnceStep(requests[i]) /\ LocksInv'
              /\ settledOnChain' \subseteq Streams

LEMMA NoEffectIsStretch ==
    ASSUME ApiInv, NEW i \in DOMAIN requests, NoEffect(i)
    PROVE  Stretch(i)
  <1>1. RowsStep
    BY RowsStandStill DEF ApiInv, NoEffect
  <1>2. Touches(i) /\ Answer(i) /\ LocksInv
    BY DEF ApiInv, NoEffect, Touches
  <1>3. LocksInv'
    BY <1>2, AnswerKeepsLocks
  <1>4. OnceStep(requests[i]) /\ settledOnChain' \subseteq Streams
    BY DEF ApiInv, NoEffect, OnceStep
  <1> QED  BY <1>1, <1>3, <1>4 DEF Stretch

LEMMA LaterIsStretch ==
    ASSUME ApiInv, NEW i \in DOMAIN requests, NEW answer \in {"ok", "refused", "failed"},
           Later(i, answer)
    PROVE  Stretch(i)
  <1>1. RowsStep
    BY RowsStandStill DEF ApiInv, Later
  <1>2. Touches(i) /\ AnswerLater(i, answer) /\ LocksInv
    BY DEF ApiInv, Later, Touches
  <1>3. LocksInv'
    BY <1>2, LaterKeepsLocks
  <1>4. OnceStep(requests[i]) /\ settledOnChain' \subseteq Streams
    BY DEF ApiInv, Later, OnceStep
  <1> QED  BY <1>1, <1>3, <1>4 DEF Stretch

(* New rows for the streams of a request, which pay nothing out. *)
Changed(i, rows) ==
    /\ rows \in [Streams -> Row]
    /\ \A id \in Streams : /\ RowMove(stream[id], rows[id], now)
                           /\ rows[id].released = stream[id].released
                           /\ rows[id] # stream[id] => id \in ToSet(requests[i].ids)

LEMMA ApplyIsStretch ==
    ASSUME ApiInv, NEW i \in DOMAIN requests, NEW op, Holds(i, op), op # "cancel",
           op \in SingleOps \cup GroupOps => ~Recheck(i),
           NEW rows, Changed(i, rows), Apply(i, rows), paid' = paid
    PROVE  Stretch(i)
  <1>1. /\ requests[i].op = op /\ \A id \in ToSet(requests[i].ids) : Heads(id, i)
    BY HoldersHead DEF ApiInv
  <1>2. stream' = rows /\ Answer(i) /\ now' = now
    BY DEF Apply
  <1>3. RowsStep
    BY <1>2 DEF ApiInv, RowsInv, RowsStep, Changed
  <1>4. Touches(i)
    BY <1>1, <1>2 DEF Changed, Touches
  <1>5. LocksInv'
    BY <1>2, <1>4, AnswerKeepsLocks DEF ApiInv
  <1>6. OnceStep(requests[i])
    BY <1>1 DEF OnceStep, Apply, Recheck
  <1> QED  BY <1>3, <1>5, <1>6 DEF Stretch, ApiInv, Apply

LEMMA OneRowChanges ==
    ASSUME ApiInv, NEW i \in DOMAIN requests, NEW op, Holds(i, op), NEW row,
           RowMove(stream[Target(i)], row, now), row.released = stream[Target(i)].released
    PROVE  Changed(i, [stream EXCEPT ![Target(i)] = row])
  <1>1. Target(i) \in ToSet(requests[i].ids) /\ Target(i) \in Streams
    BY HoldersHead DEF ApiInv
  <1>2. now \in Nat /\ \A id \in Streams : RowMove(stream[id], stream[id], now)
    BY RowStillFits, ApiAssumption DEF ApiInv, RowsInv
  <1>3. row \in Row /\ stream \in [Streams -> Row]
    BY DEF RowMove, RowFits, ApiInv, RowsInv
  <1> QED  BY <1>1, <1>2, <1>3 DEF Changed

LEMMA SomeRowsChange ==
    ASSUME ApiInv, NEW i \in DOMAIN requests, NEW op, Holds(i, op),
           NEW ids, ids \subseteq ToSet(requests[i].ids), NEW rows,
           \A id \in ids : /\ RowMove(stream[id], rows[id], now)
                          /\ rows[id].released = stream[id].released
    PROVE  Changed(i, Updated(ids, rows))
  <1>1. ToSet(requests[i].ids) \subseteq Streams
    BY HoldersHead DEF ApiInv
  <1>2. now \in Nat /\ \A id \in Streams : RowMove(stream[id], stream[id], now)
    BY RowStillFits, ApiAssumption DEF ApiInv, RowsInv
  <1>3. (\A id \in ids : rows[id] \in Row) /\ stream \in [Streams -> Row]
    BY DEF RowMove, RowFits, ApiInv, RowsInv
  <1> QED  BY <1>1, <1>2, <1>3 DEF Changed, Updated

-----------------------------------------------------------------------------
(* The routes                                                              *)

LEMMA StreamFits ==
    ASSUME ApiInv
    PROVE  /\ now \in 0..MaxTime /\ now \in Nat
           /\ \A id \in Streams : RowFits(stream[id], now)
  BY ApiAssumption DEF ApiInv, RowsInv

LEMMA StartIsStretch ==
    ASSUME ApiInv, NEW i \in DOMAIN requests, start(i)
    PROVE  Stretch(i)
  <1> DEFINE s == stream[Target(i)]
  <1>1. Holds(i, "start") /\ Target(i) \in Streams
    BY HoldersHead DEF start, ApiInv
  <1>2. CASE NoEffect(i)
    BY <1>2, NoEffectIsStretch
  <1>3. CASE /\ ~Recheck(i) /\ s.status \in {"draft", "paused"}
             /\ Apply(i, [stream EXCEPT ![Target(i)] = Started(s)]) /\ paid' = paid
    <2>1. RowMove(s, Started(s), now) /\ Started(s).released = s.released
      BY <1>1, <1>3, StreamFits, StartedMoves
    <2>2. Changed(i, [stream EXCEPT ![Target(i)] = Started(s)])
      BY <1>1, <2>1, OneRowChanges
    <2> QED  BY <1>1, <1>3, <2>2, ApplyIsStretch
  <1> QED  BY <1>2, <1>3 DEF start

LEMMA TableIsStretch ==
    ASSUME ApiInv, NEW i \in DOMAIN requests, NEW action \in {"stop", "pause"},
           NEW row, ByTable(i, action, row), Target(i) \in Streams =>
             (/\ Legal(stream[Target(i)].status, action)
              /\ nextStatus(stream[Target(i)].status, action) # stream[Target(i)].status
              => /\ RowMove(stream[Target(i)], row, now)
                 /\ row.released = stream[Target(i)].released)
    PROVE  Stretch(i)
  <1> DEFINE s == stream[Target(i)]
  <1>1. Holds(i, action) /\ Target(i) \in Streams
    BY HoldersHead DEF ByTable, ApiInv
  <1>2. CASE NoEffect(i)
    BY <1>2, NoEffectIsStretch
  <1>3. CASE /\ ~Recheck(i) /\ Legal(s.status, action) /\ nextStatus(s.status, action) # s.status
             /\ Apply(i, [stream EXCEPT ![Target(i)] = row]) /\ paid' = paid
    <2>1. Changed(i, [stream EXCEPT ![Target(i)] = row])
      BY <1>1, <1>3, OneRowChanges
    <2> QED  BY <1>1, <1>3, <2>1, ApplyIsStretch
  <1> QED  BY <1>2, <1>3 DEF ByTable

LEMMA StopIsStretch ==
    ASSUME ApiInv, NEW i \in DOMAIN requests, stop(i)
    PROVE  Stretch(i)
  <1> DEFINE s == stream[Target(i)]
  <1>1. ASSUME Target(i) \in Streams, Legal(s.status, "stop"), nextStatus(s.status, "stop") # s.status
        PROVE  RowMove(s, Stopped(s), now) /\ Stopped(s).released = s.released
    BY <1>1, TableSays, StreamFits, StoppedMoves
  <1> QED  BY <1>1, TableIsStretch DEF stop

LEMMA PauseIsStretch ==
    ASSUME ApiInv, NEW i \in DOMAIN requests, pause(i)
    PROVE  Stretch(i)
  <1> DEFINE s == stream[Target(i)]
  <1>1. ASSUME Target(i) \in Streams, Legal(s.status, "pause"), nextStatus(s.status, "pause") # s.status
        PROVE  RowMove(s, Paused(s), now) /\ Paused(s).released = s.released
    BY <1>1, TableSays, StreamFits, PausedMoves
  <1> QED  BY <1>1, TableIsStretch DEF pause

(* Batches and groups: the rows that move, move as one stream would.       *)
LEMMA AllRowsMove ==
    ASSUME ApiInv, NEW id \in Streams
    PROVE  /\ stream[id].status \in {"draft", "paused"} =>
                /\ RowMove(stream[id], AllResumed[id], now)
                /\ AllResumed[id].released = stream[id].released
           /\ stream[id].status \in {"draft", "active", "paused"} =>
                /\ RowMove(stream[id], AllStopped[id], now)
                /\ AllStopped[id].released = stream[id].released
           /\ stream[id].status = "active" =>
                /\ RowMove(stream[id], AllPaused[id], now)
                /\ AllPaused[id].released = stream[id].released
  <1>1. /\ AllResumed[id] = ForgetsPause(stream[id])
        /\ AllStopped[id] = Stopped(stream[id])
        /\ AllPaused[id] = Paused(stream[id])
    BY DEF AllResumed, AllStopped, AllPaused, ForgetsPause
  <1> QED  BY <1>1, StreamFits, ForgettingMoves, StoppedMoves, PausedMoves

LEMMA BatchIsStretch ==
    ASSUME ApiInv, NEW i \in DOMAIN requests, NEW op \in BatchOps, NEW accepted, NEW moving,
           NEW rows, Batch(i, op, accepted, moving, rows),
           \A id \in Streams : stream[id].status \in moving =>
              /\ RowMove(stream[id], rows[id], now)
              /\ rows[id].released = stream[id].released
    PROVE  Stretch(i)
  <1> DEFINE ids == {id \in ToSet(requests[i].ids) : stream[id].status \in moving}
  <1>1. Holds(i, op) /\ ToSet(requests[i].ids) \subseteq Streams
    BY HoldersHead DEF Batch, ApiInv
  <1>2. CASE NoEffect(i)
    BY <1>2, NoEffectIsStretch
  <1>3. CASE Apply(i, Updated(ids, rows)) /\ paid' = paid
    <2>1. /\ ids \subseteq ToSet(requests[i].ids)
          /\ \A id \in ids : /\ RowMove(stream[id], rows[id], now)
                            /\ rows[id].released = stream[id].released
      BY <1>1
    <2> HIDE DEF ids
    <2>2. Changed(i, Updated(ids, rows))
      BY <1>1, <2>1, SomeRowsChange
    <2>3. op # "cancel" /\ op \notin SingleOps \cup GroupOps
      BY DEF BatchOps, SingleOps, GroupOps
    <2> QED  BY <1>1, <1>3, <2>2, <2>3, ApplyIsStretch
  <1> QED  BY <1>2, <1>3 DEF Batch

LEMMA BatchesAreStretches ==
    ASSUME ApiInv, NEW i \in DOMAIN requests, batch_start(i) \/ batch_stop(i)
    PROVE  Stretch(i)
  <1>1. CASE batch_start(i)
    <2>1. "batch_start" \in BatchOps
      BY DEF BatchOps
    <2> QED  BY <1>1, <2>1, AllRowsMove, BatchIsStretch DEF batch_start
  <1>2. CASE batch_stop(i)
    <2>1. "batch_stop" \in BatchOps
      BY DEF BatchOps
    <2>2. \A id \in Streams : stream[id].status \in {"draft", "active"} =>
             /\ RowMove(stream[id], AllStopped[id], now)
             /\ AllStopped[id].released = stream[id].released
      BY AllRowsMove
    <2> QED  BY <1>2, <2>1, <2>2, BatchIsStretch DEF batch_stop
  <1> QED  BY <1>1, <1>2

LEMMA GroupIsStretch ==
    ASSUME ApiInv, NEW i \in DOMAIN requests, NEW op \in GroupOps, NEW action,
           NEW rows, GroupAction(i, op, action, rows),
           \A id \in Streams :
              /\ Legal(stream[id].status, action)
              /\ nextStatus(stream[id].status, action) # stream[id].status
              => /\ RowMove(stream[id], rows[id], now)
                 /\ rows[id].released = stream[id].released
    PROVE  Stretch(i)
  <1> DEFINE all == ToSet(requests[i].ids)
             ids == {id \in all : nextStatus(stream[id].status, action) # stream[id].status}
  <1>1. Holds(i, op) /\ all \subseteq Streams
    BY HoldersHead DEF GroupAction, ApiInv
  <1>2. CASE NoEffect(i)
    BY <1>2, NoEffectIsStretch
  <1>3. CASE /\ ~Recheck(i) /\ \A id \in all : Legal(stream[id].status, action)
             /\ Apply(i, Updated(ids, rows)) /\ paid' = paid
    <2>1. /\ ids \subseteq all
          /\ \A id \in ids : /\ RowMove(stream[id], rows[id], now)
                            /\ rows[id].released = stream[id].released
      BY <1>1, <1>3
    <2> HIDE DEF ids
    <2>2. Changed(i, Updated(ids, rows))
      BY <1>1, <2>1, SomeRowsChange
    <2>3. op # "cancel"
      BY DEF GroupOps
    <2> QED  BY <1>1, <1>3, <2>2, <2>3, ApplyIsStretch
  <1> QED  BY <1>2, <1>3 DEF GroupAction

LEMMA GroupsAreStretches ==
    ASSUME ApiInv, NEW i \in DOMAIN requests,
           group_start(i) \/ group_pause(i) \/ group_stop(i)
    PROVE  Stretch(i)
  <1>1. {"group_start", "group_pause", "group_stop"} \subseteq GroupOps
    BY DEF GroupOps
  <1>2. CASE group_start(i)
    <2>1. \A id \in Streams :
            /\ Legal(stream[id].status, "start")
            /\ nextStatus(stream[id].status, "start") # stream[id].status
            => /\ RowMove(stream[id], AllResumed[id], now)
               /\ AllResumed[id].released = stream[id].released
      BY TableSays, AllRowsMove
    <2> QED  BY <1>1, <1>2, <2>1, GroupIsStretch DEF group_start
  <1>3. CASE group_pause(i)
    <2>1. \A id \in Streams :
            /\ Legal(stream[id].status, "pause")
            /\ nextStatus(stream[id].status, "pause") # stream[id].status
            => /\ RowMove(stream[id], AllPaused[id], now)
               /\ AllPaused[id].released = stream[id].released
      BY TableSays, AllRowsMove
    <2> QED  BY <1>1, <1>3, <2>1, GroupIsStretch DEF group_pause
  <1>4. CASE group_stop(i)
    <2>1. \A id \in Streams :
            /\ Legal(stream[id].status, "stop")
            /\ nextStatus(stream[id].status, "stop") # stream[id].status
            => /\ RowMove(stream[id], AllStopped[id], now)
               /\ AllStopped[id].released = stream[id].released
      BY TableSays, AllRowsMove
    <2> QED  BY <1>1, <1>4, <2>1, GroupIsStretch DEF group_stop
  <1> QED  BY <1>2, <1>3, <1>4

(* A cancellation pays what has vested and is not yet paid.                *)
LEMMA CancelIsStretch ==
    ASSUME ApiInv, NEW i \in DOMAIN requests, cancel(i)
    PROVE  Stretch(i)
  <1> DEFINE id     == Target(i)
             s      == stream[id]
             vested == Vested(s, now)
             n      == [s EXCEPT !.status = "cancelled", !.released = vested]
  <1>1. /\ Holds(i, "cancel") /\ id \in Streams /\ id \in ToSet(requests[i].ids)
        /\ requests[i].op = "cancel" /\ \A k \in ToSet(requests[i].ids) : Heads(k, i)
    BY HoldersHead DEF cancel, ApiInv
  <1>2. CASE NoEffect(i)
    BY <1>2, NoEffectIsStretch
  <1>3. CASE ~NoEffect(i)
    <2>1. /\ ~Recheck(i) /\ s.status \in {"active", "paused"}
          /\ paid' = [paid EXCEPT ![id] = @ + vested - s.released]
          /\ stream' = [stream EXCEPT ![id] = n] /\ Counted(requests[i]) /\ Answer(i)
          /\ now' = now /\ settledOnChain' = settledOnChain
          /\ \/ idempotency' = idempotency \cup {Token(requests[i])}
             \/ idempotency' = idempotency
      BY <1>3 DEF cancel, Apply
    <2>2. /\ RowFits(s, now) /\ now \in 0..MaxTime /\ now \in Nat
          /\ stream \in [Streams -> Row] /\ paid = [k \in Streams |-> stream[k].released]
          /\ \A k \in Streams : RowMove(stream[k], stream[k], now)
      BY <1>1, StreamFits, RowStillFits DEF ApiInv, RowsInv
    <2>3. /\ RowMove(s, n, now) /\ n.status = "cancelled" /\ n.released = vested
          /\ vested \in Nat
      BY <2>1, <2>2, CancelledMoves
    <2>4. n \in Row /\ s.released \in Nat
      BY <2>2, <2>3, RowTypes DEF RowMove, RowFits
    <2> HIDE DEF n, vested
    <2>5. paid'[id] = n.released
      BY <1>1, <2>1, <2>2, <2>3, <2>4
    <2>6. RowsStep
      BY <1>1, <2>1, <2>2, <2>3, <2>4, <2>5 DEF RowsStep
    <2>7. Touches(i)
      BY <1>1, <2>1, <2>2 DEF Touches
    <2>8. LocksInv'
      BY <2>1, <2>7, AnswerKeepsLocks DEF ApiInv
    <2>9. stream'[id].status = "cancelled" /\ stream[id].status # "cancelled"
      BY <1>1, <2>1, <2>2, <2>3
    <2>10. OnceStep(requests[i])
      BY <1>1, <2>1, <2>9 DEF OnceStep, Recheck, Target
    <2> QED  BY <2>1, <2>6, <2>8, <2>10 DEF Stretch, ApiInv
  <1> QED  BY <1>2, <1>3

(* The row is written, and a service is asked.                             *)
LEMMA AwaitIsStretch ==
    ASSUME ApiInv, NEW i \in DOMAIN requests, NEW op \in WrappedOps, Holds(i, op),
           NEW pc \in {"chain", "horizon"}, NEW row, Await(i, pc, row),
           RowMove(stream[Target(i)], row, now), row.status = "ended",
           paid' = [paid EXCEPT ![Target(i)] = row.released]
    PROVE  Stretch(i)
  <1> DEFINE id == Target(i)
  <1>1. /\ requests[i].op = op /\ id \in Streams /\ requests[i].ids # <<>>
        /\ Heads(id, i) /\ id \in ToSet(requests[i].ids)
    BY HoldersHead DEF ApiInv
  <1>2. /\ stream' = [stream EXCEPT ![id] = row] /\ Counted(requests[i])
        /\ now' = now /\ idempotency' = idempotency /\ settledOnChain' = settledOnChain
    BY DEF Await
  <1>3. /\ stream \in [Streams -> Row] /\ paid = [k \in Streams |-> stream[k].released]
        /\ row \in Row
    BY DEF ApiInv, RowsInv, RowMove, RowFits
  <1>4. \A k \in Streams : RowMove(stream[k], stream[k], now)
    BY StreamFits, RowStillFits
  <1>5. RowsStep
    BY <1>1, <1>2, <1>3, <1>4 DEF RowsStep
  <1>6. Touches(i)
    BY <1>1, <1>2, <1>3 DEF Touches
  <1>7. LocksInv'
    BY <1>1, <1>3, <1>6, AwaitKeepsLocks DEF ApiInv
  <1>8. OnceStep(requests[i])
    <2>1. op \notin SingleOps \cup GroupOps
      BY DEF WrappedOps, SingleOps, GroupOps
    <2> QED  BY <1>1, <1>2, <2>1 DEF OnceStep
  <1> QED  BY <1>2, <1>5, <1>7, <1>8 DEF Stretch, ApiInv

LEMMA SettleIsStretch ==
    ASSUME ApiInv, NEW i \in DOMAIN requests, settle(i)
    PROVE  Stretch(i)
  <1> DEFINE s == stream[Target(i)]
             n == [s EXCEPT !.status = "ended", !.tx = TRUE, !.withdrawal = "pending"]
  <1>1. Holds(i, "settle") /\ Target(i) \in Streams
    BY HoldersHead DEF settle, ApiInv
  <1>2. CASE Later(i, "refused") \/ Later(i, "ok")
    BY <1>2, LaterIsStretch
  <1>3. CASE s.status \in {"active", "paused"} /\ Await(i, "chain", n) /\ paid' = paid
    <2>1. RowMove(s, n, now) /\ n.released = s.released /\ n.status = "ended"
      <3>1. RowFits(s, now) /\ now \in 0..MaxTime /\ s.status \in {"active", "paused"}
        BY <1>1, <1>3, StreamFits
      <3>2. n = [s EXCEPT !.status = "ended", !.tx = TRUE, !.withdrawal = "pending"]
        OBVIOUS
      <3> HIDE DEF n, s
      <3> QED  BY <3>1, <3>2, SettledMoves
    <2> HIDE DEF n
    <2>2. paid' = [paid EXCEPT ![Target(i)] = n.released]
      BY <1>1, <1>3, <2>1 DEF ApiInv, RowsInv
    <2>3. "settle" \in WrappedOps
      BY DEF WrappedOps
    <2> QED  BY <1>1, <1>3, <2>1, <2>2, <2>3, AwaitIsStretch
  <1> QED  BY <1>2, <1>3 DEF settle

LEMMA WithdrawIsStretch ==
    ASSUME ApiInv, NEW i \in DOMAIN requests, withdraw(i)
    PROVE  Stretch(i)
  <1> DEFINE r      == requests[i]
             s      == stream[Target(i)]
             due    == Vested(s, now) - s.released
             amount == IF r.amount = All THEN due ELSE r.amount
             n      == [s EXCEPT !.released = @ + amount]
  <1>1. Holds(i, "withdraw") /\ Target(i) \in Streams /\ r \in RequestRow
    BY HoldersHead DEF withdraw, ApiInv
  <1>2. CASE Later(i, "refused") \/ Later(i, "ok")
    BY <1>2, LaterIsStretch
  <1>3. CASE /\ s.status = "ended" /\ due > 0 /\ amount <= due
             /\ Await(i, "horizon", n) /\ paid' = [paid EXCEPT ![Target(i)] = @ + amount]
    <2>1. RowFits(s, now) /\ now \in 0..MaxTime
      BY <1>1, StreamFits
    <2>2. due \in Int /\ s.released \in Nat
      <3>1. s \in Row /\ now \in Int
        BY <2>1, ApiAssumption DEF RowFits
      <3>2. s.released \in Nat /\ s.pausedAt \in Int /\ s.pausedDuration \in Int
        BY <3>1, RowTypes
      <3>3. Vested(s, now) \in Int
        BY <3>1, <3>2, VestedIs
      <3> QED  BY <3>2, <3>3
    <2>3. amount \in Nat
      <3>1. r.amount \in Amounts \cup {All, 0}
        BY <1>1 DEF RequestRow
      <3> HIDE DEF r, due
      <3> QED  BY <1>3, <2>2, <3>1, ApiAssumption
    <2> HIDE DEF amount
    <2>4. RowMove(s, n, now) /\ n.released = s.released + amount /\ n.status = "ended"
      BY <1>3, <2>1, <2>3, WithdrawalMoves
    <2>5. paid' = [paid EXCEPT ![Target(i)] = n.released]
      <3>1. paid[Target(i)] = s.released
        BY <1>1 DEF ApiInv, RowsInv
      <3> HIDE DEF n
      <3> QED  BY <1>3, <2>4, <3>1
    <2>6. "withdraw" \in WrappedOps
      BY DEF WrappedOps
    <2> HIDE DEF n
    <2> QED  BY <1>1, <1>3, <2>4, <2>5, <2>6, AwaitIsStretch
  <1> QED  BY <1>2, <1>3 DEF withdraw

(* A request that awaits a service has the row of the store in hand.       *)
LEMMA RowInHand ==
    ASSUME ApiInv, NEW i \in DOMAIN requests, requests[i].pc \in {"chain", "horizon"}
    PROVE  /\ Target(i) \in Streams /\ Heads(Target(i), i)
           /\ requests[i].row = stream[Target(i)] /\ requests[i].row.status = "ended"
  <1>1. LocksInv
    BY DEF ApiInv
  <1>2. LockOK(i) /\ requests[i].ids \in Seq(Streams)
    BY <1>1, RequestIsTyped DEF RequestRow
  <1>3. requests[i].ids # <<>> => requests[i].ids[1] \in Streams
    BY <1>2
  <1> QED  BY <1>2, <1>3 DEF LockOK, Target

LEMMA SettledIsStretch ==
    ASSUME ApiInv, NEW i \in DOMAIN requests, settled(i)
    PROVE  Stretch(i)
  <1>1. Target(i) \in Streams /\ requests[i].row = stream[Target(i)]
    BY RowInHand DEF settled
  <1>2. PICK answer \in {"ok", "failed"} : AnswerLater(i, answer)
    BY DEF settled
  <1>3. /\ stream' = stream /\ now' = now /\ idempotency' = idempotency /\ paid' = paid
        /\ NotCounted /\ settledOnChain' \subseteq settledOnChain \cup {Target(i)}
    BY <1>1 DEF settled, ApiInv, RowsInv
  <1>4. RowsStep
    BY <1>3, RowsStandStill DEF ApiInv
  <1>5. Touches(i) /\ LocksInv
    BY <1>3 DEF Touches, ApiInv
  <1>6. LocksInv'
    BY <1>2, <1>5, LaterKeepsLocks
  <1>7. OnceStep(requests[i]) /\ settledOnChain' \subseteq Streams
    BY <1>1, <1>3 DEF OnceStep, ApiInv
  <1> QED  BY <1>4, <1>6, <1>7 DEF Stretch

LEMMA EvaluationIsStretch ==
    ASSUME ApiInv, NEW i \in DOMAIN requests, evaluateWithdrawalState(i)
    PROVE  Stretch(i)
  <1> DEFINE s == stream[Target(i)]
  <1>1. /\ Target(i) \in Streams /\ Heads(Target(i), i)
        /\ requests[i].row = s /\ s.status = "ended"
    BY RowInHand DEF evaluateWithdrawalState
  <1>2. CASE NoEffect(i)
    BY <1>2, NoEffectIsStretch
  <1>3. CASE ~NoEffect(i)
    <2>1. PICK state \in {"pending", "succeeded", "failed"} :
            /\ state = "succeeded" => s.tx
            /\ stream' = [stream EXCEPT ![Target(i)] =
                             [s EXCEPT !.withdrawal = state,
                                       !.status = IF state = "succeeded" THEN "withdrawn" ELSE @]]
            /\ AnswerLater(i, "ok") /\ NotCounted
            /\ now' = now /\ idempotency' = idempotency /\ paid' = paid
            /\ settledOnChain' = settledOnChain
      BY <1>1, <1>3 DEF evaluateWithdrawalState
    <2> DEFINE n == [s EXCEPT !.withdrawal = state,
                              !.status = IF state = "succeeded" THEN "withdrawn" ELSE @]
    <2>2. RowFits(s, now) /\ now \in 0..MaxTime
      BY <1>1, StreamFits
    <2>3. RowMove(s, n, now) /\ n.released = s.released
      <3>1. s \in Row
        BY <2>2 DEF RowFits
      <3>2. /\ n.released = s.released /\ n.pausedAt = s.pausedAt
            /\ n.pausedDuration = s.pausedDuration
        BY <3>1 DEF Row
      <3>3. \/ n.status = "ended"
            \/ n.status = "withdrawn" /\ n.tx /\ n.withdrawal = "succeeded"
        BY <1>1, <2>1, <3>1 DEF Row
      <3>4. n \in Row
        BY <3>1 DEF Row, Status
      <3> HIDE DEF n
      <3> QED  BY <1>1, <2>2, <3>2, <3>3, <3>4, EvaluatedMoves
    <2>4. stream' = [stream EXCEPT ![Target(i)] = n]
      BY <2>1
    <2> HIDE DEF n
    <2>5. /\ stream \in [Streams -> Row] /\ paid = [k \in Streams |-> stream[k].released]
          /\ n \in Row
      BY <2>3 DEF ApiInv, RowsInv, RowMove, RowFits
    <2>6. \A k \in Streams : RowMove(stream[k], stream[k], now)
      BY StreamFits, RowStillFits
    <2>7. RowsStep
      BY <1>1, <2>1, <2>3, <2>4, <2>5, <2>6 DEF RowsStep
    <2>8. Touches(i) /\ LocksInv
      BY <1>1, <2>4, <2>5 DEF Touches, ApiInv
    <2>9. LocksInv'
      BY <2>1, <2>8, LaterKeepsLocks
    <2>10. OnceStep(requests[i]) /\ settledOnChain' \subseteq Streams
      BY <2>1 DEF OnceStep, ApiInv
    <2> QED  BY <2>7, <2>9, <2>10 DEF Stretch
  <1> QED  BY <1>2, <1>3

LEMMA WaitingIsStretch ==
    ASSUME ApiInv, NEW i \in DOMAIN requests, Acquire(i) \/ Store(i)
    PROVE  Stretch(i)
  <1>1. RowsStep
    BY RowsStandStill DEF ApiInv, Acquire, Store
  <1>2. LocksInv'
    BY AcquireKeepsLocks, StoreKeepsLocks DEF ApiInv
  <1>3. OnceStep(requests[i]) /\ settledOnChain' \subseteq Streams
    BY DEF OnceStep, NotCounted, Acquire, Store, ApiInv
  <1> QED  BY <1>1, <1>2, <1>3 DEF Stretch

LEMMA ServeIsStretch ==
    ASSUME ApiInv, NEW i \in DOMAIN requests, Serve(i)
    PROVE  Stretch(i)
  BY StartIsStretch, StopIsStretch, PauseIsStretch, CancelIsStretch, BatchesAreStretches,
     GroupsAreStretches, SettleIsStretch, SettledIsStretch, WithdrawIsStretch,
     EvaluationIsStretch, WaitingIsStretch, Zenon
  DEF Serve

LEMMA StretchKeepsInv ==
    ASSUME ApiInv, NEW i \in DOMAIN requests, Stretch(i)
    PROVE  ApiInv'
  BY RowsStepKeepsRows, OnceStepKeepsOnce DEF ApiInv, Stretch

LEMMA ArrivalKeepsInv ==
    ASSUME ApiInv, Arrival
    PROVE  ApiInv' /\ RowsStep
  <1>1. PICK op \in SingleOps \cup WrappedOps \cup BatchOps \cup GroupOps,
             ids \in Seq(Streams), key \in Keys, amount \in Amounts \cup {All} :
          ids # <<>> /\ Arrive(op, ids, key, amount)
    <2>1. \A id \in Targets : <<id>> \in Seq(Streams) /\ <<id>> # <<>>
      BY ApiAssumption
    <2>2. \A ids \in Batches : ids \in Seq(Streams) /\ ids # <<>>
      BY ApiAssumption
    <2>3. Group \in Seq(Streams)
      BY ApiAssumption
    <2>4. {"settle", "withdraw"} = WrappedOps
      BY DEF WrappedOps
    <2> QED  BY <2>1, <2>2, <2>3, <2>4 DEF Arrival
  <1>2. /\ now' = now /\ stream' = stream /\ paid' = paid /\ idempotency' = idempotency
        /\ settledOnChain' = settledOnChain /\ applied' = applied
        /\ appliedTwice' = appliedTwice
    BY <1>1 DEF Arrive
  <1>3. LocksInv'
    BY <1>1, ArriveKeepsLocks DEF ApiInv
  <1>4. RowsStep
    BY <1>2, RowsStandStill DEF ApiInv
  <1>5. RowsInv'
    BY <1>4, RowsStepKeepsRows DEF ApiInv
  <1>6. OnceInv'
    BY <1>2 DEF ApiInv, OnceInv, AppliedOK, AppliedOnce
  <1> QED  BY <1>2, <1>3, <1>4, <1>5, <1>6 DEF ApiInv

(* Time passes, and what has vested with it.                               *)
LEMMA TimeKeepsInv ==
    ASSUME ApiInv, now' \in 0..MaxTime, now <= now', stream' = stream,
           UNCHANGED <<queue, requests, idempotency, paid, settledOnChain,
                       applied, appliedTwice>>
    PROVE  /\ ApiInv'
           /\ \A id \in Streams : Vested(stream[id], now) <= Vested(stream'[id], now')
  <1>1. now \in Nat /\ now' \in Nat
    BY ApiAssumption DEF ApiInv, RowsInv
  <1>2. \A id \in Streams : stream[id] \in Row /\ RowFits(stream[id], now')
    BY <1>1, RowStillFits DEF ApiInv, RowsInv
  <1>3. RowsInv'
    BY <1>2 DEF ApiInv, RowsInv
  <1>4. LocksInv'
    <2>1. \A j \in DOMAIN requests : LockOK(j)'
      <3>1. \A j : KeepsPlace(j)
        BY DEF KeepsPlace, Heads, Waits
      <3> QED  BY <3>1, BystanderIsOK DEF ApiInv
    <2> QED  BY <2>1 DEF ApiInv, LocksInv
  <1>5. OnceInv'
    BY DEF ApiInv, OnceInv, AppliedOK, AppliedOnce
  <1>6. \A id \in Streams : Vested(stream[id], now) <= Vested(stream[id], now')
    BY <1>1, <1>2, VestedGrows
  <1> QED  BY <1>3, <1>4, <1>5, <1>6 DEF ApiInv

LEMMA InitIsGood == Init => ApiInv
  <1> SUFFICES ASSUME Init
               PROVE  ApiInv
    OBVIOUS
  <1>1. MaxTime \in Nat /\ Duration \in Nat /\ MaxRequests \in Nat
    BY ApiAssumption
  <1>2. ASSUME NEW s \in {Opened("draft"), Opened("active")}
        PROVE  RowFits(s, 0) /\ s.released = 0
    <2>1. /\ s \in Row /\ s.pausedAt = NoTime /\ s.pausedDuration = 0 /\ s.released = 0
          /\ s.status \in {"draft", "active"}
      <3>1. ASSUME NEW status \in {"draft", "active"}
            PROVE  LET n == Opened(status)
                   IN  /\ n \in Row /\ n.pausedAt = NoTime /\ n.pausedDuration = 0
                       /\ n.released = 0 /\ n.status = status
        BY <1>1 DEF Opened, Row, Status, NoTime
      <3> QED  BY <1>2, <3>1
    <2>2. Vested(s, 0) \in 0..Duration
      <3>1. s.pausedAt \in Int /\ s.pausedDuration \in Int /\ 0 \in Int
        BY <2>1 DEF NoTime
      <3> QED  BY <3>1, VestedIs
    <2> QED  BY <1>1, <2>1, <2>2 DEF RowFits, NoTime
  <1>3. \A id \in Streams : RowFits(stream[id], 0) /\ stream[id].released = 0
    BY <1>2 DEF Init
  <1>4. stream \in [Streams -> Row]
    BY <1>2 DEF Init, RowFits
  <1>5. RowsInv
    BY <1>1, <1>3, <1>4 DEF Init, RowsInv
  <1>6. LocksInv
    BY <1>1, EmptySeq DEF Init, LocksInv
  <1>7. OnceInv /\ settledOnChain \subseteq Streams
    BY DEF Init, OnceInv, AppliedOK, AppliedOnce
  <1> QED  BY <1>5, <1>6, <1>7 DEF ApiInv

LEMMA StepKeepsInv ==
    ASSUME ApiInv, [Next]_vars
    PROVE  /\ ApiInv'
           /\ \/ RowsStep
              \/ /\ stream' = stream
                 /\ \A id \in Streams : Vested(stream[id], now) <= Vested(stream'[id], now')
  <1>1. CASE Tick
    <2>1. now' \in 0..MaxTime /\ now <= now'
      BY <1>1, ApiAssumption DEF Tick, ApiInv, RowsInv
    <2> QED  BY <1>1, <2>1, TimeKeepsInv DEF Tick
  <1>2. CASE UNCHANGED vars
    <2>1. now' \in 0..MaxTime /\ now <= now'
      BY <1>2, ApiAssumption DEF vars, ApiInv, RowsInv
    <2> QED  BY <1>2, <2>1, TimeKeepsInv DEF vars
  <1>3. CASE Arrival
    BY <1>3, ArrivalKeepsInv
  <1>4. CASE \E i \in DOMAIN requests : Serve(i)
    BY <1>4, ServeIsStretch, StretchKeepsInv DEF Stretch
  <1> QED  BY <1>1, <1>2, <1>3, <1>4 DEF Next

-----------------------------------------------------------------------------
(* Nobody waits in a circle                                                *)

(* Whoever stands in a queue awaits that lock, or is first and holds it.   *)
Wants(r, id, k) ==
    \/ r.pc = "lock" /\ id = NextLock(r)
    \/ k = 1 /\ r.pc = "lock" /\ id \in r.held
    \/ k = 1 /\ r.pc \in {"chain", "horizon"}

(* What a request holds comes before all that it has yet to ask for.       *)
Ascending(r) == r.pc = "lock" => \A h \in r.held, x \in Remaining(r) : h < x

LinesOK ==
    /\ \A id \in Streams : \A k \in DOMAIN queue[id] :
           queue[id][k] \in DOMAIN requests /\ Wants(requests[queue[id][k]], id, k)
    /\ \A id \in Streams : \A k, l \in DOMAIN queue[id] : queue[id][k] = queue[id][l] => k = l
    /\ \A i \in DOMAIN requests : Ascending(requests[i])

(* Request i can go on: it heads the lock it awaits, a service owes it an  *)
(* answer, or only its own storing is left.                                *)
Turn(i) ==
    \/ requests[i].pc \in {"chain", "horizon", "store"}
    \/ requests[i].pc = "lock" /\ Heads(NextLock(requests[i]), i)

SomeoneGoesOn ==
    (\E i \in DOMAIN requests : requests[i].pc # "done") => \E i \in DOMAIN requests : Turn(i)

(* Request i leaves every queue it heads; or it asks a service.            *)
Leaves(i) ==
    /\ queue' = Released(i)
    /\ requests'[i].pc \in {"done", "store"}
    /\ requests' = [requests EXCEPT ![i] = requests'[i]]
Asks(i) ==
    /\ queue' = queue
    /\ requests'[i].pc \in {"chain", "horizon"}
    /\ requests' = [requests EXCEPT ![i] = requests'[i]]

(* Among finitely many numbers one is the greatest. *)
LEMMA GreatestOf ==
    ASSUME NEW N \in Nat, NEW f \in [1..N -> Nat]
    PROVE  \A W \in SUBSET (1..N) : W # {} => \E m \in W : \A j \in W : f[j] <= f[m]
  <1> DEFINE P(n) == \A W \in SUBSET (1..n) : W # {} => \E m \in W : \A j \in W : f[j] <= f[m]
             R == OpToRel(<, Nat)
             Bad == {n \in Nat : n <= N /\ ~P(n)}
  <1>1. \A n \in Nat : n + 1 <= N /\ P(n) => P(n + 1)
    <2> SUFFICES ASSUME NEW n \in Nat, n + 1 <= N, P(n), NEW W \in SUBSET (1..(n + 1)), W # {}
                 PROVE  \E m \in W : \A j \in W : f[j] <= f[m]
      OBVIOUS
    <2> DEFINE V == W \ {n + 1}
    <2>1. V \in SUBSET (1..n) /\ \A j \in W : f[j] \in Nat
      OBVIOUS
    <2>2. CASE V = {}
      <3>1. n + 1 \in W /\ \A j \in W : j = n + 1
        BY <2>2
      <3> QED  BY <2>1, <3>1
    <2>3. CASE V # {}
      <3>1. PICK m \in V : \A j \in V : f[j] <= f[m]
        BY <2>1, <2>3
      <3>2. CASE n + 1 \notin W
        <4>1. V = W
          BY <3>2
        <4> QED  BY <3>1, <4>1
      <3>3. CASE n + 1 \in W /\ f[n + 1] <= f[m]
        BY <3>1, <3>3
      <3>4. CASE n + 1 \in W /\ ~(f[n + 1] <= f[m])
        <4>1. \A j \in W : f[j] <= f[n + 1]
          BY <2>1, <3>1, <3>4
        <4> QED  BY <3>4, <4>1
      <3> QED  BY <3>2, <3>3, <3>4
    <2> QED  BY <2>2, <2>3
  <1>2. P(0)
    <2>1. 1..0 = {}
      OBVIOUS
    <2>2. SUBSET {} = {{}}
      OBVIOUS
    <2> QED  BY <2>1, <2>2
  <1> HIDE DEF P
  <1>3. Bad = {}
    <2> SUFFICES ASSUME Bad # {} PROVE FALSE
      OBVIOUS
    <2>1. IsWellFoundedOn(R, Nat)
      BY Zenon, NatLessThanWellFounded
    <2>2. \E x \in Bad : \A y \in Bad : ~ (<<y, x>> \in R)
      <3> HIDE DEF R
      <3>1. Bad \subseteq Nat
        OBVIOUS
      <3> HIDE DEF Bad
      <3> QED  BY <2>1, <3>1, WFMin
    <2>3. \A x, y \in Nat : <<y, x>> \in R <=> y < x
      BY Zenon DEF OpToRel
    <2> HIDE DEF R
    <2>4. PICK b \in Bad : \A y \in Bad : ~ (y < b)
      BY <2>2, <2>3
    <2>5. b \in Nat /\ b <= N /\ ~P(b) /\ b # 0
      BY <1>2, <2>4
    <2>6. b - 1 \in Nat /\ b - 1 < b /\ b - 1 <= N /\ (b - 1) + 1 = b
      BY <2>5
    <2>7. P(b - 1)
      BY <2>4, <2>6
    <2> QED  BY <1>1, <2>5, <2>6, <2>7
  <1>4. P(N)
    BY <1>3
  <1> QED  BY <1>4 DEF P

(* A request that runs, or has asked a service, heads every queue it is in. *)
LEMMA RunnerHeadsAll ==
    ASSUME LocksInv, LinesOK, NEW i \in DOMAIN requests,
           (\E op : Holds(i, op)) \/ requests[i].pc \in {"chain", "horizon"}
    PROVE  \A id \in Streams : \A k \in DOMAIN queue[id] : queue[id][k] = i => k = 1
  <1> SUFFICES ASSUME NEW id \in Streams, NEW k \in DOMAIN queue[id], queue[id][k] = i, k # 1
               PROVE  FALSE
    OBVIOUS
  <1>1. Wants(requests[i], id, k)
    BY DEF LinesOK
  <1>2. requests[i].pc = "lock" /\ id = NextLock(requests[i])
    BY <1>1 DEF Wants
  <1>3. Head(queue[id]) = i
    BY <1>2 DEF Holds, IsNext
  <1>4. queue \in [Streams -> Seq(1..MaxRequests)]
    BY DEF LocksInv
  <1>5. queue[id] # <<>>
    BY <1>4, HeadWaits DEF Waits
  <1>6. 1 \in DOMAIN queue[id] /\ queue[id][1] = i
    BY <1>3, <1>4, <1>5, HeadWaits DEF Heads
  <1> QED  BY <1>6 DEF LinesOK

LEMMA LeavesKeepsLines ==
    ASSUME LocksInv, LinesOK, NEW i \in DOMAIN requests, Leaves(i),
           \A id \in Streams : \A k \in DOMAIN queue[id] : queue[id][k] = i => k = 1
    PROVE  LinesOK'
  <1>1. PICK r : r = requests'[i] /\ r.pc \in {"done", "store"}
    BY DEF Leaves
  <1>2. /\ DOMAIN requests' = DOMAIN requests /\ requests'[i] = r
        /\ \A j \in DOMAIN requests \ {i} : requests'[j] = requests[j]
    BY <1>1 DEF Leaves
  <1>3. ASSUME NEW id \in Streams
        PROVE  /\ \A k \in DOMAIN queue'[id] :
                    queue'[id][k] \in DOMAIN requests /\ Wants(requests'[queue'[id][k]], id, k)
               /\ \A k, l \in DOMAIN queue'[id] : queue'[id][k] = queue'[id][l] => k = l
    <2> DEFINE q == queue[id]
    <2>1. /\ q \in Seq(1..MaxRequests)
          /\ queue'[id] = IF q # <<>> /\ Head(q) = i THEN Tail(q) ELSE q
      BY DEF LocksInv, Leaves, Released
    <2>2. /\ \A k \in DOMAIN q : q[k] \in DOMAIN requests /\ Wants(requests[q[k]], id, k)
          /\ \A k, l \in DOMAIN q : q[k] = q[l] => k = l
          /\ \A k \in DOMAIN q : q[k] = i => k = 1
      BY DEF LinesOK
    <2>3. DOMAIN q = 1..Len(q) /\ Len(q) \in Nat
      BY <2>1, LenProperties
    <2> HIDE DEF q
    <2>4. CASE q # <<>> /\ Head(q) = i
      <3>1. /\ queue'[id] = Tail(q) /\ Tail(q) \in Seq(1..MaxRequests)
            /\ Len(Tail(q)) = Len(q) - 1
            /\ \A k \in 1..Len(Tail(q)) : Tail(q)[k] = q[k + 1]
        BY <2>1, <2>4, HeadTailProperties
      <3>2. DOMAIN queue'[id] = 1..(Len(q) - 1)
        BY <3>1, LenProperties
      <3>3. \A k \in 1..(Len(q) - 1) :
              /\ k + 1 \in DOMAIN q /\ k + 1 # 1 /\ queue'[id][k] = q[k + 1]
        BY <2>3, <3>1
      <3>4. ASSUME NEW k \in 1..(Len(q) - 1)
            PROVE  queue'[id][k] \in DOMAIN requests /\ Wants(requests'[queue'[id][k]], id, k)
        <4>1. /\ q[k + 1] \in DOMAIN requests /\ q[k + 1] # i
              /\ Wants(requests[q[k + 1]], id, k + 1)
          BY <2>2, <3>3
        <4>2. requests[q[k + 1]].pc = "lock" /\ id = NextLock(requests[q[k + 1]])
          BY <3>3, <4>1 DEF Wants
        <4>3. requests'[q[k + 1]] = requests[q[k + 1]]
          BY <1>2, <4>1
        <4> QED  BY <3>3, <4>1, <4>2, <4>3 DEF Wants
      <3>5. \A k, l \in 1..(Len(q) - 1) : queue'[id][k] = queue'[id][l] => k = l
        <4> TAKE k, l \in 1..(Len(q) - 1)
        <4>1. q[k + 1] = q[l + 1] => k + 1 = l + 1
          BY <2>2, <3>3
        <4> QED  BY <3>3, <4>1
      <3> QED  BY <3>2, <3>4, <3>5
    <2>5. CASE ~(q # <<>> /\ Head(q) = i)
      <3>1. queue'[id] = q
        BY <2>1, <2>5
      <3>2. \A k \in DOMAIN q : q[k] # i
        <4> SUFFICES ASSUME NEW k \in DOMAIN q, q[k] = i PROVE FALSE
          OBVIOUS
        <4>1. k = 1
          BY <2>2
        <4>2. q # <<>> /\ Head(q) = i
          BY <2>1, <2>3, <4>1, EmptySeq
        <4> QED  BY <2>5, <4>2
      <3>3. \A k \in DOMAIN q : requests'[q[k]] = requests[q[k]]
        BY <1>2, <2>2, <3>2
      <3> QED  BY <2>2, <3>1, <3>3 DEF Wants
    <2> QED  BY <2>4, <2>5
  <1>4. \A j \in DOMAIN requests' : Ascending(requests'[j])
    BY <1>1, <1>2 DEF LinesOK, Ascending
  <1> QED  BY <1>2, <1>3, <1>4 DEF LinesOK

LEMMA AsksKeepsLines ==
    ASSUME LocksInv, LinesOK, NEW i \in DOMAIN requests, Asks(i),
           \A id \in Streams : \A k \in DOMAIN queue[id] : queue[id][k] = i => k = 1
    PROVE  LinesOK'
  <1>1. PICK r : r = requests'[i] /\ r.pc \in {"chain", "horizon"}
    BY DEF Asks
  <1>2. /\ DOMAIN requests' = DOMAIN requests /\ requests'[i] = r /\ queue' = queue
        /\ \A j \in DOMAIN requests \ {i} : requests'[j] = requests[j]
    BY <1>1 DEF Asks
  <1>3. ASSUME NEW id \in Streams, NEW k \in DOMAIN queue[id]
        PROVE  queue[id][k] \in DOMAIN requests /\ Wants(requests'[queue[id][k]], id, k)
    <2>1. queue[id][k] \in DOMAIN requests /\ Wants(requests[queue[id][k]], id, k)
      BY DEF LinesOK
    <2>2. CASE queue[id][k] = i
      BY <1>1, <1>2, <2>1, <2>2 DEF Wants
    <2>3. CASE queue[id][k] # i
      BY <1>2, <2>1, <2>3 DEF Wants
    <2> QED  BY <2>2, <2>3
  <1>4. \A j \in DOMAIN requests' : Ascending(requests'[j])
    BY <1>1, <1>2 DEF LinesOK, Ascending
  <1> QED  BY <1>2, <1>3, <1>4 DEF LinesOK

(* Whoever joins a queue was not in it.                                    *)
LEMMA JoinKeepsLines ==
    ASSUME LocksInv, LinesOK, NEW i, NEW lock \in Streams, NEW r,
           queue' = Joined(lock, i), DOMAIN requests' = DOMAIN requests \cup {i},
           requests'[i] = r, \A j \in DOMAIN requests \ {i} : requests'[j] = requests[j],
           r.pc = "lock", lock = NextLock(r), Ascending(r),
           \A id \in Streams : \A k \in DOMAIN queue[id] :
               queue[id][k] = i => k = 1 /\ id \in r.held /\ id # lock
    PROVE  LinesOK'
  <1>1. ASSUME NEW id \in Streams, id # lock
        PROVE  /\ \A k \in DOMAIN queue'[id] :
                    queue'[id][k] \in DOMAIN requests' /\ Wants(requests'[queue'[id][k]], id, k)
               /\ \A k, l \in DOMAIN queue'[id] : queue'[id][k] = queue'[id][l] => k = l
    <2>1. queue'[id] = queue[id]
      BY <1>1 DEF LocksInv, Joined
    <2>2. ASSUME NEW k \in DOMAIN queue[id]
          PROVE  queue[id][k] \in DOMAIN requests' /\ Wants(requests'[queue[id][k]], id, k)
      <3>1. queue[id][k] \in DOMAIN requests /\ Wants(requests[queue[id][k]], id, k)
        BY DEF LinesOK
      <3>2. CASE queue[id][k] = i
        <4>1. k = 1 /\ id \in r.held
          BY <3>2
        <4> QED  BY <3>1, <3>2, <4>1 DEF Wants
      <3>3. CASE queue[id][k] # i
        BY <3>1, <3>3 DEF Wants
      <3> QED  BY <3>2, <3>3
    <2>3. \A k, l \in DOMAIN queue[id] : queue[id][k] = queue[id][l] => k = l
      BY DEF LinesOK
    <2> QED  BY <2>1, <2>2, <2>3
  <1>2. /\ \A k \in DOMAIN queue'[lock] :
              queue'[lock][k] \in DOMAIN requests' /\ Wants(requests'[queue'[lock][k]], lock, k)
        /\ \A k, l \in DOMAIN queue'[lock] : queue'[lock][k] = queue'[lock][l] => k = l
    <2> DEFINE q == queue[lock]
    <2>1. q \in Seq(1..MaxRequests) /\ queue'[lock] = Append(q, i)
      BY DEF LocksInv, Joined
    <2>2. /\ \A k \in DOMAIN q : q[k] \in DOMAIN requests /\ Wants(requests[q[k]], lock, k)
          /\ \A k, l \in DOMAIN q : q[k] = q[l] => k = l
          /\ \A k \in DOMAIN q : q[k] # i
      BY DEF LinesOK
    <2>3. DOMAIN q = 1..Len(q) /\ Len(q) \in Nat
      BY <2>1, LenProperties
    <2>4. PICK S : q \in Seq(S) /\ i \in S
      <3> DEFINE S == (1..MaxRequests) \cup {i}
      <3>1. \A k \in 1..Len(q) : q[k] \in S
        BY <2>1, ElementOfSeq
      <3>2. q \in Seq(S)
        <4> HIDE DEF S
        <4>1. q = [k \in 1..Len(q) |-> q[k]]
          BY <2>1, LenProperties
        <4>2. q \in [1..Len(q) -> S]
          BY <3>1, <4>1
        <4> QED  BY <2>3, <4>2
      <3> QED  BY <3>2
    <2> HIDE DEF q
    <2>5. /\ Append(q, i) \in Seq(S) /\ Len(Append(q, i)) = Len(q) + 1
          /\ Append(q, i)[Len(q) + 1] = i
          /\ \A k \in 1..Len(q) : Append(q, i)[k] = q[k]
      BY <2>4, AppendProperties
    <2>6. DOMAIN queue'[lock] = 1..(Len(q) + 1)
      BY <2>1, <2>5, LenProperties
    <2>7. ASSUME NEW k \in 1..(Len(q) + 1)
          PROVE  /\ queue'[lock][k] \in DOMAIN requests'
                 /\ Wants(requests'[queue'[lock][k]], lock, k)
      <3>1. CASE k = Len(q) + 1
        BY <2>1, <2>5, <3>1 DEF Wants
      <3>2. CASE k \in 1..Len(q)
        <4>1. queue'[lock][k] = q[k] /\ q[k] # i /\ q[k] \in DOMAIN requests /\ Wants(requests[q[k]], lock, k)
          BY <2>1, <2>2, <2>3, <2>5, <3>2
        <4>2. requests'[q[k]] = requests[q[k]]
          BY <4>1
        <4> QED  BY <4>1, <4>2 DEF Wants
      <3> QED  BY <2>3, <3>1, <3>2
    <2>8. \A k, l \in 1..(Len(q) + 1) : queue'[lock][k] = queue'[lock][l] => k = l
      <3> TAKE k, l \in 1..(Len(q) + 1)
      <3>1. \A n \in 1..(Len(q) + 1) :
              \/ n = Len(q) + 1 /\ queue'[lock][n] = i
              \/ n \in 1..Len(q) /\ queue'[lock][n] = q[n] /\ q[n] # i
        BY <2>1, <2>2, <2>3, <2>5
      <3> QED  BY <2>2, <2>3, <3>1
    <2> QED  BY <2>6, <2>7, <2>8
  <1>3. \A j \in DOMAIN requests' : Ascending(requests'[j])
    BY DEF LinesOK
  <1> QED  BY <1>1, <1>2, <1>3 DEF LinesOK

LEMMA AcquireKeepsLines ==
    ASSUME LocksInv, LinesOK, NEW i \in DOMAIN requests, Acquire(i)
    PROVE  LinesOK'
  <1> DEFINE r    == requests[i]
             next == NextLock(r)
             got  == [r EXCEPT !.held = @ \cup {next}]
             lock == NextLock(got)
  <1>1. r \in RequestRow /\ LockOK(i) /\ QueuesOK
    BY RequestIsTyped
  <1>2. /\ r.pc = "lock" /\ Remaining(got) # {} /\ Head(queue[next]) = i
        /\ requests' = [requests EXCEPT ![i] = got] /\ queue' = Joined(lock, i)
    BY DEF Acquire, IsNext
  <1>3. /\ got.ids = r.ids /\ got.pc = r.pc /\ got.held = r.held \cup {next}
        /\ r.ids \in Seq(Streams) /\ r.held \subseteq Streams
    BY <1>1 DEF RequestRow
  <1> HIDE DEF got
  <1>4. /\ next \in Streams /\ next \in Remaining(r) /\ Remaining(r) \subseteq Nat
        /\ \A x \in Remaining(r) : next <= x
    <2>1. Remaining(r) # {}
      BY <1>1, <1>2 DEF LockOK
    <2>2. Remaining(r) \subseteq Nat
      BY <1>3, <2>1, LockIsRemaining, ApiAssumption
    <2> QED  BY <1>3, <2>1, <2>2, LockIsRemaining, LeastOf DEF NextLock
  <1>5. lock \in Streams /\ lock \in Remaining(got) /\ Remaining(got) = Remaining(r) \ {next}
    BY <1>2, <1>3, LockIsRemaining DEF Remaining
  <1>6. Ascending(got)
    <2> SUFFICES ASSUME NEW h \in got.held, NEW x \in Remaining(got) PROVE h < x
      BY DEF Ascending
    <2>1. CASE h \in r.held
      BY <1>2, <1>5, <2>1 DEF LinesOK, Ascending
    <2>2. CASE h = next
      BY <1>4, <1>5, <2>2
    <2> QED  BY <1>3, <2>1, <2>2
  <1>7. ASSUME NEW id \in Streams, NEW k \in DOMAIN queue[id], queue[id][k] = i
        PROVE  k = 1 /\ id \in got.held /\ id # lock
    <2>1. Wants(requests[i], id, k)
      BY <1>7 DEF LinesOK
    <2>2. k = 1 /\ id \in got.held
      <3>1. CASE k = 1 /\ id \in r.held
        BY <1>3, <3>1
      <3>2. CASE id = next
        <4>1. queue[id] # <<>>
          BY <1>1, <1>7, HeadWaits DEF Waits, QueuesOK
        <4>2. 1 \in DOMAIN queue[id] /\ queue[id][1] = i
          BY <1>1, <1>2, <3>2, <4>1, HeadWaits DEF Heads, QueuesOK
        <4> QED  BY <1>3, <1>7, <3>2, <4>2 DEF LinesOK
      <3> QED  BY <1>2, <2>1, <3>1, <3>2 DEF Wants
    <2> QED  BY <1>5, <2>2 DEF Remaining
  <1>8. /\ DOMAIN requests' = DOMAIN requests \cup {i} /\ requests'[i] = got
        /\ \A j \in DOMAIN requests \ {i} : requests'[j] = requests[j]
    BY <1>2
  <1>9. queue' = Joined(lock, i) /\ got.pc = "lock" /\ lock \in Streams /\ lock = NextLock(got)
    BY <1>2, <1>3, <1>5
  <1> HIDE DEF lock
  <1> QED  BY <1>6, <1>7, <1>8, <1>9, JoinKeepsLines

LEMMA StoreKeepsLines ==
    ASSUME LocksInv, LinesOK, NEW i \in DOMAIN requests, Store(i)
    PROVE  LinesOK'
  <1>1. /\ DOMAIN requests' = DOMAIN requests /\ requests'[i] = Done /\ queue' = queue
        /\ requests[i].pc = "store"
        /\ \A j \in DOMAIN requests \ {i} : requests'[j] = requests[j]
    BY DEF Store
  <1>2. ASSUME NEW id \in Streams, NEW k \in DOMAIN queue[id]
        PROVE  queue[id][k] \in DOMAIN requests /\ Wants(requests'[queue[id][k]], id, k)
    <2>1. queue[id][k] \in DOMAIN requests /\ Wants(requests[queue[id][k]], id, k)
      BY DEF LinesOK
    <2>2. queue[id][k] # i
      BY <1>1, <2>1 DEF Wants
    <2> QED  BY <1>1, <2>1, <2>2 DEF Wants
  <1>3. \A j \in DOMAIN requests' : Ascending(requests'[j])
    BY <1>1, DoneIsRequest DEF LinesOK, Ascending
  <1> QED  BY <1>1, <1>2, <1>3 DEF LinesOK

(* Every other stretch of a request ends with it leaving or asking.        *)
LEMMA LaterLeaves ==
    ASSUME NEW i \in DOMAIN requests, requests[i] \in RequestRow, NEW answer,
           AnswerLater(i, answer)
    PROVE  Leaves(i)
  <1> DEFINE r == [requests[i] EXCEPT !.pc = "store", !.answer = answer]
  <1>1. r.pc = "store"
    BY DEF RequestRow
  <1>2. requests' = [requests EXCEPT ![i] = r] /\ queue' = Released(i)
    BY DEF AnswerLater
  <1> HIDE DEF r
  <1> QED  BY <1>1, <1>2 DEF Leaves

LEMMA AwaitAsks ==
    ASSUME NEW i \in DOMAIN requests, requests[i] \in RequestRow,
           NEW pc \in {"chain", "horizon"}, NEW row, Await(i, pc, row)
    PROVE  Asks(i)
  <1> DEFINE r == [requests[i] EXCEPT !.pc = pc, !.row = row]
  <1>1. r.pc = pc
    BY DEF RequestRow
  <1>2. requests' = [requests EXCEPT ![i] = r] /\ queue' = queue
    BY DEF Await
  <1> HIDE DEF r
  <1> QED  BY <1>1, <1>2 DEF Asks

LEMMA ServeIsLine ==
    ASSUME NEW i \in DOMAIN requests, requests[i] \in RequestRow, Serve(i)
    PROVE  \/ Acquire(i) \/ Store(i)
           \/ /\ (\E op : Holds(i, op)) \/ requests[i].pc \in {"chain", "horizon"}
              /\ Leaves(i) \/ Asks(i)
  <1>1. Answer(i) => Leaves(i)
    BY DoneIsRequest DEF Answer, Leaves
  <1>2. NoEffect(i) \/ (\E rows : Apply(i, rows)) => Leaves(i)
    BY <1>1 DEF NoEffect, Apply
  <1>3. \A answer : Later(i, answer) \/ AnswerLater(i, answer) => Leaves(i)
    BY LaterLeaves DEF Later
  <1>4. CASE start(i)
    BY <1>2, <1>4 DEF start
  <1>5. CASE stop(i) \/ pause(i)
    BY <1>2, <1>5 DEF stop, pause, ByTable
  <1>6. CASE cancel(i)
    BY <1>1, <1>2, <1>6 DEF cancel
  <1>7. CASE batch_start(i) \/ batch_stop(i)
    BY <1>2, <1>7 DEF batch_start, batch_stop, Batch
  <1>8. CASE group_start(i) \/ group_pause(i) \/ group_stop(i)
    BY <1>2, <1>8 DEF group_start, group_pause, group_stop, GroupAction
  <1>9. CASE settle(i)
    BY <1>3, <1>9, AwaitAsks DEF settle
  <1>10. CASE withdraw(i)
    BY <1>3, <1>10, AwaitAsks DEF withdraw
  <1>11. CASE settled(i)
    BY <1>3, <1>11 DEF settled
  <1>12. CASE evaluateWithdrawalState(i)
    BY <1>2, <1>3, <1>12 DEF evaluateWithdrawalState
  <1> QED  BY <1>4, <1>5, <1>6, <1>7, <1>8, <1>9, <1>10, <1>11, <1>12 DEF Serve

LEMMA ServeKeepsLines ==
    ASSUME LocksInv, LinesOK, NEW i \in DOMAIN requests, Serve(i)
    PROVE  LinesOK'
  <1>1. requests[i] \in RequestRow
    BY RequestIsTyped
  <1> QED  BY <1>1, ServeIsLine, RunnerHeadsAll, LeavesKeepsLines, AsksKeepsLines,
              AcquireKeepsLines, StoreKeepsLines

(* A newcomer that is answered at once joins no queue; another holds       *)
(* nothing yet.                                                            *)
LEMMA ArriveKeepsLines ==
    ASSUME LocksInv, LinesOK, NEW op, NEW ids \in Seq(Streams), ids # <<>>, NEW key, NEW amount,
           Arrive(op, ids, key, amount)
    PROVE  LinesOK'
  <1> DEFINE r == Request(op, ids, key, amount)
             i == Len(requests) + 1
  <1>1. /\ \A s : requests' = Append(requests, s) =>
              /\ DOMAIN requests' = DOMAIN requests \cup {i} /\ requests'[i] = s
              /\ \A j \in DOMAIN requests \ {i} : requests'[j] = requests[j]
        /\ i \notin DOMAIN requests
    <2>1. DOMAIN requests = 1..Len(requests) /\ Len(requests) \in Nat
      BY LenProperties DEF LocksInv
    <2>5. i \notin DOMAIN requests
      BY <2>1
    <2> SUFFICES ASSUME NEW s, requests' = Append(requests, s)
                 PROVE  /\ DOMAIN requests' = DOMAIN requests \cup {i} /\ requests'[i] = s
                        /\ \A j \in DOMAIN requests \ {i} : requests'[j] = requests[j]
      BY <2>5
    <2>2. requests \in Seq(RequestRow \cup {s}) /\ s \in RequestRow \cup {s}
      <3>1. requests \in [1..Len(requests) -> RequestRow]
        <4>1. requests \in Seq(RequestRow)
          BY DEF LocksInv
        <4> QED  BY <4>1, LenProperties
      <3>2. requests \in [1..Len(requests) -> RequestRow \cup {s}]
        BY <3>1
      <3> QED  BY <2>1, <3>2
    <2>3. /\ Append(requests, s) \in Seq(RequestRow \cup {s})
          /\ Len(Append(requests, s)) = Len(requests) + 1
          /\ Append(requests, s)[Len(requests) + 1] = s
          /\ \A j \in 1..Len(requests) : Append(requests, s)[j] = requests[j]
      BY <2>2, AppendProperties
    <2>4. DOMAIN Append(requests, s) = 1..(Len(requests) + 1)
      BY <2>3, LenProperties
    <2> QED  BY <2>1, <2>3, <2>4
  <1>2. CASE requests' = Append(requests, Done) /\ queue' = queue
    <2> HIDE DEF i
    <2>1. ASSUME NEW id \in Streams, NEW k \in DOMAIN queue[id]
          PROVE  queue[id][k] \in DOMAIN requests' /\ Wants(requests'[queue[id][k]], id, k)
      <3>1. queue[id][k] \in DOMAIN requests /\ Wants(requests[queue[id][k]], id, k)
        BY DEF LinesOK
      <3>2. requests'[queue[id][k]] = requests[queue[id][k]] /\ queue[id][k] \in DOMAIN requests'
        BY <1>1, <1>2, <3>1
      <3> QED  BY <3>1, <3>2 DEF Wants
    <2>2. \A j \in DOMAIN requests' : Ascending(requests'[j])
      BY <1>1, <1>2, DoneIsRequest DEF LinesOK, Ascending
    <2> QED  BY <1>2, <2>1, <2>2 DEF LinesOK
  <1>3. CASE requests' = Append(requests, r) /\ queue' = Joined(NextLock(r), i)
    <2>1. r.pc = "lock" /\ r.held = {} /\ r.ids = ids
      BY DEF Request
    <2>2. Remaining(r) # {}
      <3>1. 1 \in DOMAIN ids
        BY EmptySeq, LenProperties
      <3> QED  BY <2>1, <3>1 DEF Remaining, ToSet
    <2>3. NextLock(r) \in Streams
      BY <2>1, <2>2, LockIsRemaining
    <2>4. Ascending(r)
      BY <2>1 DEF Ascending
    <2>5. \A id \in Streams : \A k \in DOMAIN queue[id] : queue[id][k] # i
      BY <1>1 DEF LinesOK
    <2> HIDE DEF r, i
    <2>6. /\ DOMAIN requests' = DOMAIN requests \cup {i} /\ requests'[i] = r
          /\ \A j \in DOMAIN requests \ {i} : requests'[j] = requests[j]
      BY <1>1, <1>3
    <2> QED  BY <1>3, <2>1, <2>3, <2>4, <2>5, <2>6, JoinKeepsLines
  <1> QED  BY <1>2, <1>3 DEF Arrive

LEMMA StepKeepsLines ==
    ASSUME ApiInv, LinesOK, [Next]_vars
    PROVE  LinesOK'
  <1>1. LocksInv
    BY DEF ApiInv
  <1>2. CASE Arrival
    <2>1. PICK op, ids, key, amount :
            ids \in Seq(Streams) /\ ids # <<>> /\ Arrive(op, ids, key, amount)
      <3>1. \A id \in Targets : <<id>> \in Seq(Streams) /\ <<id>> # <<>>
        BY ApiAssumption
      <3> QED  BY <1>2, <3>1, ApiAssumption DEF Arrival
    <2> QED  BY <1>1, <2>1, ArriveKeepsLines
  <1>3. CASE \E i \in DOMAIN requests : Serve(i)
    BY <1>1, <1>3, ServeKeepsLines
  <1>4. CASE UNCHANGED <<queue, requests>>
    BY <1>4 DEF LinesOK, Wants
  <1> QED  BY <1>2, <1>3, <1>4 DEF Next, Tick, vars

(* Behind the greatest lock that is awaited stands nobody who awaits: who  *)
(* holds it, if not the first to await it, would await a greater one.      *)
LEMMA LinesMove ==
    ASSUME LocksInv, LinesOK
    PROVE  SomeoneGoesOn
  <1> SUFFICES ASSUME NEW i \in DOMAIN requests, requests[i].pc = "lock"
               PROVE  \E h \in DOMAIN requests : Turn(h)
    <2>1. \A j \in DOMAIN requests :
            requests[j].pc \in {"lock", "chain", "horizon", "store", "done"}
      BY RequestIsTyped DEF RequestRow
    <2> QED  BY <2>1 DEF SomeoneGoesOn, Turn
  <1>1. ASSUME NEW j \in DOMAIN requests, requests[j].pc = "lock"
        PROVE  /\ NextLock(requests[j]) \in Nat /\ NextLock(requests[j]) \in Streams
               /\ NextLock(requests[j]) \in Remaining(requests[j])
    <2>1. requests[j].ids \in Seq(Streams) /\ Remaining(requests[j]) # {}
      BY <1>1, RequestIsTyped DEF RequestRow, LockOK
    <2> QED  BY <2>1, LockIsRemaining, ApiAssumption
  <1> DEFINE N == Len(requests)
             W == {j \in 1..N : requests[j].pc = "lock"}
             f == [j \in 1..N |-> IF requests[j].pc = "lock" THEN NextLock(requests[j]) ELSE 0]
  <1>2. N \in Nat /\ DOMAIN requests = 1..N
    BY LenProperties DEF LocksInv
  <1>3. f \in [1..N -> Nat]
    BY <1>1, <1>2
  <1>4. W \in SUBSET (1..N) /\ W # {}
    BY <1>2
  <1> HIDE DEF f, W
  <1>5. PICK m \in W : \A j \in W : f[j] <= f[m]
    BY <1>2, <1>3, <1>4, GreatestOf
  <1>6. /\ m \in DOMAIN requests /\ requests[m].pc = "lock"
        /\ \A j \in DOMAIN requests : requests[j].pc = "lock" =>
             NextLock(requests[j]) <= NextLock(requests[m])
    BY <1>2, <1>5 DEF W, f
  <1> DEFINE lock == NextLock(requests[m])
             h == queue[lock][1]
  <1>7. QueuesOK /\ lock \in Streams /\ lock \in Nat /\ Waits(lock, m)
    BY <1>1, <1>6, RequestIsTyped DEF LockOK
  <1> HIDE DEF lock
  <1>8. 1 \in DOMAIN queue[lock] /\ Heads(lock, h)
    <2>1. queue[lock] # <<>> /\ queue[lock] \in Seq(1..MaxRequests)
      BY <1>7, HeadWaits DEF QueuesOK
    <2>2. 1 \in DOMAIN queue[lock]
      BY <2>1, EmptySeq, LenProperties
    <2> QED  BY <2>1, <2>2 DEF Heads
  <1>9. h \in DOMAIN requests /\ Wants(requests[h], lock, 1)
    BY <1>7, <1>8 DEF LinesOK
  <1> HIDE DEF h
  <1>10. ~(requests[h].pc = "lock" /\ lock \in requests[h].held)
    <2> SUFFICES ASSUME requests[h].pc = "lock", lock \in requests[h].held PROVE FALSE
      OBVIOUS
    <2>1. NextLock(requests[h]) \in Remaining(requests[h]) /\ NextLock(requests[h]) \in Nat
      BY <1>1, <1>9
    <2>2. lock < NextLock(requests[h])
      BY <1>9, <2>1 DEF LinesOK, Ascending
    <2>3. NextLock(requests[h]) <= lock
      BY <1>6, <1>9 DEF lock
    <2> QED  BY <1>7, <2>1, <2>2, <2>3
  <1>11. Turn(h)
    BY <1>8, <1>9, <1>10 DEF Wants, Turn
  <1> QED  BY <1>9, <1>11

-----------------------------------------------------------------------------
(* The theorems                                                            *)

(* The inductive invariant: rows that fit together and account for what    *)
(* they paid, the lock discipline, and the tokens that have acted.         *)
THEOREM ApiInvariant == Spec => []ApiInv
  <1>1. ApiInv /\ [Next]_vars => ApiInv'
    BY StepKeepsInv
  <1> QED  BY <1>1, InitIsGood, PTL DEF Spec

(* Every row fits together in every state.                                 *)
THEOREM ApiTypes == Spec => []TypeOK
  <1>1. ApiInv => TypeOK
    <2> SUFFICES ASSUME ApiInv
                 PROVE  TypeOK
      OBVIOUS
    <2>1. \A i \in DOMAIN requests :
            requests[i].pc \in {"lock", "chain", "horizon", "store", "done"}
      BY RequestIsTyped DEF ApiInv, RequestRow
    <2>2. paid \in [Streams -> Nat]
      BY RowTypes DEF ApiInv, RowsInv
    <2>3. \A id \in Streams : RowFits(stream[id], now)
      BY DEF ApiInv, RowsInv
    <2> QED  BY <2>1, <2>2, <2>3 DEF ApiInv, RowsInv, LocksInv, OnceInv, RowFits, TypeOK
  <1> QED  BY <1>1, ApiInvariant, PTL

(* A row accounts for every payout of its stream, and no payout exceeds    *)
(* what has vested, for any interleaving of withdrawals, settlements and   *)
(* cancellations and any answer of the services they await.                *)
THEOREM RowsAccountForPayouts == Spec => []PayoutsAccounted
  <1>1. ApiInv => PayoutsAccounted
    BY DEF ApiInv, RowsInv, RowFits, PayoutsAccounted
  <1> QED  BY <1>1, ApiInvariant, PTL

(* Under one key a lifecycle request or group action acts at most once.    *)
THEOREM KeysActOnce == Spec => []AppliedOnce
  <1>1. ApiInv => AppliedOnce
    BY DEF ApiInv, OnceInv
  <1> QED  BY <1>1, ApiInvariant, PTL

(* No change of status leaves the transition table, from a second write    *)
(* after an await least of all: the row a request has in hand is current.  *)
THEOREM StatusesFollowTable == Spec => FollowsTable
  <1> DEFINE Follows ==
        \A id \in Streams : stream'[id].status # stream[id].status =>
          \E action \in Action :
              <<stream[id].status, action, stream'[id].status>> \in TRANSITIONS
  <1>1. ApiInv /\ [Next]_vars => [Follows]_vars
    BY StepKeepsInv DEF RowsStep, RowMove
  <1>2. Spec => [][Follows]_vars
    BY <1>1, ApiInvariant, PTL DEF Spec
  <1> QED  BY <1>2 DEF FollowsTable

(* What has vested never falls.                                            *)
THEOREM VestedIsKept == Spec => VestedNeverFalls
  <1> DEFINE Kept == \A id \in Streams : Vested(stream[id], now) <= Vested(stream'[id], now')
  <1>1. ApiInv /\ [Next]_vars => [Kept]_vars
    BY StepKeepsInv DEF RowsStep, RowMove
  <1>2. Spec => [][Kept]_vars
    BY <1>1, ApiInvariant, PTL DEF Spec
  <1> QED  BY <1>2 DEF VestedNeverFalls

(* As long as a request is unanswered, one of them can go on: no requests, *)
(* batches and groups wait for one another in a circle, because locks are  *)
(* taken in the order of the names (batch/start/route.ts, actions.ts).     *)
THEOREM NobodyWaitsInACircle == Spec => []SomeoneGoesOn
  <1>1. Init => LinesOK
    BY EmptySeq DEF Init, LinesOK
  <1>2. ApiInv /\ LinesOK /\ [Next]_vars => LinesOK'
    BY StepKeepsLines
  <1>3. ApiInv /\ LinesOK => SomeoneGoesOn
    BY LinesMove DEF ApiInv
  <1> QED  BY <1>1, <1>2, <1>3, ApiInvariant, PTL DEF Spec
=============================================================================
