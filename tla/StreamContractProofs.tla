------------------------ MODULE StreamContractProofs ------------------------
(***************************************************************************)
(* Every reachable state of the escrow contract is well-typed, accounts    *)
(* for each stream's deposit, has released no more than has vested and     *)
(* holds in all what its live streams owe; and what a call may do to a     *)
(* schedule, to the settings and to anybody's tokens: for any accounts,    *)
(* tokens, bounds and call arguments.                                      *)
(*                                                                         *)
(* The invariant is proved row by row: a call rewrites one stream row, the *)
(* tokens held for it and its membership of shorted.  RowSafe says what    *)
(* holds of these three at time t; a lemma per kind of call shows that the *)
(* new row is safe, and the step lemma puts it back among the others.      *)
(***************************************************************************)
EXTENDS StreamContract, AccrualProofs, FiniteSetTheorems

RowSafe(s, h, short, t) ==
    /\ s \in Stream
    /\ RowOK(s, t)
    /\ Accounted(s, h, short)
    /\ ~short => WithinVested(s, t)

(* The inductive invariant. *)
IInv == TypeOK /\ EscrowAccounted /\ NeverOverReleased

LEMMA StreamSchedule ==
    ASSUME NEW s \in Stream
    PROVE  ScheduleOK(s)
  BY DEF Stream, ScheduleOK

(* The ledger closes. *)
LEMMA RowTick ==
    ASSUME NEW s, NEW h, NEW short, NEW t \in Nat, NEW u \in Nat, t <= u,
           RowSafe(s, h, short, t)
    PROVE  RowSafe(s, h, short, u)
  <1>1. s \in Stream /\ ScheduleOK(s)
    BY StreamSchedule DEF RowSafe
  <1>2. /\ vested_amount(s, t) <= vested_amount(s, u)
        /\ vested_amount(s, t) \in 0..s.total_amount
        /\ vested_amount(s, u) \in 0..s.total_amount
    BY <1>1, VestedMonotone, VestedBounds
  <1>3. RowOK(s, u)
    BY <1>1 DEF RowSafe, RowOK, Stream
  <1>4. ~short => WithinVested(s, u)
    BY <1>1, <1>2 DEF RowSafe, WithinVested, Stream
  <1> QED  BY <1>1, <1>3, <1>4 DEF RowSafe

(* pause freezes the schedule where it stands. *)
PausedRow(s, t) == [s EXCEPT !.status = "Paused", !.paused_at = t]

LEMMA RowPause ==
    ASSUME NEW s, NEW h, NEW short, NEW t \in Nat,
           RowSafe(s, h, short, t), s.status = "Active"
    PROVE  RowSafe(PausedRow(s, t), h, short, t)
  <1> DEFINE r == PausedRow(s, t)
  <1>1. /\ s \in Stream /\ ScheduleOK(s)
        /\ r \in Stream /\ ScheduleOK(r)
    BY StreamSchedule DEF RowSafe, PausedRow, Stream, Status
  <1>2. Elapsed(s, t) <= Elapsed(r, t)
    BY <1>1 DEF PausedRow, Stream, ScheduleOK, Elapsed, EffectiveNow,
                SaturatingSub, Larger, Smaller
  <1>3. r.status = "Paused" /\ r.total_amount = s.total_amount /\ r.duration = s.duration
        /\ r.released_amount = s.released_amount
    BY <1>1 DEF PausedRow, Stream
  <1>4. /\ vested_amount(s, t) <= vested_amount(r, t)
        /\ vested_amount(s, t) \in 0..s.total_amount
        /\ vested_amount(r, t) \in 0..r.total_amount
    BY <1>1, <1>2, <1>3, VestedFollowsElapsed, VestedBounds
  <1>5. RowOK(r, t) /\ Accounted(r, h, short)
    BY <1>1 DEF PausedRow, RowSafe, RowOK, Accounted, Live, Stream
  <1>6. ~short => WithinVested(r, t)
    BY <1>1, <1>3, <1>4 DEF RowSafe, WithinVested, Live, Stream
  <1> QED  BY <1>1, <1>5, <1>6 DEF RowSafe

(* resume moves the end by the time paused and discounts that time, so     *)
(* accrual goes on from where the pause stopped it.                        *)
ResumedRow(s, t) ==
    [s EXCEPT !.status = "Active", !.paused_at = 0,
              !.total_paused_duration = @ + (t - s.paused_at),
              !.end_time = @ + (t - s.paused_at)]

LEMMA ResumeKeepsElapsed ==
    ASSUME NEW s \in Stream, NEW t \in Nat, RowOK(s, t), s.status = "Paused"
    PROVE  /\ ResumedRow(s, t) \in Stream
           /\ Elapsed(s, t) = Elapsed(ResumedRow(s, t), t)
  <1> DEFINE r == ResumedRow(s, t)
  <1>1. /\ s.paused_at <= t /\ s.start_time <= s.end_time
        /\ s.paused_at \in Nat /\ s.start_time \in Nat /\ s.end_time \in Nat
        /\ s.total_paused_duration \in Nat
    BY DEF RowOK, Stream
  <1>2. r \in Stream
    <2>1. /\ s.total_paused_duration + (t - s.paused_at) \in Nat
          /\ s.end_time + (t - s.paused_at) \in Nat
      BY <1>1
    <2>2. "Active" \in Status /\ 0 \in Nat
      BY DEF Status
    <2> QED  BY <2>1, <2>2 DEF ResumedRow, Stream
  <1>3. /\ r.status = "Active" /\ r.start_time = s.start_time
        /\ r.end_time = s.end_time + (t - s.paused_at)
        /\ r.total_paused_duration = s.total_paused_duration + (t - s.paused_at)
    BY <1>1 DEF ResumedRow, Stream
  <1>4. Elapsed(s, t) = Elapsed(r, t)
    <2> DEFINE clamped == Larger(s.start_time, Smaller(t, s.end_time))
               extended == Larger(s.start_time,
                                  Smaller(t, s.end_time + (t - s.paused_at)))
    <2>1. /\ EffectiveNow(s, t) = Smaller(clamped, s.paused_at)
          /\ EffectiveNow(r, t) = extended
      BY <1>3 DEF EffectiveNow
    <2>2. SaturatingSub(SaturatingSub(Smaller(clamped, s.paused_at), s.start_time),
                        s.total_paused_duration)
            = SaturatingSub(SaturatingSub(extended, s.start_time),
                            s.total_paused_duration + (t - s.paused_at))
      BY <1>1 DEF SaturatingSub, Larger, Smaller
    <2> QED  BY <2>1, <2>2, <1>3 DEF Elapsed
  <1> QED  BY <1>2, <1>4

LEMMA RowResume ==
    ASSUME NEW s, NEW h, NEW short, NEW t \in Nat,
           RowSafe(s, h, short, t), s.status = "Paused"
    PROVE  RowSafe(ResumedRow(s, t), h, short, t)
  <1> DEFINE r == ResumedRow(s, t)
  <1>1. /\ s \in Stream /\ RowOK(s, t) /\ r \in Stream
        /\ ScheduleOK(s) /\ ScheduleOK(r)
        /\ Elapsed(s, t) <= Elapsed(r, t)
    BY ResumeKeepsElapsed, StreamSchedule, ElapsedType DEF RowSafe
  <1>2. /\ r.status = "Active" /\ r.total_amount = s.total_amount
        /\ r.duration = s.duration /\ r.released_amount = s.released_amount
    BY <1>1 DEF ResumedRow, Stream
  <1>3. /\ vested_amount(s, t) <= vested_amount(r, t)
        /\ vested_amount(s, t) \in 0..s.total_amount
        /\ vested_amount(r, t) \in 0..r.total_amount
    BY <1>1, <1>2, VestedFollowsElapsed, VestedBounds
  <1>4. RowOK(r, t) /\ Accounted(r, h, short)
    BY <1>1 DEF ResumedRow, RowSafe, RowOK, Accounted, Live, Stream
  <1>5. ~short => WithinVested(r, t)
    BY <1>1, <1>2, <1>3 DEF RowSafe, WithinVested, Live, Stream
  <1> QED  BY <1>1, <1>4, <1>5 DEF RowSafe

(* start_stream opens the schedule of a draft, which has released nothing. *)
LEMMA RowStart ==
    ASSUME NEW s, NEW h, NEW short, NEW t \in Nat,
           RowSafe(s, h, short, t), s.status = "Draft"
    PROVE  RowSafe([s EXCEPT !.status = "Active", !.start_time = t,
                             !.end_time = t + s.duration], h, short, t)
  <1> DEFINE r == [s EXCEPT !.status = "Active", !.start_time = t,
                            !.end_time = t + s.duration]
  <1>1. s \in Stream /\ r \in Stream /\ ScheduleOK(r)
    <2>1. s \in Stream /\ t + s.duration \in Nat /\ "Active" \in Status
      BY DEF RowSafe, Stream, Status
    <2>2. r \in Stream
      BY <2>1 DEF Stream
    <2> QED  BY <2>1, <2>2, StreamSchedule
  <1>2. vested_amount(r, t) \in 0..r.total_amount
    BY <1>1, VestedBounds
  <1>3. /\ RowOK(r, t) /\ Accounted(r, h, short)
        /\ r.released_amount = 0
    BY <1>1 DEF RowSafe, RowOK, Accounted, Live, Stream
  <1>4. WithinVested(r, t)
    BY <1>1, <1>2, <1>3 DEF WithinVested, Stream
  <1> QED  BY <1>1, <1>3, <1>4 DEF RowSafe

(* amend_stream and admin_override: the new schedule may have vested less  *)
(* than was released, and then the row is shorted.                         *)
LEMMA RowReschedule ==
    ASSUME NEW s, NEW h, NEW short, NEW t \in Nat, NEW end \in Nat,
           RowSafe(s, h, short, t), s.status \in Live, end > s.start_time
    PROVE  RowSafe(Rescheduled(s, end), h,
                   short \/ vested_amount(Rescheduled(s, end), t)
                              < Rescheduled(s, end).released_amount, t)
  <1> DEFINE r == Rescheduled(s, end)
             behind == vested_amount(r, t) < r.released_amount
  <1>1. s \in Stream /\ r \in Stream /\ ScheduleOK(r)
    <2>1. s \in Stream /\ s.start_time \in Nat
      BY DEF RowSafe, Stream
    <2>2. end - s.start_time \in Nat
      BY <2>1
    <2>3. r \in Stream
      BY <2>1, <2>2 DEF Rescheduled, Stream
    <2> QED  BY <2>1, <2>3, StreamSchedule
  <1>2. vested_amount(r, t) \in 0..r.total_amount
    BY <1>1, VestedBounds
  <1>3. RowOK(r, t)
    BY <1>1 DEF RowSafe, RowOK, Rescheduled, Live, Stream
  <1>4. Accounted(r, h, short \/ behind)
    <2>1. /\ r.status = s.status /\ r.total_amount = s.total_amount
          /\ r.released_amount = s.released_amount
      BY <1>1 DEF Rescheduled, Stream
    <2>2. Accounted(s, h, short) /\ RowOK(s, t)
      BY DEF RowSafe
    <2>3. h = s.total_amount - s.released_amount /\ h >= 0
      BY <2>2, <1>1 DEF Accounted, RowOK, Stream
    <2> QED  BY <2>1, <2>3 DEF Accounted, Live
  <1>5. ~behind => WithinVested(r, t)
    BY <1>1, <1>2 DEF WithinVested, Stream
  <1> QED  BY <1>1, <1>3, <1>4, <1>5 DEF RowSafe

(* Both withdraw entrypoints: amount is at most what is withdrawable. *)
LEMMA RowRelease ==
    ASSUME NEW s, NEW h \in Int, NEW short, NEW t \in Nat, NEW amount \in Nat,
           RowSafe(s, h, short, t), s.status \in {"Active", "Paused"},
           amount > 0, amount <= withdrawable(s, t)
    PROVE  RowSafe(Released(s, amount), h - amount, short, t)
  <1> DEFINE r == Released(s, amount)
  <1>1. s \in Stream /\ ScheduleOK(s)
    BY StreamSchedule DEF RowSafe
  <1>2. vested_amount(s, t) \in 0..s.total_amount
    BY <1>1, VestedBounds
  <1>3. s.released_amount + amount <= vested_amount(s, t)
    BY <1>1, <1>2 DEF withdrawable, Larger, Stream
  <1>4. r \in Stream /\ r.released_amount = s.released_amount + amount
    <2>1. /\ s.status \in Status /\ s.released_amount \in Nat
          /\ s.released_amount + amount \in Nat
      BY <1>1 DEF Stream
    <2>2. (IF s.released_amount + amount = s.total_amount
           THEN "Settled" ELSE s.status) \in Status
      BY <2>1 DEF Status
    <2> QED  BY <1>1, <2>1, <2>2 DEF Released, Stream
  <1>5. RowOK(r, t)
    BY <1>1, <1>2, <1>3 DEF RowSafe, RowOK, Released, Stream
  <1>6. Accounted(r, h - amount, short)
    BY <1>1, <1>2, <1>3 DEF RowSafe, Accounted, Released, Live, Stream
  <1>7. WithinVested(r, t)
    <2>1. CASE s.released_amount + amount = s.total_amount
      BY <2>1, <1>1 DEF WithinVested, Released, Live, Stream
    <2>2. CASE s.released_amount + amount # s.total_amount
      <3>1. vested_amount(r, t) = vested_amount(s, t)
        BY <2>2, <1>1 DEF Released, Stream, vested_amount, Elapsed, EffectiveNow
      <3> QED  BY <3>1, <1>1, <1>2, <1>3, <1>4 DEF WithinVested, Released, Stream
    <2> QED  BY <2>1, <2>2
  <1> QED  BY <1>4, <1>5, <1>6, <1>7 DEF RowSafe

(* settle pays out the rest. *)
LEMMA RowSettle ==
    ASSUME NEW s, NEW h \in Int, NEW short, NEW t \in Nat,
           RowSafe(s, h, short, t), s.status \in {"Active", "Paused"}
    PROVE  RowSafe([s EXCEPT !.status = "Settled", !.released_amount = s.total_amount],
                   h - (s.total_amount - s.released_amount), short, t)
  <1> DEFINE r == [s EXCEPT !.status = "Settled", !.released_amount = s.total_amount]
  <1>1. s \in Stream /\ r \in Stream
    BY DEF RowSafe, Stream, Status
  <1>2. /\ r.status = "Settled" /\ r.released_amount = r.total_amount
        /\ r.total_amount \in Nat
    BY <1>1 DEF Stream
  <1>3. h - (s.total_amount - s.released_amount) = 0
    BY <1>1 DEF RowSafe, Accounted, Live, Stream
  <1>4. RowOK(r, t)
    BY <1>1, <1>2 DEF RowSafe, RowOK, Stream
  <1> QED  BY <1>1, <1>2, <1>3, <1>4 DEF RowSafe, Accounted, WithinVested, Live

(* cancel_stream pays out what has vested and refunds the rest: together   *)
(* the unreleased amount, or more for a row that was shorted.              *)
LEMMA RowCancel ==
    ASSUME NEW s, NEW h \in Int, NEW short, NEW t \in Nat,
           RowSafe(s, h, short, t), s.status \in Live
    PROVE  RowSafe([s EXCEPT !.status = "Cancelled",
                             !.released_amount = @ + withdrawable(s, t)],
                   h - (withdrawable(s, t) + (s.total_amount - vested_amount(s, t))),
                   short, t)
  <1> DEFINE due == withdrawable(s, t)
             r == [s EXCEPT !.status = "Cancelled", !.released_amount = @ + due]
  <1>1. s \in Stream /\ ScheduleOK(s)
    BY StreamSchedule DEF RowSafe
  <1>2. vested_amount(s, t) \in 0..s.total_amount
    BY <1>1, VestedBounds
  <1>3. due \in Nat /\ s.released_amount + due <= s.total_amount
    BY <1>1, <1>2 DEF RowSafe, RowOK, withdrawable, Larger, Stream
  <1>4. r \in Stream /\ RowOK(r, t)
    <2>1. s.released_amount + due \in Nat /\ "Cancelled" \in Status
      BY <1>1, <1>3 DEF Stream, Status
    <2>2. r \in Stream
      BY <1>1, <2>1 DEF Stream
    <2>3. RowOK(r, t)
      BY <1>1, <1>3 DEF RowSafe, RowOK, Stream, Live
    <2> QED  BY <2>2, <2>3
  <1>5. Accounted(r, h - (due + (s.total_amount - vested_amount(s, t))), short)
    <2>1. due = Larger(0, vested_amount(s, t) - s.released_amount)
      BY DEF withdrawable
    <2>2. ~short => s.released_amount <= vested_amount(s, t)
      BY DEF RowSafe, WithinVested
    <2>3. h = s.total_amount - s.released_amount
      BY DEF RowSafe, Accounted
    <2>4. r.status = "Cancelled"
      BY <1>1 DEF Stream
    <2> QED  BY <1>1, <1>2, <2>1, <2>2, <2>3, <2>4 DEF Accounted, Live, Larger, Stream
  <1>6. WithinVested(r, t)
    BY <1>1 DEF WithinVested, Live, Stream
  <1> QED  BY <1>4, <1>5, <1>6 DEF RowSafe

-----------------------------------------------------------------------------
(* The two halves of the invariant: what concerns stream rows, and the     *)
(* types of everything else.                                               *)
Rows ==
    /\ now \in 1..MaxTime
    /\ nextId \in 1..(MaxStreams + 1)
    /\ streams \in [Ids -> Stream]
    /\ held \in [Ids -> Int]
    /\ shorted \subseteq Ids
    /\ \A id \in Ids : id >= nextId => streams[id] = NoStream
    /\ \A id \in Ids : RowSafe(streams[id], held[id], id \in shorted, now)

Rest ==
    /\ settings \in Settings
    /\ senderCount \in [Accounts -> Nat]
    /\ cooloffUntil \in [Accounts -> Nat]
    /\ withdrawers \in [Ids -> SUBSET Accounts]
    /\ streamFee \in [Ids -> {NoEntry, 0}]
    /\ balance \in [Tokens -> [Holders -> Nat]]

LEMMA Halves == IInv <=> Rows /\ Rest
  BY DEF IInv, TypeOK, EscrowAccounted, NeverOverReleased, Rows, Rest, RowSafe

LEMMA HalvesNext == IInv' <=> Rows' /\ Rest'
  BY DEF IInv, TypeOK, EscrowAccounted, NeverOverReleased, Rows, Rest, RowSafe

(* A call that touches the row of id alone. *)
LEMMA OneRow ==
    ASSUME Rows, NEW id \in Ids, NEW row, NEW h \in Int,
           streams[id].status # "Absent",
           streams' = [streams EXCEPT ![id] = row],
           held' = [held EXCEPT ![id] = h],
           \/ shorted' = shorted
           \/ shorted' = shorted \cup {id},
           RowSafe(row, h, id \in shorted', now),
           UNCHANGED <<now, nextId>>
    PROVE  Rows'
  <1>1. ~(id >= nextId)
    BY DEF Rows, NoStream, Opened
  <1>2. row \in Stream
    BY DEF RowSafe
  <1>3. \A i \in Ids : RowSafe(streams'[i], held'[i], i \in shorted', now)
    <2> SUFFICES ASSUME NEW i \in Ids
                 PROVE  RowSafe(streams'[i], held'[i], i \in shorted', now)
      OBVIOUS
    <2>1. CASE i = id
      <3>1. streams'[i] = row /\ held'[i] = h
        BY <2>1 DEF Rows
      <3> QED  BY <2>1, <3>1
    <2>2. CASE i # id
      <3>1. /\ streams'[i] = streams[i] /\ held'[i] = held[i]
            /\ i \in shorted' <=> i \in shorted
        BY <2>2 DEF Rows
      <3>2. RowSafe(streams[i], held[i], i \in shorted, now)
        BY DEF Rows
      <3> QED  BY <3>1, <3>2 DEF RowSafe
    <2> QED  BY <2>1, <2>2
  <1> QED  BY <1>1, <1>2, <1>3 DEF Rows

(* A transfer that the payer can cover keeps every balance natural. *)
LEMMA TransferType ==
    ASSUME NEW ledger \in [Tokens -> [Holders -> Nat]], NEW t \in Tokens,
           NEW from \in Holders, NEW to \in Holders, NEW amount \in Nat,
           ledger[t][from] >= amount
    PROVE  /\ Transfer(ledger, t, from, to, amount) \in [Tokens -> [Holders -> Nat]]
           /\ Transfer(ledger, t, from, to, amount)[t][from] >= ledger[t][from] - amount
  <1> DEFINE paid == [ledger EXCEPT ![t][from] = @ - amount]
             after == [paid EXCEPT ![t][to] = @ + amount]
  <1>1. paid \in [Tokens -> [Holders -> Nat]]
    OBVIOUS
  <1>2. paid[t][from] = ledger[t][from] - amount
    OBVIOUS
  <1>3. after \in [Tokens -> [Holders -> Nat]]
    BY <1>1
  <1>4. after[t][from] >= paid[t][from]
    <2>1. /\ paid[t] \in [Holders -> Nat]
          /\ after[t] = [paid[t] EXCEPT ![to] = @ + amount]
      BY <1>1
    <2>2. CASE from = to
      <3>1. after[t][from] = paid[t][from] + amount /\ paid[t][from] \in Nat
        BY <2>1, <2>2
      <3> QED  BY <3>1
    <2>3. CASE from # to
      <3>1. after[t][from] = paid[t][from] /\ paid[t][from] \in Nat
        BY <2>1, <2>3
      <3> QED  BY <3>1
    <2> QED  BY <2>2, <2>3
  <1>5. Transfer(ledger, t, from, to, amount) = after
    BY DEF Transfer
  <1> QED  BY <1>2, <1>3, <1>4, <1>5

LEMMA CountTypes ==
    ASSUME Rest, NEW a \in Accounts
    PROVE  /\ Counted(a) \in [Accounts -> Nat]
           /\ Uncounted(a) \in [Accounts -> Nat]
  BY DEF Rest, Counted, Uncounted, SaturatingSub

LEMMA CooloffType ==
    ASSUME Rows, Rest, NEW a \in Accounts
    PROVE  CooloffStarted(a) \in [Accounts -> Nat]
  <1>1. settings.cooloffDuration \in Nat /\ now \in Nat /\ U64Max \in Nat
    BY WidthAssumption DEF Rows, Rest, Settings
  <1>2. Smaller(now + settings.cooloffDuration, U64Max) \in Nat
    BY <1>1 DEF Smaller
  <1> QED  BY <1>2 DEF CooloffStarted, Rest

(* The parties of a row that exists, and what is held for a live one. *)
LEMMA RowParties ==
    ASSUME Rows, NEW id \in Ids, streams[id].status # "Absent"
    PROVE  /\ streams[id] \in Stream /\ held[id] \in Int
           /\ RowSafe(streams[id], held[id], id \in shorted, now)
           /\ streams[id].sender \in Accounts
           /\ streams[id].recipient \in Accounts
           /\ streams[id].token \in Tokens
           /\ now \in Nat
  BY ContractAssumption DEF Rows, RowSafe, RowOK

-----------------------------------------------------------------------------
(* One step of every kind keeps the invariant *)

LEMMA TickStep ==
    ASSUME Rows, Rest, Tick
    PROVE  Rows' /\ Rest'
  <1>1. now \in Nat /\ now' \in Nat /\ now <= now' /\ now' \in 1..MaxTime
    BY ContractAssumption DEF Rows, Tick
  <1>2. /\ streams' = streams /\ held' = held /\ shorted' = shorted /\ nextId' = nextId
        /\ UNCHANGED <<settings, senderCount, cooloffUntil, withdrawers, streamFee, balance>>
    BY DEF Tick, rows, throttles, money
  <1>3. \A id \in Ids : RowSafe(streams[id], held[id], id \in shorted, now')
    <2> SUFFICES ASSUME NEW id \in Ids
                 PROVE  RowSafe(streams[id], held[id], id \in shorted, now')
      OBVIOUS
    <2>1. RowSafe(streams[id], held[id], id \in shorted, now)
      BY DEF Rows
    <2> QED  BY <1>1, <2>1, RowTick
  <1> QED  BY <1>1, <1>2, <1>3 DEF Rows, Rest

(* A new row at nextId: its deposit leaves the sender and is all held. *)
LEMMA NewRowStep ==
    ASSUME Rows, Rest, NEW row \in Stream,
           row.status \in {"Draft", "Active"}, row.sender \in Accounts,
           row.recipient \in Accounts, row.token \in Tokens,
           row.released_amount = 0, row.start_time <= row.end_time,
           NewRow(row), UNCHANGED <<now, shorted>>
    PROVE  /\ Rows'
           /\ cooloffUntil' \in [Accounts -> Nat]
           /\ balance' \in [Tokens -> [Holders -> Nat]]
           /\ nextId \in Ids
  <1> DEFINE deposit == row.total_amount
  <1>1. /\ nextId \in Ids /\ nextId' = nextId + 1
        /\ streams' = [streams EXCEPT ![nextId] = row]
        /\ held' = [held EXCEPT ![nextId] = @ + deposit]
        /\ balance' = Transfer(balance, row.token, row.sender, Escrow, deposit)
        /\ balance[row.token][row.sender] >= deposit
        /\ cooloffUntil' = CooloffStarted(row.sender)
    BY DEF NewRow, Escrowed, Rows, Ids
  <1>2. /\ deposit \in Nat /\ now \in Nat
        /\ streams[nextId].status = "Absent" /\ held[nextId] = 0
    <2>1. streams[nextId] = NoStream /\ deposit \in Nat /\ now \in Nat
      BY <1>1, ContractAssumption DEF Rows, Stream
    <2>2. Accounted(streams[nextId], held[nextId], nextId \in shorted)
      BY <1>1 DEF Rows, RowSafe
    <2> QED  BY <2>1, <2>2 DEF Accounted, NoStream, Opened
  <1>3. RowSafe(row, deposit, nextId \in shorted, now)
    <2>1. ScheduleOK(row)
      BY StreamSchedule
    <2>2. vested_amount(row, now) \in 0..row.total_amount
      BY <1>2, <2>1, VestedBounds
    <2>3. RowOK(row, now) /\ Accounted(row, deposit, nextId \in shorted)
      BY <1>2 DEF RowOK, Accounted, Live
    <2>4. WithinVested(row, now)
      BY <2>2, <1>2 DEF WithinVested
    <2> QED  BY <2>3, <2>4 DEF RowSafe
  <1>4. \A id \in Ids : RowSafe(streams'[id], held'[id], id \in shorted, now)
    <2> SUFFICES ASSUME NEW id \in Ids
                 PROVE  RowSafe(streams'[id], held'[id], id \in shorted, now)
      OBVIOUS
    <2>1. CASE id = nextId
      <3>1. streams'[id] = row /\ held'[id] = deposit
        BY <1>1, <1>2, <2>1 DEF Rows
      <3> QED  BY <1>3, <2>1, <3>1
    <2>2. CASE id # nextId
      <3>1. streams'[id] = streams[id] /\ held'[id] = held[id]
        BY <1>1, <2>2 DEF Rows
      <3>2. RowSafe(streams[id], held[id], id \in shorted, now)
        BY DEF Rows
      <3> QED  BY <3>1, <3>2
    <2> QED  BY <2>1, <2>2
  <1>5. /\ nextId' \in 1..(MaxStreams + 1)
        /\ \A id \in Ids : id >= nextId' => streams'[id] = NoStream
    BY <1>1, ContractAssumption DEF Rows, Ids
  <1>6. streams' \in [Ids -> Stream] /\ held' \in [Ids -> Int]
    BY <1>1, <1>2 DEF Rows
  <1>7. balance' \in [Tokens -> [Holders -> Nat]]
    BY <1>1, <1>2, TransferType DEF Rest, Holders
  <1> QED  BY <1>1, <1>4, <1>5, <1>6, <1>7, CooloffType DEF Rows

LEMMA CreateStep ==
    ASSUME Rows, Rest, NEW sender \in Accounts, NEW recipient \in Accounts,
           NEW token \in Tokens, NEW amount \in Nat,
           NEW start \in Nat, NEW end \in Nat, NEW bps \in Nat,
           create_stream(sender, recipient, token, amount, start, end, bps)
    PROVE  Rows' /\ Rest'
  <1> DEFINE row == Opened("Active", sender, recipient, token, amount,
                           start, end, end - start, bps)
  <1>1. /\ NewRow(row) /\ end > start /\ bps <= MAX_FEE_BPS
        /\ UNCHANGED <<now, settings, senderCount, withdrawers, streamFee, shorted>>
    BY DEF create_stream
  <1>2. end - start \in Nat /\ bps \in 0..MAX_FEE_BPS /\ "Active" \in Status
    <2>1. end > start /\ bps <= MAX_FEE_BPS
      BY <1>1
    <2> QED  BY <2>1, SMTT(30) DEF MAX_FEE_BPS, Status
  <1>3. /\ row \in Stream /\ row.status = "Active" /\ row.released_amount = 0
        /\ row.sender = sender /\ row.recipient = recipient /\ row.token = token
        /\ row.start_time = start /\ row.end_time = end
    BY <1>2 DEF Opened, Stream
  <1> HIDE DEF row
  <1>4. /\ Rows' /\ cooloffUntil' \in [Accounts -> Nat]
        /\ balance' \in [Tokens -> [Holders -> Nat]]
    BY <1>1, <1>3, NewRowStep
  <1> QED  BY <1>1, <1>4 DEF Rest

LEMMA CreateDraftStep ==
    ASSUME Rows, Rest, NEW sender \in Accounts, NEW recipient \in Accounts,
           NEW token \in Tokens, NEW amount \in Nat, NEW duration \in Nat,
           create_draft_stream(sender, recipient, token, amount, duration)
    PROVE  Rows' /\ Rest'
  <1> DEFINE row == Opened("Draft", sender, recipient, token, amount, 0, 0, duration, 0)
  <1>1. /\ NewRow(row)
        /\ streamFee' = [streamFee EXCEPT ![nextId] = 0]
        /\ senderCount' = Counted(sender)
        /\ UNCHANGED <<now, settings, withdrawers, shorted>>
    BY DEF create_draft_stream
  <1>2. 0 \in 0..MAX_FEE_BPS /\ "Draft" \in Status
    BY DEF MAX_FEE_BPS, Status
  <1>3. /\ row \in Stream /\ row.status = "Draft" /\ row.released_amount = 0
        /\ row.sender = sender /\ row.recipient = recipient /\ row.token = token
        /\ row.start_time = 0 /\ row.end_time = 0
    BY <1>2 DEF Opened, Stream
  <1> HIDE DEF row
  <1>4. /\ Rows' /\ cooloffUntil' \in [Accounts -> Nat]
        /\ balance' \in [Tokens -> [Holders -> Nat]] /\ nextId \in Ids
    BY <1>1, <1>3, NewRowStep
  <1>5. streamFee' \in [Ids -> {NoEntry, 0}] /\ senderCount' \in [Accounts -> Nat]
    BY <1>1, <1>4, CountTypes DEF Rest
  <1> QED  BY <1>1, <1>4, <1>5 DEF Rest

(* start_stream, pause and resume rewrite the row and move no tokens. *)
LEMMA RowOnlyStep ==
    ASSUME Rows, Rest, NEW id \in Ids, NEW row,
           streams[id].status # "Absent",
           streams' = [streams EXCEPT ![id] = row],
           RowSafe(row, held[id], id \in shorted, now),
           UNCHANGED <<now, settings, nextId, withdrawers, streamFee,
                       throttles, money, shorted>>
    PROVE  Rows' /\ Rest'
  <1>1. held[id] \in Int /\ held' = [held EXCEPT ![id] = held[id]]
    BY DEF Rows, money
  <1>2. UNCHANGED <<now, nextId>> /\ shorted' = shorted
    OBVIOUS
  <1>3. Rows'
    BY <1>1, <1>2, OneRow
  <1>4. UNCHANGED <<settings, senderCount, cooloffUntil, withdrawers, streamFee, balance>>
    BY DEF throttles, money
  <1> QED  BY <1>3, <1>4 DEF Rest

LEMMA StartStep ==
    ASSUME Rows, Rest, NEW id \in Ids, start_stream(id)
    PROVE  Rows' /\ Rest'
  <1> DEFINE s == streams[id]
             row == [s EXCEPT !.status = "Active", !.start_time = now,
                              !.end_time = now + s.duration]
  <1>1. s.status = "Draft"
    BY DEF start_stream
  <1>2. RowSafe(row, held[id], id \in shorted, now)
    BY <1>1, RowParties, RowStart
  <1>3. streams' = [streams EXCEPT ![id] = row]
    BY DEF start_stream, Rows
  <1> QED  BY <1>1, <1>2, <1>3, RowOnlyStep DEF start_stream

LEMMA PauseStep ==
    ASSUME Rows, Rest, NEW id \in Ids, pause(id)
    PROVE  Rows' /\ Rest'
  <1>1. streams[id].status = "Active"
    BY DEF pause
  <1>2. RowSafe(PausedRow(streams[id], now), held[id], id \in shorted, now)
    BY <1>1, RowParties, RowPause
  <1>3. streams' = [streams EXCEPT ![id] = PausedRow(streams[id], now)]
    BY DEF pause, PausedRow, Rows
  <1> QED  BY <1>1, <1>2, <1>3, RowOnlyStep DEF pause

LEMMA ResumeStep ==
    ASSUME Rows, Rest, NEW id \in Ids, resume(id)
    PROVE  Rows' /\ Rest'
  <1>1. streams[id].status = "Paused"
    BY DEF resume
  <1>2. RowSafe(ResumedRow(streams[id], now), held[id], id \in shorted, now)
    BY <1>1, RowParties, RowResume
  <1>3. streams' = [streams EXCEPT ![id] = ResumedRow(streams[id], now)]
    BY DEF resume, ResumedRow
  <1> QED  BY <1>1, <1>2, <1>3, RowOnlyStep DEF resume

(* amend_stream and admin_override. *)
LEMMA RewriteStep ==
    ASSUME Rows, NEW id \in Ids, NEW end \in Nat,
           streams[id].status \in Live, end > streams[id].start_time,
           Rewrite(id, Rescheduled(streams[id], end)),
           UNCHANGED <<now, nextId, held>>
    PROVE  Rows'
  <1> DEFINE row == Rescheduled(streams[id], end)
             behind == vested_amount(row, now) < row.released_amount
  <1>1. streams[id].status # "Absent"
    BY DEF Live
  <1>2. /\ streams' = [streams EXCEPT ![id] = row]
        /\ shorted' = IF behind THEN shorted \cup {id} ELSE shorted
    BY DEF Rewrite
  <1>3. RowSafe(row, held[id], id \in shorted \/ behind, now)
    BY <1>1, RowParties, RowReschedule
  <1>4. RowSafe(row, held[id], id \in shorted', now)
    BY <1>2, <1>3 DEF RowSafe
  <1>5. held[id] \in Int /\ held' = [held EXCEPT ![id] = held[id]]
    BY DEF Rows
  <1> HIDE DEF row
  <1> QED  BY <1>1, <1>2, <1>4, <1>5, OneRow

LEMMA AmendStep ==
    ASSUME Rows, Rest, NEW id \in Ids, NEW end \in Nat, amend_stream(id, end)
    PROVE  Rows' /\ Rest'
  <1>1. Rows'
    BY RewriteStep DEF amend_stream, money
  <1>2. UNCHANGED <<settings, senderCount, cooloffUntil, withdrawers, streamFee, balance>>
    BY DEF amend_stream, throttles, money
  <1> QED  BY <1>1, <1>2 DEF Rest

LEMMA OverrideStep ==
    ASSUME Rows, Rest, NEW caller, NEW nonce, NEW id \in Ids, NEW end \in Nat,
           admin_override(caller, nonce, id, end)
    PROVE  Rows' /\ Rest'
  <1>1. Rows'
    BY RewriteStep DEF admin_override, money
  <1>2. UNCHANGED <<senderCount, cooloffUntil, withdrawers, streamFee, balance>>
    BY DEF admin_override, throttles, money
  <1>3. settings' \in Settings
    <2>1. settings \in Settings /\ settings.nonce \in Nat
      BY DEF Rest, Settings
    <2>2. settings.nonce + 1 \in Nat /\ now \in Nat
      BY <2>1, ContractAssumption DEF Rows
    <2>3. settings' = [settings EXCEPT !.nonce = @ + 1, !.lastActionTime = now]
      BY DEF admin_override
    <2> QED  BY <2>1, <2>2, <2>3 DEF Settings
  <1> QED  BY <1>1, <1>2, <1>3 DEF Rest

(* What withdraw and withdraw_with_max_fee_bps share: amount leaves escrow *)
(* in two transfers, the fee to payee and the rest to the recipient.       *)
LEMMA WithdrawStep ==
    ASSUME Rows, Rest, NEW id \in Ids, NEW amount \in Nat,
           NEW fee \in 0..amount, NEW payee \in Accounts,
           WithdrawGuard(id, amount), WithdrawRow(id, amount),
           SplitPayout(id, amount, fee, payee)
    PROVE  Rows' /\ Rest'
  <1> DEFINE s == streams[id]
             net == Transfer(balance, s.token, Escrow, s.recipient, amount - fee)
  <1>1. /\ s.status \in {"Active", "Paused"} /\ amount > 0
        /\ amount <= withdrawable(s, now)
    BY DEF WithdrawGuard
  <1>2. /\ s \in Stream /\ held[id] \in Int /\ now \in Nat
        /\ RowSafe(s, held[id], id \in shorted, now)
        /\ s.sender \in Accounts /\ s.recipient \in Accounts /\ s.token \in Tokens
    BY <1>1, RowParties
  <1>3. RowSafe(Released(s, amount), held[id] - amount, id \in shorted, now)
    BY <1>1, <1>2, RowRelease
  <1>4. /\ streams' = [streams EXCEPT ![id] = Released(s, amount)]
        /\ senderCount' = IF Released(s, amount).status = "Settled"
                          THEN Uncounted(Released(s, amount).sender) ELSE senderCount
        /\ UNCHANGED <<now, settings, nextId, withdrawers, streamFee,
                       cooloffUntil, shorted>>
    BY Zenon DEF WithdrawRow
  <1>5. /\ balance[s.token][Escrow] >= amount
        /\ balance' = Transfer(net, s.token, Escrow, payee, fee)
        /\ held' = [held EXCEPT ![id] = held[id] - amount]
    BY Zenon DEF SplitPayout, PaidOut
  <1> HIDE DEF net
  <1>6. Rows'
    <2>1. held[id] - amount \in Int /\ s.status # "Absent"
      BY <1>1, <1>2
    <2>2. RowSafe(Released(s, amount), held[id] - amount, id \in shorted', now)
      BY <1>3, <1>4
    <2> QED  BY <1>4, <1>5, <2>1, <2>2, OneRow
  <1>7. balance' \in [Tokens -> [Holders -> Nat]]
    <2>1. /\ balance \in [Tokens -> [Holders -> Nat]]
          /\ Escrow \in Holders /\ s.recipient \in Holders /\ payee \in Holders
      BY <1>2 DEF Rest, Holders
    <2>2. balance[s.token][Escrow] \in Nat
      BY <1>2, <2>1
    <2>3. /\ amount - fee \in Nat /\ fee \in Nat
          /\ balance[s.token][Escrow] >= amount - fee
      BY <1>5, <2>2
    <2>4. /\ net \in [Tokens -> [Holders -> Nat]]
          /\ net[s.token][Escrow] >= balance[s.token][Escrow] - (amount - fee)
      BY <1>2, <2>1, <2>3, TransferType DEF net
    <2>5. net[s.token][Escrow] \in Nat
      BY <1>2, <2>1, <2>4
    <2>6. net[s.token][Escrow] >= fee
      BY <1>5, <2>2, <2>3, <2>4, <2>5
    <2> QED  BY <1>2, <1>5, <2>1, <2>3, <2>4, <2>6, TransferType
  <1>8. senderCount' \in [Accounts -> Nat]
    <2>1. Released(s, amount).sender = s.sender
      BY <1>2 DEF Released, Stream
    <2> QED  BY <1>2, <1>4, <2>1, CountTypes DEF Rest
  <1> QED  BY <1>4, <1>6, <1>7, <1>8 DEF Rest

LEMMA PlainWithdrawStep ==
    ASSUME Rows, Rest, NEW id \in Ids, NEW amount \in Nat, NEW caller,
           withdraw(caller, id, amount)
    PROVE  Rows' /\ Rest'
  <1> DEFINE s == streams[id]
             payee == IF settings.collector = None THEN s.recipient ELSE settings.collector
  <1>1. /\ WithdrawGuard(id, amount) /\ WithdrawRow(id, amount)
        /\ SplitPayout(id, amount, FeeAmount(amount, s.fee_bps), payee)
    BY DEF withdraw
  <1>2. s.status # "Absent"
    BY <1>1 DEF WithdrawGuard
  <1>3. s \in Stream /\ s.recipient \in Accounts
    BY <1>2, RowParties
  <1>4. payee \in Accounts
    BY <1>3 DEF Rest, Settings
  <1>5. FeeAmount(amount, s.fee_bps) \in 0..amount
    BY <1>3, FeeBounds DEF Stream
  <1> HIDE DEF payee
  <1> QED  BY <1>1, <1>4, <1>5, WithdrawStep

LEMMA GuardedWithdrawStep ==
    ASSUME Rows, Rest, NEW id \in Ids, NEW amount \in Nat, NEW max_fee,
           withdraw_with_max_fee_bps(id, amount, max_fee)
    PROVE  Rows' /\ Rest'
  <1> DEFINE fee == FeeAmount(amount, settings.feeBps)
             payee == IF fee > 0 THEN settings.admin ELSE streams[id].recipient
  <1>1. /\ WithdrawGuard(id, amount) /\ WithdrawRow(id, amount)
        /\ SplitPayout(id, amount, fee, payee)
        /\ fee > 0 => settings.admin # None
    BY DEF withdraw_with_max_fee_bps
  <1>2. streams[id].status # "Absent"
    BY <1>1 DEF WithdrawGuard
  <1>3. payee \in Accounts
    BY <1>1, <1>2, RowParties DEF Rest, Settings
  <1>4. fee \in 0..amount
    BY FeeBounds DEF Rest, Settings
  <1> HIDE DEF payee, fee
  <1> QED  BY <1>1, <1>3, <1>4, WithdrawStep

(* settle and cancel_stream end the row and pay out to one or two parties. *)
LEMMA EndStep ==
    ASSUME Rows, Rest, NEW id \in Ids, NEW row,
           NEW amount \in Nat, NEW ledger,
           streams[id].status \in Live,
           streams' = [streams EXCEPT ![id] = row],
           senderCount' = Uncounted(streams[id].sender),
           PaidOut(id, amount, ledger),
           ledger \in [Tokens -> [Holders -> Nat]],
           RowSafe(row, held[id] - amount, id \in shorted, now),
           UNCHANGED <<now, settings, nextId, withdrawers, streamFee,
                       cooloffUntil, shorted>>
    PROVE  Rows' /\ Rest'
  <1>1. streams[id].status # "Absent"
    BY DEF Live
  <1>2. held[id] \in Int /\ streams[id].sender \in Accounts
    BY <1>1, RowParties
  <1>3. held' = [held EXCEPT ![id] = held[id] - amount] /\ balance' = ledger
    BY Zenon DEF PaidOut
  <1>4. Rows'
    <2>1. held[id] - amount \in Int
      BY <1>2
    <2>2. RowSafe(row, held[id] - amount, id \in shorted', now)
      OBVIOUS
    <2> QED  BY <1>1, <1>3, <2>1, <2>2, OneRow
  <1> QED  BY <1>2, <1>3, <1>4, CountTypes DEF Rest

LEMMA SettleStep ==
    ASSUME Rows, Rest, NEW id \in Ids, settle(id)
    PROVE  Rows' /\ Rest'
  <1> DEFINE s == streams[id]
             due == s.total_amount - s.released_amount
             row == [s EXCEPT !.status = "Settled", !.released_amount = s.total_amount]
             ledger == Transfer(balance, s.token, Escrow, s.recipient, due)
  <1>1. /\ s.status \in {"Active", "Paused"}
        /\ senderCount' = Uncounted(s.sender)
        /\ PaidOut(id, due, ledger)
        /\ UNCHANGED <<now, settings, nextId, withdrawers, streamFee,
                       cooloffUntil, shorted>>
    BY Zenon DEF settle, Remaining
  <1>2. streams' = [streams EXCEPT ![id] = row]
    BY DEF settle, Rows
  <1>3. s.status \in Live /\ s.status # "Absent"
    BY <1>1 DEF Live
  <1>4. /\ s \in Stream /\ held[id] \in Int /\ now \in Nat
        /\ RowSafe(s, held[id], id \in shorted, now)
        /\ s.recipient \in Accounts /\ s.token \in Tokens
    BY <1>3, RowParties
  <1>5. RowSafe(row, held[id] - due, id \in shorted, now)
    BY <1>1, <1>4, RowSettle
  <1>6. due \in Nat
    BY <1>4 DEF RowSafe, RowOK, Stream
  <1>7. ledger \in [Tokens -> [Holders -> Nat]]
    <2>1. balance[s.token][Escrow] >= due
      BY <1>1 DEF PaidOut
    <2> HIDE DEF due
    <2> QED  BY <1>4, <1>6, <2>1, TransferType DEF Rest, Holders
  <1> HIDE DEF row, due, ledger
  <1> QED  BY <1>1, <1>2, <1>3, <1>5, <1>6, <1>7, EndStep

LEMMA CancelStep ==
    ASSUME Rows, Rest, NEW id \in Ids, cancel_stream(id)
    PROVE  Rows' /\ Rest'
  <1> DEFINE s == streams[id]
             due == withdrawable(s, now)
             refund == s.total_amount - vested_amount(s, now)
             row == [s EXCEPT !.status = "Cancelled", !.released_amount = @ + due]
             paid == Transfer(balance, s.token, Escrow, s.recipient, due)
             ledger == Transfer(paid, s.token, Escrow, s.sender, refund)
  <1>1. /\ s.status \in Live
        /\ senderCount' = Uncounted(s.sender)
        /\ PaidOut(id, due + refund, ledger)
        /\ UNCHANGED <<now, settings, nextId, withdrawers, streamFee,
                       cooloffUntil, shorted>>
    BY Zenon DEF cancel_stream, Refund
  <1>2. streams' = [streams EXCEPT ![id] = row]
    BY DEF cancel_stream, Rows
  <1>3. s.status # "Absent"
    BY <1>1 DEF Live
  <1>4. /\ s \in Stream /\ held[id] \in Int /\ now \in Nat
        /\ RowSafe(s, held[id], id \in shorted, now)
        /\ s.sender \in Accounts /\ s.recipient \in Accounts /\ s.token \in Tokens
    BY <1>3, RowParties
  <1>5. RowSafe(row, held[id] - (due + refund), id \in shorted, now)
    BY <1>1, <1>4, RowCancel
  <1>6. due \in Nat /\ refund \in Nat
    <2>1. vested_amount(s, now) \in 0..s.total_amount
      BY <1>4, StreamSchedule, VestedBounds
    <2> QED  BY <1>4, <2>1 DEF withdrawable, Larger, Stream
  <1>7. ledger \in [Tokens -> [Holders -> Nat]]
    <2> HIDE DEF due, refund
    <2>1. balance[s.token][Escrow] >= due + refund
      BY <1>1 DEF PaidOut
    <2>2. /\ balance \in [Tokens -> [Holders -> Nat]]
          /\ Escrow \in Holders /\ s.recipient \in Holders /\ s.sender \in Holders
      BY <1>4 DEF Rest, Holders
    <2>3. balance[s.token][Escrow] \in Nat
      BY <1>4, <2>2
    <2>4. /\ paid \in [Tokens -> [Holders -> Nat]]
          /\ paid[s.token][Escrow] >= balance[s.token][Escrow] - due
      <3>1. balance[s.token][Escrow] >= due
        <4> HIDE DEF s
        <4> QED  BY <1>6, <2>1, <2>3
      <3>2. due \in Nat /\ s.token \in Tokens
        BY <1>4, <1>6
      <3> QED  BY Zenon, <2>2, <3>1, <3>2, TransferType
    <2> HIDE DEF paid
    <2>5. paid[s.token][Escrow] \in Nat
      BY <1>4, <2>2, <2>4
    <2>6. paid[s.token][Escrow] >= refund
      <3> HIDE DEF s
      <3> QED  BY <1>6, <2>1, <2>3, <2>4, <2>5
    <2> QED  BY <1>4, <1>6, <2>2, <2>4, <2>6, TransferType
  <1> HIDE DEF row, due, refund, ledger
  <1>8. due + refund \in Nat
    BY <1>6
  <1> QED  BY <1>1, <1>2, <1>5, <1>7, <1>8, EndStep

LEMMA DelegateStep ==
    ASSUME Rows, Rest, NEW id \in Ids, NEW who \in Accounts,
           add_withdrawer(id, who) \/ remove_withdrawer(id, who)
    PROVE  Rows' /\ Rest'
  <1>1. /\ UNCHANGED <<now, settings, streams, nextId, streamFee, throttles, money, shorted>>
        /\ withdrawers' \in [Ids -> SUBSET Accounts]
    BY DEF add_withdrawer, remove_withdrawer, Rest
  <1> QED  BY <1>1 DEF Rows, Rest, throttles, money

(* Every admin call writes settings and nothing else. *)
LEMMA SettingsStep ==
    ASSUME Rows, Rest, NEW new \in Settings, SettingsWritten(new)
    PROVE  Rows' /\ Rest'
  BY DEF SettingsWritten, Rows, Rest, rows, throttles, money

LEMMA OrgEntryType ==
    ASSUME NEW cfg \in Settings, NEW org \in Orgs, NEW ts \in SUBSET Tokens,
           NEW allowed \in BOOLEAN
    PROVE  OrgEntry(cfg, org, ts, allowed) \in Settings
  BY ZenonT(40) DEF OrgEntry, Settings

LEMMA AdministerStep ==
    ASSUME Rows, Rest, NEW caller \in Governors, Administer(caller)
    PROVE  Rows' /\ Rest'
  <1> SUFFICES ASSUME NEW new \in Settings, SettingsWritten(new)
               PROVE  Rows' /\ Rest'
    <2>1. settings \in Settings /\ caller \in Accounts
      BY ContractAssumption DEF Rest
    <2>2. ASSUME initialize(caller)
          PROVE  \E new \in Settings : SettingsWritten(new)
      BY <2>1, <2>2 DEF initialize, Settings
    <2>3. ASSUME migrate(caller)
          PROVE  \E new \in Settings : SettingsWritten(new)
      BY <2>1, <2>3 DEF migrate, Settings
    <2>4. ASSUME NEW org \in Orgs, NEW ts \in SUBSET Tokens,
                 init_allowlist_for_org(caller, org, ts)
          PROVE  \E new \in Settings : SettingsWritten(new)
      <3>1. [settings EXCEPT !.admin = caller, !.paused = FALSE] \in Settings
        BY <2>1 DEF Settings
      <3> QED  BY <2>4, <3>1, OrgEntryType DEF init_allowlist_for_org
    <2>5. ASSUME NEW new_admin \in Governors, set_admin(caller, new_admin)
          PROVE  \E new \in Settings : SettingsWritten(new)
      BY <2>1, <2>5, ContractAssumption DEF set_admin, Settings
    <2>6. ASSUME NEW paused \in BOOLEAN, set_paused(caller, paused)
          PROVE  \E new \in Settings : SettingsWritten(new)
      BY <2>1, <2>6 DEF set_paused, Settings
    <2>7. ASSUME NEW token \in Tokens, NEW allowed \in BOOLEAN,
                 set_token_allowed(caller, token, allowed)
          PROVE  \E new \in Settings : SettingsWritten(new)
      <3>1. (IF allowed THEN settings.blocked \ {token}
                        ELSE settings.blocked \cup {token}) \in SUBSET Tokens
        BY <2>1 DEF Settings
      <3> QED  BY <2>1, <2>7, <3>1 DEF set_token_allowed, Settings
    <2>8. ASSUME NEW token \in Tokens, NEW allowed \in BOOLEAN, NEW org \in Orgs,
                 set_org_token_allowed(caller, org, token, allowed)
          PROVE  \E new \in Settings : SettingsWritten(new)
      BY <2>1, <2>8, OrgEntryType DEF set_org_token_allowed
    <2>9. ASSUME NEW a \in Collectors, set_fee_collector(caller, a)
          PROVE  \E new \in Settings : SettingsWritten(new)
      BY <2>1, <2>9, ContractAssumption DEF set_fee_collector, Settings
    <2>10. ASSUME NEW bps \in FeeRates,
                  set_default_fee_bps(caller, bps) \/ set_fee_bps(caller, bps)
           PROVE  \E new \in Settings : SettingsWritten(new)
      <3>1. bps \in 0..MAX_FEE_BPS
        <4>1. bps <= MAX_FEE_BPS
          BY Zenon, <2>10 DEF set_default_fee_bps, set_fee_bps
        <4>2. bps \in Nat
          BY ContractAssumption
        <4> QED  BY <4>1, <4>2, SMTT(30) DEF MAX_FEE_BPS
      <3>2. /\ [settings EXCEPT !.defaultFeeBps = bps] \in Settings
            /\ [settings EXCEPT !.feeBps = bps] \in Settings
        BY <2>1, <3>1 DEF Settings
      <3> QED  BY <2>10, <3>2 DEF set_default_fee_bps, set_fee_bps
    <2>11. ASSUME NEW limit \in Limits, set_max_streams_per_sender(caller, limit)
           PROVE  \E new \in Settings : SettingsWritten(new)
      BY <2>1, <2>11, ContractAssumption DEF set_max_streams_per_sender, Settings
    <2>12. ASSUME NEW duration \in Cooloffs, set_cooloff_duration(caller, duration)
           PROVE  \E new \in Settings : SettingsWritten(new)
      BY <2>1, <2>12, ContractAssumption DEF set_cooloff_duration, Settings
    <2> QED  BY <2>2, <2>3, <2>4, <2>5, <2>6, <2>7, <2>8, <2>9, <2>10, <2>11, <2>12
             DEF Administer
  <1> QED  BY SettingsStep

-----------------------------------------------------------------------------
LEMMA Initially == Init => IInv
  <1> SUFFICES ASSUME Init PROVE Rows /\ Rest
    BY Halves
  <1>1. NoStream \in Stream /\ NoStream.status = "Absent"
    BY DEF NoStream, Opened, Stream, Status, MAX_FEE_BPS
  <1>2. RowSafe(NoStream, 0, FALSE, 1)
    BY <1>1 DEF RowSafe, RowOK, Accounted, WithinVested, Live, NoStream, Opened
  <1>3. \A id \in Ids : RowSafe(streams[id], held[id], id \in shorted, now)
    <2> SUFFICES ASSUME NEW id \in Ids
                 PROVE  RowSafe(streams[id], held[id], id \in shorted, now)
      OBVIOUS
    <2>1. /\ streams[id] = NoStream /\ held[id] = 0 /\ now = 1
          /\ (id \in shorted) = FALSE
      BY DEF Init
    <2> QED  BY <1>2, <2>1
  <1>4. Rows
    BY <1>1, <1>3, ContractAssumption DEF Init, Rows
  <1>5. settings \in Settings
    <2>1. /\ NoEntry \in Nat \cup {NoEntry} /\ 0 \in 0..MAX_FEE_BPS
          /\ DEFAULT_MAX_STREAMS_PER_SENDER \in Nat
      BY DEF MAX_FEE_BPS, DEFAULT_MAX_STREAMS_PER_SENDER
    <2> QED  BY <2>1 DEF Init, InitialSettings, Settings
  <1>6. balance \in [Tokens -> [Holders -> Nat]]
    BY ContractAssumption DEF Init
  <1>7. Rest
    BY <1>5, <1>6 DEF Init, Rest
  <1> QED  BY <1>4, <1>7

LEMMA CallsPreserve ==
    ASSUME Rows, Rest, Next
    PROVE  Rows' /\ Rest'
  <1> USE ContractAssumption
  <1>1. CASE Tick
    BY <1>1, TickStep
  <1>2. CASE Create
    <2>1. ASSUME NEW sender \in Accounts, NEW recipient \in Accounts,
                 NEW token \in Tokens, NEW amount \in Amounts,
                 NEW start \in EndTimes, NEW end \in EndTimes, NEW bps \in FeeRates,
                 \/ create_stream(sender, recipient, token, amount, start, end, bps)
                 \/ \E org \in Orgs :
                     create_stream_for_org(org, sender, recipient, token, amount,
                                           start, end, bps)
          PROVE  Rows' /\ Rest'
      <3>1. create_stream(sender, recipient, token, amount, start, end, bps)
        BY <2>1 DEF create_stream_for_org
      <3>2. amount \in Nat /\ start \in Nat /\ end \in Nat /\ bps \in Nat
        BY WidthAssumption
      <3> QED  BY <3>1, <3>2, CreateStep
    <2>2. ASSUME NEW sender \in Accounts, NEW recipient \in Accounts,
                 NEW token \in Tokens, NEW amount \in Amounts,
                 NEW duration \in Durations,
                 create_draft_stream(sender, recipient, token, amount, duration)
          PROVE  Rows' /\ Rest'
      <3>1. amount \in Nat /\ duration \in Nat
        BY WidthAssumption
      <3> QED  BY <2>2, <3>1, CreateDraftStep
    <2> QED  BY <1>2, <2>1, <2>2 DEF Create
  <1>3. ASSUME NEW id \in Ids, Lifecycle(id)
        PROVE  Rows' /\ Rest'
    <2>1. ASSUME NEW new_end \in EndTimes, amend_stream(id, new_end)
          PROVE  Rows' /\ Rest'
      <3>1. new_end \in Nat
        BY WidthAssumption
      <3> QED  BY <2>1, <3>1, AmendStep
    <2> QED  BY <1>3, <2>1, StartStep, PauseStep, ResumeStep, SettleStep, CancelStep
             DEF Lifecycle
  <1>4. ASSUME NEW id \in Ids, Withdraw(id)
        PROVE  Rows' /\ Rest'
    <2>1. Amounts \subseteq Nat
      OBVIOUS
    <2> QED  BY <1>4, <2>1, PlainWithdrawStep, GuardedWithdrawStep DEF Withdraw
  <1>5. ASSUME NEW id \in Ids, Delegate(id)
        PROVE  Rows' /\ Rest'
    <2>1. Delegates \subseteq Accounts
      OBVIOUS
    <2> QED  BY <1>5, <2>1, DelegateStep DEF Delegate
  <1>6. ASSUME NEW caller \in Governors, Override(caller)
        PROVE  Rows' /\ Rest'
    <2>1. ASSUME NEW id \in Ids, NEW nonce \in 0..MaxTime, NEW new_end \in EndTimes,
                 admin_override(caller, nonce, id, new_end)
          PROVE  Rows' /\ Rest'
      <3>1. new_end \in Nat
        BY WidthAssumption
      <3> QED  BY <2>1, <3>1, OverrideStep
    <2> QED  BY <1>6, <2>1 DEF Override
  <1> QED  BY <1>1, <1>2, <1>3, <1>4, <1>5, <1>6, AdministerStep DEF Next

LEMMA StutterPreserves ==
    ASSUME Rows, Rest, UNCHANGED vars
    PROVE  Rows' /\ Rest'
  BY DEF Rows, Rest, vars, rows, throttles, money

LEMMA Inductive == IInv /\ [Next]_vars => IInv'
  BY Halves, HalvesNext, CallsPreserve, StutterPreserves

(* The conjunction of the three invariants the runs check is inductive:    *)
(* typing, escrow accounting and the release bound need one another.       *)
THEOREM ContractInvariant == Spec => []IInv
  BY Initially, Inductive, PTL DEF Spec

(* Every reachable state is well-typed, for all constants. *)
THEOREM TypeCorrect == Spec => []TypeOK
  <1>1. IInv => TypeOK
    BY DEF IInv
  <1> QED  BY <1>1, ContractInvariant, PTL

(* Every stream pays out of its own deposit, for any number of streams,    *)
(* accounts and tokens and any call order.                                 *)
THEOREM EscrowIsAccounted == Spec => []EscrowAccounted
  <1>1. IInv => EscrowAccounted
    BY DEF IInv
  <1> QED  BY <1>1, ContractInvariant, PTL

(* No recipient is paid ahead of the release schedule.                     *)
THEOREM ReleasesWithinVested == Spec => []NeverOverReleased
  <1>1. IInv => NeverOverReleased
    BY DEF IInv
  <1> QED  BY <1>1, ContractInvariant, PTL

-----------------------------------------------------------------------------
(* What one step may do to a row: the step properties of the schedule      *)

StartedRow(s, t) ==
    [s EXCEPT !.status = "Active", !.start_time = t, !.end_time = t + s.duration]

(* A stream under way ends no earlier than its duration after its start:   *)
(* every pause has pushed the end back.                                    *)
EndCovers(s) ==
    s.status \in {"Active", "Paused"} => s.start_time + s.duration <= s.end_time

RowMove(s, r, t) ==
    \/ r = s
    \/ s.status = "Active" /\ r = PausedRow(s, t)
    \/ s.status = "Paused" /\ r = ResumedRow(s, t)
    \/ s.status = "Draft" /\ r = StartedRow(s, t)
    \/ \E amount \in Nat : s.status \in {"Active", "Paused"} /\ r = Released(s, amount)
    \/ \E end \in Nat : end > s.start_time /\ r = Rescheduled(s, end)
    \/ r.status \in {"Settled", "Cancelled"}
    \/ s.status = "Absent" /\ EndCovers(r)

LEMMA NewRowMove ==
    ASSUME Rows, NEW row \in Stream, NewRow(row), EndCovers(row), NEW id \in Ids
    PROVE  RowMove(streams[id], streams'[id], now)
  <1>1. streams' = [streams EXCEPT ![nextId] = row]
    BY DEF NewRow
  <1>2. CASE id = nextId
    <2>1. streams[id].status = "Absent"
      BY <1>2 DEF Rows, NoStream, Opened
    <2>2. streams'[id] = row
      BY <1>1, <1>2 DEF Rows
    <2> QED  BY <2>1, <2>2 DEF RowMove
  <1>3. CASE id # nextId
    BY <1>1, <1>3 DEF Rows, RowMove
  <1> QED  BY <1>2, <1>3

LEMMA CreateMove ==
    ASSUME Rows, Rest, Create, NEW id \in Ids
    PROVE  RowMove(streams[id], streams'[id], now) /\ now' = now
  <1> USE ContractAssumption, WidthAssumption
  <1>1. ASSUME NEW sender \in Accounts, NEW recipient \in Accounts,
               NEW token \in Tokens, NEW amount \in Amounts,
               NEW start \in EndTimes, NEW end \in EndTimes, NEW bps \in FeeRates,
               create_stream(sender, recipient, token, amount, start, end, bps)
        PROVE  RowMove(streams[id], streams'[id], now) /\ now' = now
    <2> DEFINE row == Opened("Active", sender, recipient, token, amount,
                             start, end, end - start, bps)
    <2>1. /\ amount \in Nat /\ start \in Nat /\ end \in Nat /\ end - start \in Nat
          /\ bps \in 0..MAX_FEE_BPS
      BY <1>1 DEF create_stream, MAX_FEE_BPS
    <2>2. row \in Stream
      BY <2>1 DEF Opened, Stream, Status
    <2>3. EndCovers(row)
      BY <2>1 DEF EndCovers, Opened
    <2>4. NewRow(row) /\ now' = now
      BY <1>1 DEF create_stream
    <2> HIDE DEF row
    <2> QED  BY <2>2, <2>3, <2>4, NewRowMove
  <1>2. ASSUME NEW sender \in Accounts, NEW recipient \in Accounts,
               NEW token \in Tokens, NEW amount \in Amounts, NEW duration \in Durations,
               create_draft_stream(sender, recipient, token, amount, duration)
        PROVE  RowMove(streams[id], streams'[id], now) /\ now' = now
    <2> DEFINE row == Opened("Draft", sender, recipient, token, amount, 0, 0, duration, 0)
    <2>1. amount \in Nat /\ duration \in Nat /\ 0 \in 0..MAX_FEE_BPS
      BY DEF MAX_FEE_BPS
    <2>2. row \in Stream
      BY <2>1 DEF Opened, Stream, Status
    <2>3. EndCovers(row)
      BY DEF EndCovers, Opened
    <2>4. NewRow(row) /\ now' = now
      BY <1>2 DEF create_draft_stream
    <2> HIDE DEF row
    <2> QED  BY <2>2, <2>3, <2>4, NewRowMove
  <1> QED  BY <1>1, <1>2 DEF Create, create_stream_for_org

(* A call on stream i that gives its row a legal successor. *)
LEMMA CallMove ==
    ASSUME Rows, NEW i \in Ids, NEW row, RowMove(streams[i], row, now),
           streams' = [streams EXCEPT ![i] = row], NEW id \in Ids
    PROVE  RowMove(streams[id], streams'[id], now)
  <1>1. CASE id = i
    BY <1>1 DEF Rows
  <1>2. CASE id # i
    BY <1>2 DEF Rows, RowMove
  <1> QED  BY <1>1, <1>2

LEMMA RescheduleMove ==
    ASSUME Rows, NEW i \in Ids, NEW end \in EndTimes, end > streams[i].start_time,
           Rewrite(i, Rescheduled(streams[i], end)), NEW id \in Ids
    PROVE  RowMove(streams[id], streams'[id], now)
  <1>1. end \in Nat
    BY ContractAssumption, WidthAssumption
  <1>2. RowMove(streams[i], Rescheduled(streams[i], end), now)
    BY <1>1 DEF RowMove
  <1> QED  BY <1>2, CallMove DEF Rewrite

LEMMA LifecycleMove ==
    ASSUME Rows, NEW i \in Ids, Lifecycle(i), NEW id \in Ids
    PROVE  RowMove(streams[id], streams'[id], now) /\ now' = now
  <1> DEFINE s == streams[i]
  <1>0. s \in Stream
    BY DEF Rows
  <1>1. CASE start_stream(i)
    <2>1. streams' = [streams EXCEPT ![i] = StartedRow(s, now)]
      BY <1>1 DEF start_stream, StartedRow, Rows
    <2>2. RowMove(s, StartedRow(s, now), now)
      BY <1>1 DEF start_stream, RowMove
    <2> QED  BY <1>1, <2>1, <2>2, CallMove DEF start_stream
  <1>2. CASE pause(i)
    <2>1. streams' = [streams EXCEPT ![i] = PausedRow(s, now)]
      BY <1>2 DEF pause, PausedRow, Rows
    <2>2. RowMove(s, PausedRow(s, now), now)
      BY <1>2 DEF pause, RowMove
    <2> QED  BY <1>2, <2>1, <2>2, CallMove DEF pause
  <1>3. CASE resume(i)
    <2>1. streams' = [streams EXCEPT ![i] = ResumedRow(s, now)]
      BY <1>3 DEF resume, ResumedRow
    <2>2. RowMove(s, ResumedRow(s, now), now)
      BY <1>3 DEF resume, RowMove
    <2> QED  BY <1>3, <2>1, <2>2, CallMove DEF resume
  <1>4. CASE settle(i)
    <2> DEFINE row == [s EXCEPT !.status = "Settled", !.released_amount = s.total_amount]
    <2>1. streams' = [streams EXCEPT ![i] = row]
      BY <1>4 DEF settle, Rows
    <2>2. RowMove(s, row, now)
      BY <1>0 DEF RowMove, Stream
    <2> QED  BY <1>4, <2>1, <2>2, CallMove DEF settle
  <1>5. CASE cancel_stream(i)
    <2> DEFINE row == [s EXCEPT !.status = "Cancelled",
                                !.released_amount = @ + withdrawable(s, now)]
    <2>1. streams' = [streams EXCEPT ![i] = row]
      BY <1>5 DEF cancel_stream, Rows
    <2>2. RowMove(s, row, now)
      BY <1>0 DEF RowMove, Stream
    <2> QED  BY <1>5, <2>1, <2>2, CallMove DEF cancel_stream
  <1>6. ASSUME NEW new_end \in EndTimes, amend_stream(i, new_end)
        PROVE  RowMove(streams[id], streams'[id], now) /\ now' = now
    BY <1>6, RescheduleMove DEF amend_stream
  <1> QED  BY <1>1, <1>2, <1>3, <1>4, <1>5, <1>6 DEF Lifecycle

LEMMA WithdrawMove ==
    ASSUME Rows, NEW i \in Ids, Withdraw(i), NEW id \in Ids
    PROVE  RowMove(streams[id], streams'[id], now) /\ now' = now
  <1>1. PICK amount \in Amounts : /\ streams[i].status \in {"Active", "Paused"}
                                  /\ WithdrawRow(i, amount)
    BY DEF Withdraw, withdraw, withdraw_with_max_fee_bps, WithdrawGuard
  <1>2. amount \in Nat
    BY ContractAssumption
  <1>3. RowMove(streams[i], Released(streams[i], amount), now)
    BY <1>1, <1>2 DEF RowMove
  <1> QED  BY <1>1, <1>3, CallMove DEF WithdrawRow

(* Every step moves every row in one of these ways, and only a ledger      *)
(* close, which leaves rows alone, moves the clock.                        *)
LEMMA RowMoves ==
    ASSUME IInv, Next, NEW id \in Ids
    PROVE  /\ RowMove(streams[id], streams'[id], now)
           /\ now' = now \/ (now' = now + 1 /\ streams'[id] = streams[id])
  <1>0. Rows /\ Rest
    BY Halves
  <1>1. CASE streams' = streams /\ (now' = now \/ now' = now + 1)
    BY <1>1 DEF RowMove
  <1>2. CASE Create
    BY <1>0, <1>2, CreateMove
  <1>3. CASE \E i \in Ids : Lifecycle(i) \/ Withdraw(i)
    BY <1>0, <1>3, LifecycleMove, WithdrawMove
  <1>4. CASE \E caller \in Governors : Override(caller)
    BY <1>0, <1>4, RescheduleMove DEF Override, admin_override
  <1>5. Tick => streams' = streams /\ now' = now + 1
    BY DEF Tick, rows
  <1>6. (\E i \in Ids : Delegate(i)) => streams' = streams /\ now' = now
    BY DEF Delegate, add_withdrawer, remove_withdrawer
  <1>7. (\E caller \in Governors : Administer(caller)) => streams' = streams /\ now' = now
    BY DEF Administer, initialize, migrate, init_allowlist_for_org, set_admin,
           set_paused, set_token_allowed, set_org_token_allowed, set_fee_collector,
           set_default_fee_bps, set_fee_bps, set_max_streams_per_sender,
           set_cooloff_duration, SettingsWritten, rows
  <1> QED  BY <1>1, <1>2, <1>3, <1>4, <1>5, <1>6, <1>7 DEF Next

EndsCover == \A id \in Ids : EndCovers(streams[id])

LEMMA MoveKeepsEnd ==
    ASSUME NEW s \in Stream, NEW r, NEW t \in Nat, RowOK(s, t), EndCovers(s),
           RowMove(s, r, t)
    PROVE  EndCovers(r)
  <1>1. /\ s.start_time \in Nat /\ s.end_time \in Nat /\ s.duration \in Nat
        /\ s.paused_at \in Nat
    BY DEF Stream
  <1>2. CASE s.status = "Active" /\ r = PausedRow(s, t)
    BY <1>1, <1>2 DEF PausedRow, EndCovers, Stream
  <1>3. CASE s.status = "Paused" /\ r = ResumedRow(s, t)
    <2>1. r.start_time = s.start_time /\ r.duration = s.duration
          /\ r.end_time = s.end_time + (t - s.paused_at)
      BY <1>3 DEF ResumedRow, Stream
    <2> QED  BY <1>1, <1>3, <2>1 DEF RowOK, EndCovers
  <1>4. CASE s.status = "Draft" /\ r = StartedRow(s, t)
    BY <1>1, <1>4 DEF StartedRow, EndCovers, Stream
  <1>5. ASSUME NEW amount \in Nat, s.status \in {"Active", "Paused"},
               r = Released(s, amount)
        PROVE  EndCovers(r)
    BY <1>1, <1>5 DEF Released, EndCovers, Stream
  <1>6. ASSUME NEW end \in Nat, end > s.start_time, r = Rescheduled(s, end)
        PROVE  EndCovers(r)
    BY <1>1, <1>6 DEF Rescheduled, EndCovers, Stream
  <1>7. CASE r.status \in {"Settled", "Cancelled"}
    BY <1>7 DEF EndCovers
  <1> QED  BY <1>2, <1>3, <1>4, <1>5, <1>6, <1>7 DEF RowMove

LEMMA EndsStayCovered == IInv /\ EndsCover /\ [Next]_vars => EndsCover'
  <1> SUFFICES ASSUME IInv, EndsCover, [Next]_vars
               PROVE  EndsCover'
    OBVIOUS
  <1>1. CASE UNCHANGED vars
    BY <1>1 DEF EndsCover, vars, rows
  <1>2. ASSUME Next, NEW id \in Ids
        PROVE  EndCovers(streams'[id])
    <2>1. streams[id] \in Stream /\ RowOK(streams[id], now) /\ now \in Nat
      BY ContractAssumption DEF IInv, TypeOK
    <2> QED  BY <1>2, <2>1, RowMoves, MoveKeepsEnd DEF EndsCover
  <1> QED  BY <1>1, <1>2 DEF EndsCover

(* A row whose schedule is kept by a move: it has accrued at least as much *)
(* as before, and exactly as much if it was paused.                        *)
LEMMA MoveKeepsElapsed ==
    ASSUME NEW s \in Stream, NEW r \in Stream, NEW t \in Nat, RowOK(s, t), EndCovers(s),
           RowMove(s, r, t), s.status \in Live, r.status \in Live,
           s.status # "Draft",
           r.duration = s.duration, r.end_time >= s.end_time
    PROVE  /\ Elapsed(s, t) <= Elapsed(r, t)
           /\ s.status = "Paused" => Elapsed(s, t) = Elapsed(r, t)
           /\ r.status # "Draft" /\ r.total_amount = s.total_amount
  <1>1. /\ s.start_time \in Nat /\ s.end_time \in Nat /\ s.duration \in Nat
        /\ s.paused_at \in Nat /\ s.total_paused_duration \in Nat
        /\ s.start_time <= s.end_time
    BY DEF Stream, RowOK
  <1>2. CASE r = s
    BY <1>2, StreamSchedule, ElapsedType
  <1>3. CASE s.status = "Active" /\ r = PausedRow(s, t)
    <2>1. /\ r.status = "Paused" /\ r.paused_at = t /\ r.start_time = s.start_time
          /\ r.end_time = s.end_time /\ r.total_amount = s.total_amount
          /\ r.total_paused_duration = s.total_paused_duration
      BY <1>3 DEF PausedRow, Stream
    <2>2. Elapsed(s, t) <= Elapsed(r, t)
      BY <1>1, <1>3, <2>1 DEF Elapsed, EffectiveNow, SaturatingSub, Larger, Smaller
    <2> QED  BY <1>3, <2>1, <2>2
  <1>4. CASE s.status = "Paused" /\ r = ResumedRow(s, t)
    <2>1. r.status = "Active" /\ r.total_amount = s.total_amount
      BY <1>4 DEF ResumedRow, Stream
    <2>2. Elapsed(s, t) = Elapsed(r, t) /\ Elapsed(s, t) \in Nat
      BY <1>4, ResumeKeepsElapsed, StreamSchedule, ElapsedType
    <2> QED  BY <2>1, <2>2
  <1>5. ASSUME NEW amount \in Nat, r = Released(s, amount)
        PROVE  /\ Elapsed(s, t) = Elapsed(r, t) /\ r.total_amount = s.total_amount
               /\ r.status # "Draft"
    <2>1. /\ r.status = s.status \/ r.status = "Settled"
          /\ r.start_time = s.start_time /\ r.end_time = s.end_time
          /\ r.paused_at = s.paused_at /\ r.total_amount = s.total_amount
          /\ r.total_paused_duration = s.total_paused_duration
      BY <1>5 DEF Released, Stream
    <2>2. r.status = s.status
      BY <2>1 DEF Live
    <2> QED  BY <2>1, <2>2 DEF Elapsed, EffectiveNow
  <1>6. ASSUME NEW end \in Nat, end > s.start_time, r = Rescheduled(s, end)
        PROVE  /\ Elapsed(s, t) = Elapsed(r, t) /\ r.total_amount = s.total_amount
               /\ r.status # "Draft"
    <2>1. /\ r.status = s.status /\ r.start_time = s.start_time /\ r.end_time = end
          /\ r.duration = end - s.start_time
          /\ r.paused_at = s.paused_at /\ r.total_amount = s.total_amount
          /\ r.total_paused_duration = s.total_paused_duration
      BY <1>6 DEF Rescheduled, Stream
    <2>2. s.start_time + s.duration <= s.end_time
      BY DEF EndCovers, Live
    <2>3. end = s.end_time
      BY <1>1, <2>1, <2>2
    <2> QED  BY <2>1, <2>3 DEF Elapsed, EffectiveNow
  <1>7. Elapsed(s, t) \in Nat
    BY StreamSchedule, ElapsedType
  <1>8. ~(r.status \in {"Settled", "Cancelled"}) /\ s.status # "Absent"
    BY DEF Live
  <1> QED  BY <1>2, <1>3, <1>4, <1>5, <1>6, <1>7, <1>8 DEF RowMove

LEMMA VestedStep ==
    ASSUME IInv, EndsCover, Next, IInv', NEW id \in Ids, SameSchedule(id)
    PROVE  /\ vested_amount(streams[id], now) <= vested_amount(streams'[id], now')
           /\ streams[id].status = "Paused" =>
                vested_amount(streams[id], now) = vested_amount(streams'[id], now')
  <1> DEFINE s == streams[id]
             r == streams'[id]
  <1>1. /\ s \in Stream /\ RowOK(s, now) /\ EndCovers(s) /\ now \in Nat
        /\ r \in Stream /\ now' \in Nat
    BY ContractAssumption DEF IInv, TypeOK, EndsCover
  <1>2. ScheduleOK(s) /\ ScheduleOK(r)
    BY <1>1, StreamSchedule
  <1>3. /\ RowMove(s, r, now)
        /\ now' = now \/ (now' = now + 1 /\ r = s)
    BY RowMoves
  <1>4. CASE s.status = "Draft"
    <2>1. vested_amount(s, now) = 0
      BY <1>4 DEF vested_amount
    <2>2. vested_amount(r, now') \in 0..r.total_amount
      BY <1>1, <1>2, VestedBounds
    <2> QED  BY <1>1, <1>4, <2>1, <2>2 DEF Stream
  <1>5. CASE s.status # "Draft" /\ now' = now
    <2>1. /\ Elapsed(s, now) <= Elapsed(r, now)
          /\ s.status = "Paused" => Elapsed(s, now) = Elapsed(r, now)
          /\ r.status # "Draft" /\ r.total_amount = s.total_amount
          /\ r.duration = s.duration
      BY <1>1, <1>3, <1>5, MoveKeepsElapsed DEF SameSchedule
    <2>2. vested_amount(s, now) <= vested_amount(r, now)
      BY <1>1, <1>2, <2>1, VestedFollowsElapsed
    <2>3. s.status = "Paused" => vested_amount(s, now) = vested_amount(r, now)
      BY <1>5, <2>1 DEF vested_amount
    <2> QED  BY <1>5, <2>2, <2>3
  <1>6. CASE s.status # "Draft" /\ r = s /\ now' = now + 1
    <2>1. now <= now'
      BY <1>1, <1>6
    <2>2. vested_amount(s, now) <= vested_amount(s, now')
      BY <1>1, <1>2, <2>1, VestedMonotone
    <2>3. ASSUME s.status = "Paused"
          PROVE  Elapsed(s, now) = Elapsed(s, now')
      <3>1. s.paused_at <= now
        BY <1>1, <2>3 DEF RowOK
      <3> QED  BY <1>1, <1>2, <2>1, <2>3, <3>1
               DEF Elapsed, EffectiveNow, SaturatingSub, Larger, Smaller, ScheduleOK
    <2>4. s.status = "Paused" => vested_amount(s, now) = vested_amount(s, now')
      BY <2>3 DEF vested_amount
    <2> QED  BY <1>6, <2>2, <2>4
  <1> QED  BY <1>3, <1>4, <1>5, <1>6

LEMMA ScheduleInvariant == Spec => [](IInv /\ EndsCover)
  <1>1. Init => EndsCover
    BY DEF Init, EndsCover, EndCovers, NoStream, Opened
  <1> QED  BY <1>1, Initially, Inductive, EndsStayCovered, PTL DEF Spec

(* Time, pauses, resumes and withdrawals never take back what has vested,  *)
(* for any schedule (release.rs, pause, resume).                           *)
THEOREM NothingVestedIsLost == Spec => VestedNeverRegresses
  <1>1. IInv /\ EndsCover /\ IInv' /\ [Next]_vars =>
          [ \A id \in Ids : SameSchedule(id) =>
              vested_amount(streams[id], now) <= vested_amount(streams'[id], now') ]_vars
    BY VestedStep
  <1> QED  BY <1>1, ScheduleInvariant, PTL DEF Spec, VestedNeverRegresses

(* A pause earns nothing, however long it lasts (pause, resume).           *)
THEOREM PausesEarnNothing == Spec => PauseFreezesAccrual
  <1>1. IInv /\ EndsCover /\ IInv' /\ [Next]_vars =>
          [ \A id \in Ids : SameSchedule(id) /\ streams[id].status = "Paused" =>
              vested_amount(streams[id], now) = vested_amount(streams'[id], now') ]_vars
    BY VestedStep
  <1> QED  BY <1>1, ScheduleInvariant, PTL DEF Spec, PauseFreezesAccrual

-----------------------------------------------------------------------------
(* Only overrides and the other admin calls write settings. *)
LEMMA SettingsKept ==
    ASSUME Next, \A caller \in Governors : ~Override(caller) /\ ~Administer(caller)
    PROVE  settings' = settings
  <1>1. CASE Tick
    BY <1>1 DEF Tick
  <1>2. CASE Create
    BY <1>2 DEF Create, create_stream, create_stream_for_org, create_draft_stream
  <1>3. ASSUME NEW id \in Ids, Lifecycle(id)
        PROVE  settings' = settings
    BY <1>3 DEF Lifecycle, start_stream, pause, resume, settle, cancel_stream, amend_stream
  <1>4. ASSUME NEW id \in Ids, Withdraw(id)
        PROVE  settings' = settings
    BY <1>4 DEF Withdraw, withdraw, withdraw_with_max_fee_bps, WithdrawRow
  <1>5. ASSUME NEW id \in Ids, Delegate(id)
        PROVE  settings' = settings
    BY <1>5 DEF Delegate, add_withdrawer, remove_withdrawer
  <1> QED  BY <1>1, <1>2, <1>3, <1>4, <1>5 DEF Next

-----------------------------------------------------------------------------
(* Overrides *)

LEMMA AdministerKeepsNonce ==
    ASSUME settings \in Settings, NEW caller \in Governors, Administer(caller)
    PROVE  /\ settings'.nonce = settings.nonce
           /\ settings'.lastActionTime = settings.lastActionTime
           /\ now' = now
  BY ZenonT(40)
     DEF Administer, initialize, migrate, init_allowlist_for_org, set_admin, set_paused,
         set_token_allowed, set_org_token_allowed, set_fee_collector,
         set_default_fee_bps, set_fee_bps, set_max_streams_per_sender,
         set_cooloff_duration, SettingsWritten, OrgEntry, Settings

(* Spacing survives one more override: n of them fit before last, and the  *)
(* cooldown has passed since.                                              *)
LEMMA OneMoreOverride ==
    ASSUME NEW n \in Nat, NEW last \in Nat, NEW t \in Nat, NEW cooldown \in Nat,
           n > 0 => (n - 1) * cooldown < last,
           n > 0 => t >= last + cooldown,
           t > 0
    PROVE  ((n + 1) - 1) * cooldown < t
  <1>1. CASE n = 0
    BY <1>1
  <1>2. CASE n > 0
    <2>1. n * cooldown = (n - 1) * cooldown + cooldown
      OBVIOUS
    <2>2. (n - 1) * cooldown \in Int /\ n * cooldown \in Int
      OBVIOUS
    <2> QED  BY <1>2, <2>1, <2>2
  <1> QED  BY <1>1, <1>2

LEMMA OverrideSpaced ==
    ASSUME settings \in Settings, now \in 1..MaxTime, OverrideRateLimited,
           NEW caller \in Governors, Override(caller)
    PROVE  OverrideRateLimited'
  <1> DEFINE n == settings.nonce
             last == settings.lastActionTime
  <1>1. /\ CooldownElapsed
        /\ settings' = [settings EXCEPT !.nonce = @ + 1, !.lastActionTime = now]
        /\ now' = now
    BY DEF Override, admin_override
  <1>2. settings'.nonce = n + 1 /\ settings'.lastActionTime = now
    BY <1>1 DEF Settings
  <1>3. /\ n \in Nat /\ now \in Nat /\ now > 0 /\ now < U64Max
        /\ MaxTime \in Nat /\ U64Max \in Nat /\ ADMIN_COOLDOWN_SECONDS \in Nat
    BY WidthAssumption, ContractAssumption DEF Settings
  <1>4. n > 0 => /\ last \in 1..now
                 /\ (n - 1) * ADMIN_COOLDOWN_SECONDS < last
    BY DEF OverrideRateLimited
  <1>5. n > 0 => now >= last + ADMIN_COOLDOWN_SECONDS
    <2> SUFFICES ASSUME n > 0
                 PROVE  now >= last + ADMIN_COOLDOWN_SECONDS
      OBVIOUS
    <2>1. last \in Nat /\ last # NoEntry
      BY <1>3, <1>4 DEF NoEntry
    <2>2. now >= Smaller(last + ADMIN_COOLDOWN_SECONDS, U64Max)
      BY <1>1, <2>1 DEF CooldownElapsed
    <2> HIDE DEF last
    <2> QED  BY <1>3, <2>1, <2>2 DEF Smaller
  <1> HIDE DEF n, last
  <1>6. n * ADMIN_COOLDOWN_SECONDS < now
    <2>1. CASE n = 0
      BY <1>3, <2>1
    <2>2. CASE n > 0
      <3>1. last \in Nat
        BY <1>3, <1>4, <2>2
      <3>2. ((n + 1) - 1) * ADMIN_COOLDOWN_SECONDS < now
        BY <1>3, <1>4, <1>5, <2>2, <3>1, OneMoreOverride
      <3> QED  BY <1>3, <3>2
    <2> QED  BY <1>3, <2>1, <2>2
  <1>7. /\ settings'.lastActionTime \in 1..now'
        /\ (settings'.nonce - 1) * ADMIN_COOLDOWN_SECONDS < settings'.lastActionTime
    <2>1. (n + 1) - 1 = n
      BY <1>3
    <2> QED  BY <1>1, <1>2, <1>3, <1>6, <2>1
  <1> QED  BY <1>7 DEF OverrideRateLimited

(* Time passes, or nothing the property reads changes. *)
LEMMA SpacedLater ==
    ASSUME now \in Nat, now' \in Nat, now <= now', OverrideRateLimited,
           settings'.nonce = settings.nonce,
           settings'.lastActionTime = settings.lastActionTime
    PROVE  OverrideRateLimited'
  BY DEF OverrideRateLimited

(* Only the ledger moves the clock, one second at a time.                  *)
LEMMA ClockMoves ==
    ASSUME settings \in Settings, Next
    PROVE  now' = now \/ now' = now + 1
  <1>1. CASE Tick
    BY <1>1 DEF Tick
  <1>2. CASE Create
    BY <1>2 DEF Create, create_stream, create_stream_for_org, create_draft_stream
  <1>3. ASSUME NEW id \in Ids, Lifecycle(id)
        PROVE  now' = now
    BY <1>3 DEF Lifecycle, start_stream, pause, resume, settle, cancel_stream, amend_stream
  <1>4. ASSUME NEW id \in Ids, Withdraw(id)
        PROVE  now' = now
    BY <1>4 DEF Withdraw, withdraw, withdraw_with_max_fee_bps, WithdrawRow
  <1>5. ASSUME NEW id \in Ids, Delegate(id)
        PROVE  now' = now
    BY <1>5 DEF Delegate, add_withdrawer, remove_withdrawer
  <1>6. ASSUME NEW caller \in Governors, Override(caller)
        PROVE  now' = now
    BY <1>6 DEF Override, admin_override
  <1>7. ASSUME NEW caller \in Governors, Administer(caller)
        PROVE  now' = now
    BY <1>7, AdministerKeepsNonce
  <1> QED  BY <1>1, <1>2, <1>3, <1>4, <1>5, <1>6, <1>7 DEF Next

LEMMA NextKeepsSpacing == IInv /\ OverrideRateLimited /\ [Next]_vars => OverrideRateLimited'
  <1> SUFFICES ASSUME IInv, OverrideRateLimited, [Next]_vars
               PROVE  OverrideRateLimited'
    OBVIOUS
  <1>1. settings \in Settings /\ now \in 1..MaxTime
    BY DEF IInv, TypeOK
  <1>2. now \in Nat /\ now' \in Nat /\ now <= now'
    <2>1. now' \in 1..MaxTime
      BY Inductive DEF IInv, TypeOK
    <2>2. now' = now \/ now' = now + 1
      BY <1>1, ClockMoves DEF vars
    <2> QED  BY <1>1, <2>1, <2>2
  <1>3. CASE UNCHANGED vars
    BY <1>2, <1>3, SpacedLater DEF vars
  <1>4. CASE \E caller \in Governors : Override(caller)
    BY <1>1, <1>4, OverrideSpaced
  <1>5. CASE \E caller \in Governors : Administer(caller)
    BY <1>1, <1>2, <1>5, AdministerKeepsNonce, SpacedLater
  <1>6. CASE Next /\ \A caller \in Governors : ~Override(caller) /\ ~Administer(caller)
    BY <1>2, <1>6, SettingsKept, SpacedLater
  <1> QED  BY <1>3, <1>4, <1>5, <1>6

(* Overrides are spaced by the cooldown, for every cooldown and whoever is *)
(* admin when (enforce_and_update_cooldown, consume_nonce).                *)
THEOREM OverridesAreSpaced == Spec => []OverrideRateLimited
  <1>1. Init => OverrideRateLimited
    BY DEF Init, InitialSettings, OverrideRateLimited
  <1> QED  BY <1>1, NextKeepsSpacing, ContractInvariant, PTL DEF Spec

-----------------------------------------------------------------------------
(* Organisation lists *)

(* What the property needs besides: an allowed entry sets the flag. *)
Lists(cfg) ==
    /\ cfg.orgAllowed \cap cfg.orgDenied = {}
    /\ \A org \in Orgs, t \in Tokens :
        <<org, t>> \in cfg.orgAllowed => org \in cfg.orgEnforced

LEMMA EntryKeepsLists ==
    ASSUME NEW cfg \in Settings, Lists(cfg), NEW org \in Orgs, NEW ts \in SUBSET Tokens,
           NEW allowed \in BOOLEAN
    PROVE  Lists(OrgEntry(cfg, org, ts, allowed))
  <1> DEFINE entries == {org} \X ts
             new == OrgEntry(cfg, org, ts, allowed)
  <1>1. CASE allowed
    <2>1. /\ new.orgAllowed = cfg.orgAllowed \cup entries
          /\ new.orgDenied = cfg.orgDenied \ entries
          /\ new.orgEnforced = IF ts = {} THEN cfg.orgEnforced ELSE cfg.orgEnforced \cup {org}
      BY <1>1 DEF OrgEntry, Settings
    <2>2. new.orgAllowed \cap new.orgDenied = {}
      BY <2>1 DEF Lists
    <2>3. ASSUME NEW o \in Orgs, NEW t \in Tokens, <<o, t>> \in new.orgAllowed
          PROVE  o \in new.orgEnforced
      <3>1. CASE <<o, t>> \in cfg.orgAllowed
        BY <2>1, <3>1 DEF Lists
      <3>2. CASE <<o, t>> \in entries
        BY <2>1, <3>2
      <3> QED  BY <2>1, <2>3, <3>1, <3>2
    <2> QED  BY <2>2, <2>3 DEF Lists
  <1>2. CASE ~allowed
    <2>1. /\ new.orgAllowed = cfg.orgAllowed \ entries
          /\ new.orgDenied = cfg.orgDenied \cup entries
          /\ new.orgEnforced = cfg.orgEnforced
      BY <1>2 DEF OrgEntry, Settings
    <2> QED  BY <2>1 DEF Lists
  <1> QED  BY <1>1, <1>2

(* A call that leaves the three keys alone. *)
LEMMA ListsKept ==
    ASSUME Lists(settings),
           settings'.orgAllowed = settings.orgAllowed,
           settings'.orgDenied = settings.orgDenied,
           settings'.orgEnforced = settings.orgEnforced
    PROVE  Lists(settings)'
  BY DEF Lists

LEMMA AdministerKeepsLists ==
    ASSUME settings \in Settings, Lists(settings), NEW caller \in Governors,
           Administer(caller)
    PROVE  Lists(settings)'
  <1>1. ASSUME NEW org \in Orgs, NEW ts \in SUBSET Tokens,
               init_allowlist_for_org(caller, org, ts)
        PROVE  Lists(settings)'
    <2> DEFINE opened == [settings EXCEPT !.admin = caller, !.paused = FALSE]
    <2>1. opened \in Settings
      BY ContractAssumption DEF Settings
    <2>2. Lists(opened)
      BY DEF Lists, Settings
    <2>3. settings' = OrgEntry(opened, org, ts, TRUE)
      BY <1>1 DEF init_allowlist_for_org, SettingsWritten
    <2> HIDE DEF opened
    <2>4. Lists(OrgEntry(opened, org, ts, TRUE))
      BY <2>1, <2>2, EntryKeepsLists
    <2> QED  BY <2>3, <2>4 DEF Lists
  <1>2. ASSUME NEW org \in Orgs, NEW token \in Tokens, NEW allowed \in BOOLEAN,
               set_org_token_allowed(caller, org, token, allowed)
        PROVE  Lists(settings)'
    <2>1. settings' = OrgEntry(settings, org, {token}, allowed)
      BY <1>2 DEF set_org_token_allowed, SettingsWritten
    <2>2. Lists(OrgEntry(settings, org, {token}, allowed))
      BY EntryKeepsLists
    <2> QED  BY <2>1, <2>2 DEF Lists
  <1>3. CASE /\ settings'.orgAllowed = settings.orgAllowed
             /\ settings'.orgDenied = settings.orgDenied
             /\ settings'.orgEnforced = settings.orgEnforced
    BY <1>3, ListsKept
  <1> QED  BY <1>1, <1>2, <1>3, ZenonT(40)
           DEF Administer, initialize, migrate, set_admin, set_paused,
               set_token_allowed, set_fee_collector, set_default_fee_bps, set_fee_bps,
               set_max_streams_per_sender, set_cooloff_duration, SettingsWritten, Settings

LEMMA OverrideKeepsLists ==
    ASSUME settings \in Settings, Lists(settings), NEW caller \in Governors,
           Override(caller)
    PROVE  Lists(settings)'
  <1>1. settings' = [settings EXCEPT !.nonce = @ + 1, !.lastActionTime = now]
    BY DEF Override, admin_override
  <1> QED  BY <1>1, ListsKept DEF Settings

LEMMA NextKeepsLists == IInv /\ Lists(settings) /\ [Next]_vars => Lists(settings)'
  <1> SUFFICES ASSUME IInv, Lists(settings), [Next]_vars
               PROVE  Lists(settings)'
    OBVIOUS
  <1>1. settings \in Settings
    BY DEF IInv, TypeOK
  <1>2. CASE settings' = settings
    BY <1>2, ListsKept
  <1>3. CASE \E caller \in Governors : Override(caller) \/ Administer(caller)
    BY <1>1, <1>3, OverrideKeepsLists, AdministerKeepsLists
  <1> QED  BY <1>2, <1>3, SettingsKept DEF vars

(* Whatever admins configure in whatever order, an entry says one thing    *)
(* and one allowed token closes the list (set_org_token_allowed,           *)
(* is_org_token_blocked).                                                  *)
THEOREM OrgListsAreConsistent == Spec => []OrgEntriesConsistent
  <1>1. Init => Lists(settings)
    BY DEF Init, InitialSettings, Lists
  <1>2. Lists(settings) => OrgEntriesConsistent
    BY DEF Lists, OrgEntriesConsistent, OrgBlocked
  <1> QED  BY <1>1, <1>2, NextKeepsLists, ContractInvariant, PTL DEF Spec

-----------------------------------------------------------------------------
(* The pause switch                                                        *)

LEMMA PausedStep ==
    ASSUME IInv, Next, settings.paused, balance' # balance
    PROVE  \E id \in Ids : streams[id].status \in Live /\ streams'[id].status = "Cancelled"
  <1>1. streams \in [Ids -> Stream]
    BY DEF IInv, TypeOK
  <1>2. ~Tick
    BY DEF Tick, money
  <1>3. ~Create
    BY DEF Create, create_stream, create_stream_for_org, create_draft_stream, NotPaused
  <1>4. ASSUME NEW id \in Ids, Lifecycle(id)
        PROVE  cancel_stream(id)
    BY <1>4 DEF Lifecycle, start_stream, pause, resume, settle, amend_stream,
                NotPaused, money
  <1>5. ASSUME NEW id \in Ids
        PROVE  ~Withdraw(id) /\ ~Delegate(id)
    BY DEF Withdraw, withdraw, withdraw_with_max_fee_bps, WithdrawGuard, NotPaused,
           Delegate, add_withdrawer, remove_withdrawer, money
  <1>6. ASSUME NEW caller \in Governors
        PROVE  ~Override(caller) /\ ~Administer(caller)
    BY DEF Override, admin_override, Administer, initialize, migrate,
           init_allowlist_for_org, set_admin, set_paused, set_token_allowed,
           set_org_token_allowed, set_fee_collector, set_default_fee_bps, set_fee_bps,
           set_max_streams_per_sender, set_cooloff_duration, SettingsWritten, money
  <1>7. PICK id \in Ids : cancel_stream(id)
    BY <1>2, <1>3, <1>4, <1>5, <1>6 DEF Next
  <1>8. streams[id].status \in Live /\ streams'[id].status = "Cancelled"
    BY <1>1, <1>7 DEF cancel_stream, Stream
  <1> QED  BY <1>8

(* While the contract is paused nothing is deposited, withdrawn or settled *)
(* and only a sender who cancels moves tokens (require_not_paused).        *)
THEOREM PauseStopsTokens == Spec => PausedOnlyRefunds
  <1>1. IInv /\ [Next]_vars =>
          [ settings.paused /\ balance' # balance =>
              \E id \in Ids : /\ streams[id].status \in Live
                              /\ streams'[id].status = "Cancelled" ]_vars
    BY PausedStep DEF vars, money
  <1> QED  BY <1>1, ContractInvariant, PTL DEF Spec, PausedOnlyRefunds

-----------------------------------------------------------------------------
(* Who is paid                                                             *)

Ledgers == [Tokens -> [Holders -> Int]]

(* A transfer out of escrow changes no account but the one it goes to.     *)
LEMMA TransferReaches ==
    ASSUME NEW ledger \in Ledgers, NEW t \in Tokens, NEW to \in Accounts,
           NEW amount \in Int
    PROVE  /\ Transfer(ledger, t, Escrow, to, amount) \in Ledgers
           /\ \A u \in Tokens, a \in Accounts :
                \/ Transfer(ledger, t, Escrow, to, amount)[u][a] = ledger[u][a]
                \/ u = t /\ a = to
  <1> DEFINE charged == [ledger EXCEPT ![t][Escrow] = @ - amount]
             after == [charged EXCEPT ![t][to] = @ + amount]
  <1>1. Escrow \in Holders /\ to \in Holders /\ Escrow \notin Accounts
    BY ContractAssumption DEF Holders
  <1>2. charged \in Ledgers
    BY <1>1 DEF Ledgers
  <1>3. \A u \in Tokens, a \in Accounts : charged[u][a] = ledger[u][a]
    BY <1>1 DEF Ledgers, Holders
  <1>4. after \in Ledgers
    BY <1>1, <1>2 DEF Ledgers
  <1>5. \A u \in Tokens, a \in Accounts : after[u][a] = charged[u][a] \/ (u = t /\ a = to)
    <2> HIDE DEF charged
    <2> QED  BY <1>1, <1>2 DEF Ledgers, Holders
  <1>6. Transfer(ledger, t, Escrow, to, amount) = after
    BY DEF Transfer
  <1> HIDE DEF charged, after
  <1> QED  BY <1>3, <1>4, <1>5, <1>6

(* Two transfers out of escrow reach their two payees.                     *)
LEMMA TransfersReach ==
    ASSUME NEW ledger \in Ledgers, NEW t \in Tokens,
           NEW first \in Accounts, NEW second \in Accounts,
           NEW x \in Int, NEW y \in Int
    PROVE  \A u \in Tokens, a \in Accounts :
             \/ Transfer(Transfer(ledger, t, Escrow, first, x), t, Escrow, second, y)[u][a]
                  = ledger[u][a]
             \/ u = t /\ a \in {first, second}
  <1> DEFINE once == Transfer(ledger, t, Escrow, first, x)
  <1>1. once \in Ledgers
    BY TransferReaches
  <1>2. \A u \in Tokens, a \in Accounts : once[u][a] = ledger[u][a] \/ (u = t /\ a = first)
    BY TransferReaches
  <1> HIDE DEF once
  <1>3. \A u \in Tokens, a \in Accounts :
          \/ Transfer(once, t, Escrow, second, y)[u][a] = once[u][a]
          \/ u = t /\ a = second
    BY <1>1, TransferReaches
  <1> QED  BY <1>2, <1>3 DEF once

(* A deposit goes from an account to escrow and enriches no account.       *)
LEMMA DepositReaches ==
    ASSUME NEW ledger \in Ledgers, NEW t \in Tokens, NEW from \in Accounts,
           NEW amount \in Nat, NEW u \in Tokens, NEW a \in Accounts
    PROVE  Transfer(ledger, t, from, Escrow, amount)[u][a] <= ledger[u][a]
  <1> DEFINE charged == [ledger EXCEPT ![t][from] = @ - amount]
             after == [charged EXCEPT ![t][Escrow] = @ + amount]
  <1>1. Escrow \in Holders /\ from \in Holders /\ a \in Holders /\ a # Escrow
    BY ContractAssumption DEF Holders
  <1>2. charged \in Ledgers /\ charged[u][a] <= ledger[u][a]
    BY <1>1 DEF Ledgers
  <1>3. after[u][a] = charged[u][a]
    <2> HIDE DEF charged
    <2> QED  BY <1>1, <1>2 DEF Ledgers
  <1>4. Transfer(ledger, t, from, Escrow, amount) = after
    BY DEF Transfer
  <1> HIDE DEF charged, after
  <1> QED  BY <1>2, <1>3, <1>4

(* Why account a may hold more of t after the step. *)
Entitled(t, a) ==
    \/ a \in {settings.collector, settings.admin}
    \/ \E id \in Ids :
         /\ streams[id].status \in Live /\ streams[id].token = t
         /\ \/ a = streams[id].recipient
            \/ a = streams[id].sender /\ streams'[id].status = "Cancelled"

(* A withdrawal of amount from stream id, fee of it paid to payee. *)
Payout(id, amount, fee, payee) ==
    /\ streams[id].status \in {"Active", "Paused"}
    /\ SplitPayout(id, amount, fee, payee)
    /\ \E bps \in 0..MAX_FEE_BPS : fee = FeeAmount(amount, bps)
    /\ payee \in {streams[id].recipient, settings.collector, settings.admin}
    /\ payee = None => payee = streams[id].recipient

(* Every creation puts a new row down, with its deposit. *)
LEMMA CreateOpens ==
    ASSUME Create
    PROVE  \E row : /\ NewRow(row) /\ row.token \in Tokens /\ row.sender \in Accounts
                    /\ row.total_amount \in Nat
  <1> USE ContractAssumption
  <1>1. ASSUME NEW sender \in Accounts, NEW recipient \in Accounts,
               NEW token \in Tokens, NEW amount \in Amounts,
               NEW start \in EndTimes, NEW end \in EndTimes, NEW bps \in FeeRates,
               create_stream(sender, recipient, token, amount, start, end, bps)
        PROVE  \E row : /\ NewRow(row) /\ row.token \in Tokens /\ row.sender \in Accounts
                        /\ row.total_amount \in Nat
    <2> DEFINE row == Opened("Active", sender, recipient, token, amount,
                             start, end, end - start, bps)
    <2>1. row.token = token /\ row.sender = sender /\ row.total_amount = amount
      BY DEF Opened
    <2>2. NewRow(row)
      BY <1>1 DEF create_stream
    <2> HIDE DEF row
    <2> QED  BY <2>1, <2>2
  <1>2. ASSUME NEW sender \in Accounts, NEW recipient \in Accounts,
               NEW token \in Tokens, NEW amount \in Amounts, NEW duration \in Durations,
               create_draft_stream(sender, recipient, token, amount, duration)
        PROVE  \E row : /\ NewRow(row) /\ row.token \in Tokens /\ row.sender \in Accounts
                        /\ row.total_amount \in Nat
    <2> DEFINE row == Opened("Draft", sender, recipient, token, amount, 0, 0, duration, 0)
    <2>1. row.token = token /\ row.sender = sender /\ row.total_amount = amount
      BY DEF Opened
    <2>2. NewRow(row)
      BY <1>2 DEF create_draft_stream
    <2> HIDE DEF row
    <2> QED  BY <2>1, <2>2
  <1> QED  BY <1>1, <1>2 DEF Create, create_stream_for_org

LEMMA DepositEnrichesNobody ==
    ASSUME Rows, Rest, Create, NEW t \in Tokens, NEW a \in Accounts
    PROVE  balance'[t][a] <= balance[t][a]
  <1>1. PICK row : /\ NewRow(row) /\ row.token \in Tokens /\ row.sender \in Accounts
                   /\ row.total_amount \in Nat
    BY CreateOpens
  <1>2. balance \in Ledgers
    BY DEF Rest, Ledgers
  <1>3. balance' = Transfer(balance, row.token, row.sender, Escrow, row.total_amount)
    BY <1>1 DEF NewRow, Escrowed
  <1> QED  BY <1>1, <1>2, <1>3, DepositReaches

LEMMA LifecyclePays ==
    ASSUME Rows, Rest, NEW id \in Ids, Lifecycle(id), NEW t \in Tokens, NEW a \in Accounts
    PROVE  balance'[t][a] = balance[t][a] \/ Entitled(t, a)
  <1> DEFINE s == streams[id]
  <1>1. balance \in Ledgers
    BY DEF Rest, Ledgers
  <1>2. CASE balance' = balance
    BY <1>2
  <1>3. CASE settle(id)
    <2>1. s.status \in Live /\ s.status # "Absent"
      BY <1>3 DEF settle, Live
    <2>2. Remaining(s) \in Int /\ s.recipient \in Accounts /\ s.token \in Tokens
      BY <2>1, RowParties DEF Remaining, Stream
    <2>3. balance' = Transfer(balance, s.token, Escrow, s.recipient, Remaining(s))
      BY <1>3 DEF settle, PaidOut
    <2>4. balance'[t][a] = balance[t][a] \/ (t = s.token /\ a = s.recipient)
      BY <1>1, <2>2, <2>3, TransferReaches
    <2> QED  BY <2>1, <2>4 DEF Entitled
  <1>4. CASE cancel_stream(id)
    <2>1. s.status \in Live /\ s.status # "Absent"
      BY <1>4 DEF cancel_stream, Live
    <2>2. /\ s.recipient \in Accounts /\ s.sender \in Accounts /\ s.token \in Tokens
          /\ s \in Stream /\ now \in Nat
      BY <2>1, RowParties
    <2>3. withdrawable(s, now) \in Int /\ Refund(s) \in Int
      <3>1. vested_amount(s, now) \in 0..s.total_amount
        BY <2>2, StreamSchedule, VestedBounds
      <3> QED  BY <2>2, <3>1 DEF withdrawable, Refund, Larger, Stream
    <2>4. balance' = Transfer(Transfer(balance, s.token, Escrow, s.recipient,
                                       withdrawable(s, now)),
                              s.token, Escrow, s.sender, Refund(s))
      BY <1>4 DEF cancel_stream, PaidOut
    <2>5. balance'[t][a] = balance[t][a] \/ (t = s.token /\ a \in {s.recipient, s.sender})
      BY <1>1, <2>2, <2>3, <2>4, TransfersReach
    <2>6. streams'[id].status = "Cancelled"
      BY <1>4, <2>2 DEF cancel_stream, Stream, Rows
    <2> QED  BY <2>1, <2>5, <2>6 DEF Entitled
  <1> QED  BY <1>2, <1>3, <1>4
           DEF Lifecycle, start_stream, pause, resume, amend_stream, money

(* Both withdrawals release amount and pay it out in two parts. *)
LEMMA WithdrawIsPayout ==
    ASSUME Rows, Rest, NEW id \in Ids, Withdraw(id)
    PROVE  \E amount \in Amounts : /\ WithdrawRow(id, amount)
                                   /\ \E fee, payee : Payout(id, amount, fee, payee)
  <1> DEFINE s == streams[id]
  <1>1. ASSUME NEW amount \in Amounts, NEW caller \in Accounts, withdraw(caller, id, amount)
        PROVE  WithdrawRow(id, amount) /\ \E fee, payee : Payout(id, amount, fee, payee)
    <2> DEFINE payee == IF settings.collector = None THEN s.recipient
                                                     ELSE settings.collector
    <2>1. s.fee_bps \in 0..MAX_FEE_BPS
      BY DEF Rows, Stream
    <2>2. /\ s.status \in {"Active", "Paused"} /\ WithdrawRow(id, amount)
          /\ SplitPayout(id, amount, FeeAmount(amount, s.fee_bps), payee)
      BY <1>1 DEF withdraw, WithdrawGuard
    <2>3. /\ payee \in {s.recipient, settings.collector, settings.admin}
          /\ payee = None => payee = s.recipient
      OBVIOUS
    <2> HIDE DEF payee
    <2> QED  BY <2>1, <2>2, <2>3 DEF Payout
  <1>2. ASSUME NEW amount \in Amounts, NEW max_fee \in FeeRates,
               withdraw_with_max_fee_bps(id, amount, max_fee)
        PROVE  WithdrawRow(id, amount) /\ \E fee, payee : Payout(id, amount, fee, payee)
    <2> DEFINE fee == FeeAmount(amount, settings.feeBps)
               payee == IF fee > 0 THEN settings.admin ELSE s.recipient
    <2>1. settings.feeBps \in 0..MAX_FEE_BPS
      BY DEF Rest, Settings
    <2>2. /\ s.status \in {"Active", "Paused"} /\ WithdrawRow(id, amount)
          /\ SplitPayout(id, amount, fee, payee)
          /\ fee > 0 => settings.admin # None
      BY <1>2 DEF withdraw_with_max_fee_bps, WithdrawGuard
    <2>3. /\ payee \in {s.recipient, settings.collector, settings.admin}
          /\ payee = None => payee = s.recipient
      BY <2>2
    <2> HIDE DEF payee
    <2> QED  BY <2>1, <2>2, <2>3 DEF Payout
  <1> QED  BY <1>1, <1>2 DEF Withdraw

LEMMA PayoutTypes ==
    ASSUME Rows, Rest, NEW id \in Ids, NEW amount \in Amounts, NEW fee, NEW payee,
           Payout(id, amount, fee, payee)
    PROVE  /\ streams[id].recipient \in Accounts /\ streams[id].token \in Tokens
           /\ streams[id] \in Stream /\ streams[id].status \in Live
           /\ payee \in Accounts /\ amount \in Int /\ fee \in Int
  <1> DEFINE s == streams[id]
  <1>1. /\ s.recipient \in Accounts /\ s.token \in Tokens /\ s.status \in Live
    BY RowParties DEF Payout, Live
  <1>2. payee \in Accounts
    <2>1. settings.collector \in Accounts \cup {None} /\ settings.admin \in Accounts \cup {None}
      BY DEF Rest, Settings
    <2> QED  BY <1>1, <2>1 DEF Payout
  <1>3. amount \in Nat /\ fee \in Int
    <2>1. amount \in Nat
      BY ContractAssumption
    <2>2. PICK bps \in 0..MAX_FEE_BPS : fee = FeeAmount(amount, bps)
      BY DEF Payout
    <2>3. fee \in 0..amount
      BY <2>1, <2>2, FeeBounds
    <2> QED  BY <2>1, <2>3
  <1> QED  BY <1>1, <1>2, <1>3 DEF Rows

LEMMA WithdrawPays ==
    ASSUME Rows, Rest, NEW id \in Ids, Withdraw(id), NEW t \in Tokens, NEW a \in Accounts
    PROVE  balance'[t][a] = balance[t][a] \/ Entitled(t, a)
  <1> DEFINE s == streams[id]
  <1>1. PICK amount \in Amounts : \E fee, payee : Payout(id, amount, fee, payee)
    BY WithdrawIsPayout
  <1>2. PICK fee, payee : Payout(id, amount, fee, payee)
    BY <1>1
  <1>3. /\ s.recipient \in Accounts /\ s.token \in Tokens /\ s.status \in Live
    BY <1>2, PayoutTypes
  <1>4. payee \in Accounts
    BY <1>2, PayoutTypes
  <1>5. amount \in Int /\ fee \in Int
    BY <1>2, PayoutTypes
  <1>6. balance' = Transfer(Transfer(balance, s.token, Escrow, s.recipient, amount - fee),
                            s.token, Escrow, payee, fee)
    BY <1>2 DEF Payout, SplitPayout, PaidOut
  <1>7. balance \in Ledgers /\ amount - fee \in Int
    BY <1>5 DEF Rest, Ledgers
  <1>8. balance'[t][a] = balance[t][a] \/ (t = s.token /\ a \in {s.recipient, payee})
    <2> DEFINE rest == amount - fee
    <2>1. rest \in Int /\ s.token \in Tokens /\ s.recipient \in Accounts
      BY <1>3, <1>7
    <2>2. balance' = Transfer(Transfer(balance, s.token, Escrow, s.recipient, rest),
                              s.token, Escrow, payee, fee)
      BY <1>6
    <2> HIDE DEF rest
    <2> QED  BY <1>4, <1>5, <1>7, <2>1, <2>2, TransfersReach
  <1> QED  BY <1>2, <1>3, <1>8 DEF Payout, Entitled

LEMMA StepPaysParties ==
    ASSUME IInv, Next, NEW t \in Tokens, NEW a \in Accounts,
           balance'[t][a] > balance[t][a]
    PROVE  Entitled(t, a)
  <1>0. Rows /\ Rest
    BY Halves
  <1>1. balance[t][a] \in Nat
    BY <1>0 DEF Rest, Holders
  <1>2. ~Create
    <2>1. balance'[t][a] \in Int
      <3>1. balance' \in [Tokens -> [Holders -> Nat]]
        BY <1>0, CallsPreserve DEF Rest
      <3> QED  BY <3>1 DEF Holders
    <2> QED  BY <1>0, <1>1, <2>1, DepositEnrichesNobody
  <1>3. balance' # balance
    BY <1>1
  <1>4. ASSUME NEW id \in Ids, Lifecycle(id) \/ Withdraw(id)
        PROVE  Entitled(t, a)
    BY <1>0, <1>1, <1>4, LifecyclePays, WithdrawPays
  <1>5. ~Tick /\ \A id \in Ids : ~Delegate(id)
    BY <1>3 DEF Tick, Delegate, add_withdrawer, remove_withdrawer, money
  <1>6. \A caller \in Governors : ~Override(caller) /\ ~Administer(caller)
    BY <1>3 DEF Override, admin_override, Administer, initialize, migrate,
           init_allowlist_for_org, set_admin, set_paused, set_token_allowed,
           set_org_token_allowed, set_fee_collector, set_default_fee_bps, set_fee_bps,
           set_max_streams_per_sender, set_cooloff_duration, SettingsWritten, money
  <1> QED  BY <1>2, <1>4, <1>5, <1>6 DEF Next

(* Whoever calls, tokens reach a party of a stream in that token, the fee  *)
(* collector or the admin, and nobody else (withdraw, settle,              *)
(* cancel_stream, require_withdraw_auth).                                  *)
THEOREM PayeesAreParties == Spec => OnlyPartiesArePaid
  <1>1. IInv /\ [Next]_vars =>
          [ \A t \in Tokens, a \in Accounts : balance'[t][a] > balance[t][a] =>
              Entitled(t, a) ]_vars
    BY StepPaysParties
  <1> QED  BY <1>1, ContractInvariant, PTL DEF Spec, OnlyPartiesArePaid, Entitled

-----------------------------------------------------------------------------
(* What the contract holds in all                                          *)

HeldIn(t) == [id \in Ids |-> IF streams[id].token = t THEN held[id] ELSE 0]

(* The contract's balance of a token is the sum of what is held for the    *)
(* streams in it, shorted ones included: the strengthening Solvent needs.  *)
EscrowIsHeld == \A t \in Tokens : balance[t][Escrow] = SumUpTo(HeldIn(t), MaxStreams)

(* A transfer out of escrow lowers its balance of that token by amount,    *)
(* and a deposit raises it.                                                *)
LEMMA TransferLeaves ==
    ASSUME NEW ledger \in Ledgers, NEW t \in Tokens, NEW to \in Accounts,
           NEW amount \in Int, NEW u \in Tokens
    PROVE  Transfer(ledger, t, Escrow, to, amount)[u][Escrow]
             = ledger[u][Escrow] - (IF u = t THEN amount ELSE 0)
  <1> DEFINE charged == [ledger EXCEPT ![t][Escrow] = @ - amount]
             after == [charged EXCEPT ![t][to] = @ + amount]
  <1>1. Escrow \in Holders /\ to \in Holders /\ Escrow # to
    BY ContractAssumption DEF Holders
  <1>2. /\ charged \in Ledgers
        /\ charged[u][Escrow] = ledger[u][Escrow] - (IF u = t THEN amount ELSE 0)
    BY <1>1 DEF Ledgers
  <1>3. after[u][Escrow] = charged[u][Escrow]
    <2> HIDE DEF charged
    <2> QED  BY <1>1, <1>2 DEF Ledgers
  <1>4. Transfer(ledger, t, Escrow, to, amount) = after
    BY DEF Transfer
  <1> HIDE DEF charged, after
  <1> QED  BY <1>2, <1>3, <1>4

LEMMA TransfersLeave ==
    ASSUME NEW ledger \in Ledgers, NEW t \in Tokens,
           NEW first \in Accounts, NEW second \in Accounts,
           NEW x \in Int, NEW y \in Int, NEW u \in Tokens
    PROVE  Transfer(Transfer(ledger, t, Escrow, first, x), t, Escrow, second, y)[u][Escrow]
             = ledger[u][Escrow] - (IF u = t THEN x + y ELSE 0)
  <1> DEFINE once == Transfer(ledger, t, Escrow, first, x)
  <1>1. once \in Ledgers /\ ledger[u][Escrow] \in Int
    BY TransferReaches DEF Ledgers, Holders
  <1>2. once[u][Escrow] = ledger[u][Escrow] - (IF u = t THEN x ELSE 0)
    BY TransferLeaves
  <1> HIDE DEF once
  <1>3. Transfer(once, t, Escrow, second, y)[u][Escrow]
          = once[u][Escrow] - (IF u = t THEN y ELSE 0)
    BY <1>1, TransferLeaves
  <1> QED  BY <1>1, <1>2, <1>3 DEF once

LEMMA DepositArrives ==
    ASSUME NEW ledger \in Ledgers, NEW t \in Tokens, NEW from \in Accounts,
           NEW amount \in Int, NEW u \in Tokens
    PROVE  Transfer(ledger, t, from, Escrow, amount)[u][Escrow]
             = ledger[u][Escrow] + (IF u = t THEN amount ELSE 0)
  <1> DEFINE charged == [ledger EXCEPT ![t][from] = @ - amount]
             after == [charged EXCEPT ![t][Escrow] = @ + amount]
  <1>1. Escrow \in Holders /\ from \in Holders /\ Escrow # from
    BY ContractAssumption DEF Holders
  <1>2. charged \in Ledgers /\ charged[u][Escrow] = ledger[u][Escrow]
    BY <1>1 DEF Ledgers
  <1>3. after[u][Escrow] = charged[u][Escrow] + (IF u = t THEN amount ELSE 0)
    <2> HIDE DEF charged
    <2> QED  BY <1>1, <1>2 DEF Ledgers
  <1>4. Transfer(ledger, t, from, Escrow, amount) = after
    BY DEF Transfer
  <1> HIDE DEF charged, after
  <1> QED  BY <1>2, <1>3, <1>4

(* A call that rewrites the row of id moves change of its token into       *)
(* escrow, or out of it when change is negative.                           *)
Effect(id, row, change) ==
    /\ change \in Int
    /\ streams' = [streams EXCEPT ![id] = row]
    /\ row.token \in Tokens
    /\ row.token = streams[id].token \/ streams[id].status = "Absent"
    /\ held' = [held EXCEPT ![id] = @ + change]
    /\ \A t \in Tokens : balance'[t][Escrow]
                           = balance[t][Escrow] + (IF t = row.token THEN change ELSE 0)

LEMMA EffectIsHeld ==
    ASSUME Rows, Rest, EscrowIsHeld,
           NEW id \in Ids, NEW row, NEW change, Effect(id, row, change)
    PROVE  EscrowIsHeld'
  <1> SUFFICES ASSUME NEW t \in Tokens
               PROVE  balance'[t][Escrow] = SumUpTo(HeldIn(t)', MaxStreams)
    BY DEF EscrowIsHeld
  <1> DEFINE v == HeldIn(t)
             w == HeldIn(t)'
             moved == IF t = row.token THEN change ELSE 0
  <1>1. MaxStreams \in Nat /\ id \in 1..MaxStreams
    BY ContractAssumption DEF Ids
  <1>2. held[id] \in Int /\ streams'[id] = row /\ held'[id] = held[id] + change
    BY DEF Effect, Rows
  <1>3. \A i \in 1..MaxStreams : i # id => streams'[i] = streams[i] /\ held'[i] = held[i]
    BY DEF Effect, Rows, Ids
  <1>4. \A i \in 1..MaxStreams : held[i] \in Int /\ held'[i] \in Int
    BY DEF Effect, Rows, Ids
  <1>5. /\ \A i \in 1..MaxStreams : v[i] = IF streams[i].token = t THEN held[i] ELSE 0
        /\ \A i \in 1..MaxStreams : w[i] = IF streams'[i].token = t THEN held'[i] ELSE 0
    BY DEF HeldIn, Ids
  <1>6. streams[id].status = "Absent" => held[id] = 0
    BY DEF Rows, RowSafe, Accounted
  <1>7. w[id] = v[id] + moved
    <2>1. change \in Int /\ (row.token = streams[id].token \/ held[id] = 0)
      BY <1>6 DEF Effect
    <2>2. /\ v[id] = IF streams[id].token = t THEN held[id] ELSE 0
          /\ w[id] = IF row.token = t THEN held[id] + change ELSE 0
      BY <1>1, <1>2, <1>5
    <2> HIDE DEF v, w
    <2> QED  BY <1>2, <2>1, <2>2
  <1>8. /\ \A i \in 1..MaxStreams : v[i] \in Int /\ w[i] \in Int
        /\ \A i \in 1..MaxStreams : i # id => v[i] = w[i]
    BY <1>3, <1>4, <1>5
  <1>9. balance'[t][Escrow] = balance[t][Escrow] + moved /\ moved \in Int
    BY DEF Effect
  <1>10. balance[t][Escrow] = SumUpTo(v, MaxStreams)
    BY DEF EscrowIsHeld
  <1> HIDE DEF v, w, moved
  <1>11. SumUpTo(w, MaxStreams) = SumUpTo(v, MaxStreams) - v[id] + w[id]
    BY <1>1, <1>8, SumChanged
  <1>12. SumUpTo(v, MaxStreams) \in Int /\ v[id] \in Int
    BY <1>1, <1>8, SumType
  <1> QED  BY <1>7, <1>9, <1>10, <1>11, <1>12 DEF w

LEMMA DepositEffect ==
    ASSUME Rows, Rest, NEW row, NewRow(row), row.token \in Tokens,
           row.sender \in Accounts, row.total_amount \in Nat
    PROVE  nextId \in Ids /\ Effect(nextId, row, row.total_amount)
  <1>1. /\ nextId \in Ids
        /\ streams' = [streams EXCEPT ![nextId] = row]
        /\ held' = [held EXCEPT ![nextId] = @ + row.total_amount]
        /\ balance' = Transfer(balance, row.token, row.sender, Escrow, row.total_amount)
    BY DEF NewRow, Escrowed, Rows, Ids
  <1>2. streams[nextId].status = "Absent"
    BY <1>1 DEF Rows, NoStream, Opened
  <1>3. balance \in Ledgers /\ row.total_amount \in Int
    BY DEF Rest, Ledgers
  <1>4. \A t \in Tokens : balance'[t][Escrow]
          = balance[t][Escrow] + (IF t = row.token THEN row.total_amount ELSE 0)
    BY <1>1, <1>3, DepositArrives
  <1> QED  BY <1>1, <1>2, <1>3, <1>4 DEF Effect

(* A call that rewrites a row and moves no tokens. *)
LEMMA RowEffect ==
    ASSUME Rows, Rest, NEW id \in Ids, NEW row,
           streams' = [streams EXCEPT ![id] = row], UNCHANGED <<balance, held>>,
           row.token = streams[id].token, streams[id].status # "Absent"
    PROVE  Effect(id, row, 0)
  <1>1. held' = [held EXCEPT ![id] = @ + 0]
    BY DEF Rows
  <1>2. \A t \in Tokens : balance'[t][Escrow]
                            = balance[t][Escrow] + (IF t = row.token THEN 0 ELSE 0)
    BY DEF Rest, Holders
  <1>3. row.token \in Tokens
    BY RowParties
  <1>4. 0 \in Int
    OBVIOUS
  <1> QED  BY <1>1, <1>2, <1>3, <1>4, Zenon DEF Effect

LEMMA LifecycleEffect ==
    ASSUME Rows, Rest, NEW id \in Ids, Lifecycle(id)
    PROVE  \E row, change : Effect(id, row, change)
  <1> DEFINE s == streams[id]
  <1>1. s \in Stream /\ balance \in Ledgers /\ s.status # "Absent"
    <2>1. s.status # "Absent"
      BY DEF Lifecycle, start_stream, pause, resume, settle, cancel_stream, amend_stream, Live
    <2> QED  BY <2>1 DEF Rows, Rest, Ledgers
  <1>2. s.recipient \in Accounts /\ s.sender \in Accounts /\ s.token \in Tokens /\ now \in Nat
    BY <1>1, RowParties
  <1>3. CASE start_stream(id)
    <2> DEFINE row == StartedRow(s, now)
    <2>1. streams' = [streams EXCEPT ![id] = row] /\ UNCHANGED <<balance, held>>
      BY <1>3 DEF start_stream, StartedRow, Rows, money
    <2>2. row.token = s.token
      BY <1>1 DEF StartedRow, Stream
    <2> QED  BY <1>1, <2>1, <2>2, RowEffect
  <1>4. CASE pause(id)
    <2> DEFINE row == PausedRow(s, now)
    <2>1. streams' = [streams EXCEPT ![id] = row] /\ UNCHANGED <<balance, held>>
      BY <1>4 DEF pause, PausedRow, Rows, money
    <2>2. row.token = s.token
      BY <1>1 DEF PausedRow, Stream
    <2> QED  BY <1>1, <2>1, <2>2, RowEffect
  <1>5. CASE resume(id)
    <2> DEFINE row == ResumedRow(s, now)
    <2>1. streams' = [streams EXCEPT ![id] = row] /\ UNCHANGED <<balance, held>>
      BY <1>5 DEF resume, ResumedRow, money
    <2>2. row.token = s.token
      BY <1>1 DEF ResumedRow, Stream
    <2> QED  BY <1>1, <2>1, <2>2, RowEffect
  <1>6. ASSUME NEW end \in EndTimes, amend_stream(id, end)
        PROVE  \E row, change : Effect(id, row, change)
    <2> DEFINE row == Rescheduled(s, end)
    <2>1. streams' = [streams EXCEPT ![id] = row] /\ UNCHANGED <<balance, held>>
      BY <1>6 DEF amend_stream, Rewrite, money
    <2>2. row.token = s.token
      BY <1>1 DEF Rescheduled, Stream
    <2> QED  BY <1>1, <2>1, <2>2, RowEffect
  <1>7. CASE settle(id)
    <2> DEFINE row == [s EXCEPT !.status = "Settled", !.released_amount = s.total_amount]
               due == Remaining(s)
    <2>1. streams' = [streams EXCEPT ![id] = row]
      BY <1>7 DEF settle, Rows
    <2>2. row.token = s.token
      BY <1>1 DEF Stream
    <2>3. due \in Int
      BY <1>1 DEF Remaining, Stream
    <2>4. /\ balance' = Transfer(balance, s.token, Escrow, s.recipient, due)
          /\ held' = [held EXCEPT ![id] = @ - due]
      BY <1>7 DEF settle, PaidOut
    <2> HIDE DEF row, due
    <2>5. held' = [held EXCEPT ![id] = @ + (0 - due)]
      <3>1. held[id] \in Int
        BY DEF Rows
      <3>2. held[id] - due = held[id] + (0 - due)
        BY <2>3, <3>1
      <3> QED  BY <2>4, <3>2
    <2>6. \A t \in Tokens : balance'[t][Escrow]
            = balance[t][Escrow] + (IF t = row.token THEN 0 - due ELSE 0)
      <3> SUFFICES ASSUME NEW t \in Tokens
                   PROVE  balance'[t][Escrow]
                            = balance[t][Escrow] + (IF t = row.token THEN 0 - due ELSE 0)
        OBVIOUS
      <3>1. balance[t][Escrow] \in Int
        BY <1>1 DEF Ledgers, Holders
      <3>2. balance'[t][Escrow] = balance[t][Escrow] - (IF t = s.token THEN due ELSE 0)
        BY <1>1, <1>2, <2>3, <2>4, TransferLeaves
      <3> QED  BY <2>2, <2>3, <3>1, <3>2
    <2>7. Effect(id, row, 0 - due)
      BY <1>2, <2>1, <2>2, <2>3, <2>5, <2>6 DEF Effect
    <2> QED  BY <2>7
  <1>8. CASE cancel_stream(id)
    <2> DEFINE due == withdrawable(s, now)
               refund == Refund(s)
               row == [s EXCEPT !.status = "Cancelled", !.released_amount = @ + due]
    <2>1. streams' = [streams EXCEPT ![id] = row]
      BY <1>8 DEF cancel_stream, Rows
    <2>2. row.token = s.token
      BY <1>1 DEF Stream
    <2>3. due \in Int /\ refund \in Int
      <3>1. vested_amount(s, now) \in 0..s.total_amount
        BY <1>1, <1>2, StreamSchedule, VestedBounds
      <3> QED  BY <1>1, <3>1 DEF withdrawable, Refund, Larger, Stream
    <2>4. /\ balance' = Transfer(Transfer(balance, s.token, Escrow, s.recipient, due),
                                 s.token, Escrow, s.sender, refund)
          /\ held' = [held EXCEPT ![id] = @ - (due + refund)]
      BY <1>8 DEF cancel_stream, PaidOut
    <2> HIDE DEF row, due, refund
    <2>5. held' = [held EXCEPT ![id] = @ + (0 - (due + refund))]
      <3>1. held[id] \in Int
        BY DEF Rows
      <3>2. held[id] - (due + refund) = held[id] + (0 - (due + refund))
        BY <2>3, <3>1
      <3> QED  BY <2>4, <3>2
    <2>6. \A t \in Tokens : balance'[t][Escrow]
            = balance[t][Escrow] + (IF t = row.token THEN 0 - (due + refund) ELSE 0)
      <3> SUFFICES ASSUME NEW t \in Tokens
                   PROVE  balance'[t][Escrow] = balance[t][Escrow]
                            + (IF t = row.token THEN 0 - (due + refund) ELSE 0)
        OBVIOUS
      <3>1. balance[t][Escrow] \in Int
        BY <1>1 DEF Ledgers, Holders
      <3>2. balance'[t][Escrow]
              = balance[t][Escrow] - (IF t = s.token THEN due + refund ELSE 0)
        BY <1>1, <1>2, <2>3, <2>4, TransfersLeave
      <3> QED  BY <2>2, <2>3, <3>1, <3>2
    <2>7. Effect(id, row, 0 - (due + refund))
      BY <1>2, <2>1, <2>2, <2>3, <2>5, <2>6 DEF Effect
    <2> QED  BY <2>7
  <1> QED  BY <1>3, <1>4, <1>5, <1>6, <1>7, <1>8 DEF Lifecycle

LEMMA WithdrawEffect ==
    ASSUME Rows, Rest, NEW id \in Ids, Withdraw(id)
    PROVE  \E row, change : Effect(id, row, change)
  <1> DEFINE s == streams[id]
  <1>1. PICK amount \in Amounts : /\ WithdrawRow(id, amount)
                                  /\ \E fee, payee : Payout(id, amount, fee, payee)
    BY WithdrawIsPayout
  <1>2. PICK fee, payee : Payout(id, amount, fee, payee)
    BY <1>1
  <1>3. /\ s.recipient \in Accounts /\ s.token \in Tokens /\ s \in Stream
        /\ payee \in Accounts /\ amount \in Int /\ fee \in Int
    BY <1>2, PayoutTypes
  <1> DEFINE row == Released(s, amount)
  <1>4. streams' = [streams EXCEPT ![id] = row] /\ row.token = s.token
    BY <1>1, <1>3 DEF WithdrawRow, Released, Stream
  <1>5. /\ balance' = Transfer(Transfer(balance, s.token, Escrow, s.recipient, amount - fee),
                               s.token, Escrow, payee, fee)
        /\ held' = [held EXCEPT ![id] = @ - amount]
    BY <1>2 DEF Payout, SplitPayout, PaidOut
  <1> HIDE DEF row
  <1>6. held' = [held EXCEPT ![id] = @ + (0 - amount)]
    <2>1. held[id] \in Int
      BY DEF Rows
    <2>2. held[id] - amount = held[id] + (0 - amount)
      BY <1>3, <2>1
    <2> QED  BY <1>5, <2>2
  <1>7. \A t \in Tokens : balance'[t][Escrow]
          = balance[t][Escrow] + (IF t = row.token THEN 0 - amount ELSE 0)
    <2> SUFFICES ASSUME NEW t \in Tokens
                 PROVE  balance'[t][Escrow]
                          = balance[t][Escrow] + (IF t = row.token THEN 0 - amount ELSE 0)
      OBVIOUS
    <2> DEFINE rest == amount - fee
    <2>1. balance \in Ledgers /\ balance[t][Escrow] \in Int
      <3>1. balance \in Ledgers
        BY DEF Rest, Ledgers
      <3> QED  BY <3>1 DEF Ledgers, Holders
    <2>2. rest \in Int /\ rest + fee = amount
      BY <1>3
    <2>3. balance' = Transfer(Transfer(balance, s.token, Escrow, s.recipient, rest),
                              s.token, Escrow, payee, fee)
      BY <1>5
    <2> HIDE DEF rest
    <2>4. balance'[t][Escrow] = balance[t][Escrow] - (IF t = s.token THEN rest + fee ELSE 0)
      BY <1>3, <2>1, <2>2, <2>3, TransfersLeave
    <2> QED  BY <1>3, <1>4, <2>1, <2>2, <2>4
  <1>8. 0 - amount \in Int
    BY <1>3
  <1>9. Effect(id, row, 0 - amount)
    BY <1>3, <1>4, <1>6, <1>7, <1>8, Zenon DEF Effect
  <1> QED  BY <1>9

(* Every step has such an effect on one stream, or none on any.            *)
LEMMA StepEffect ==
    ASSUME Rows, Rest, Next
    PROVE  \/ UNCHANGED <<streams, balance, held>>
           \/ \E id \in Ids : \E row, change : Effect(id, row, change)
  <1>1. CASE Create
    BY <1>1, CreateOpens, DepositEffect
  <1>2. CASE \E id \in Ids : Lifecycle(id) \/ Withdraw(id)
    BY <1>2, LifecycleEffect, WithdrawEffect
  <1>3. ASSUME NEW caller \in Governors, Override(caller)
        PROVE  \E id \in Ids : \E row, change : Effect(id, row, change)
    <2>1. PICK id \in Ids, end \in EndTimes :
            /\ streams[id].status \in Live
            /\ Rewrite(id, Rescheduled(streams[id], end))
            /\ UNCHANGED <<balance, held>>
      BY <1>3 DEF Override, admin_override, money
    <2> DEFINE row == Rescheduled(streams[id], end)
    <2>2. row.token = streams[id].token /\ streams[id].status # "Absent"
      BY <2>1 DEF Rescheduled, Stream, Rows, Live
    <2>3. streams' = [streams EXCEPT ![id] = row]
      BY <2>1 DEF Rewrite
    <2> HIDE DEF row
    <2>4. Effect(id, row, 0)
      BY <2>1, <2>2, <2>3, RowEffect
    <2> QED  BY <2>4
  <1>4. CASE UNCHANGED <<streams, balance, held>>
    BY <1>4
  <1>5. Tick => UNCHANGED <<streams, balance, held>>
    BY DEF Tick, rows, money
  <1>6. (\E id \in Ids : Delegate(id)) => UNCHANGED <<streams, balance, held>>
    BY DEF Delegate, add_withdrawer, remove_withdrawer, money
  <1>7. (\E caller \in Governors : Administer(caller)) => UNCHANGED <<streams, balance, held>>
    BY DEF Administer, initialize, migrate, init_allowlist_for_org, set_admin,
           set_paused, set_token_allowed, set_org_token_allowed, set_fee_collector,
           set_default_fee_bps, set_fee_bps, set_max_streams_per_sender,
           set_cooloff_duration, SettingsWritten, rows, money
  <1> QED  BY <1>1, <1>2, <1>3, <1>4, <1>5, <1>6, <1>7 DEF Next

LEMMA NextIsHeld == IInv /\ EscrowIsHeld /\ [Next]_vars => EscrowIsHeld'
  <1> SUFFICES ASSUME IInv, EscrowIsHeld, [Next]_vars
               PROVE  EscrowIsHeld'
    OBVIOUS
  <1>1. Rows /\ Rest
    BY Halves
  <1>2. CASE UNCHANGED <<streams, balance, held>>
    BY <1>2 DEF EscrowIsHeld, HeldIn
  <1>3. CASE \E id \in Ids : \E row, change : Effect(id, row, change)
    BY <1>1, <1>3, EffectIsHeld
  <1> QED  BY <1>1, <1>2, <1>3, StepEffect DEF vars, rows, money

LEMMA HeldAtFirst == Init => EscrowIsHeld
  <1> SUFFICES ASSUME Init, NEW t \in Tokens
               PROVE  balance[t][Escrow] = SumUpTo(HeldIn(t), MaxStreams)
    BY DEF EscrowIsHeld
  <1>1. \A i \in 1..MaxStreams : HeldIn(t)[i] = 0
    BY DEF Init, HeldIn, Ids
  <1>2. balance[t][Escrow] = 0 /\ MaxStreams \in Nat
    BY ContractAssumption DEF Init, Holders
  <1> QED  BY <1>1, <1>2, SumOfZeros

(* Nothing is held for a stream that is over, unless one was shorted.      *)
LEMMA HeldIsUnreleased ==
    ASSUME Rows, EscrowIsHeld
    PROVE  Solvent
  <1> SUFFICES ASSUME shorted = {}, NEW t \in Tokens
               PROVE  balance[t][Escrow] = Unreleased(t)
    BY DEF Solvent
  <1> DEFINE owed == [id \in Ids |->
                        IF streams[id].status \in Live /\ streams[id].token = t
                        THEN streams[id].total_amount - streams[id].released_amount
                        ELSE 0]
  <1>1. MaxStreams \in Nat
    BY ContractAssumption
  <1>2. ASSUME NEW i \in 1..MaxStreams
        PROVE  HeldIn(t)[i] = owed[i]
    <2>0. i \in Ids /\ (i \in shorted) = FALSE
      BY DEF Ids
    <2>1. Accounted(streams[i], held[i], FALSE) /\ streams[i].status \in Status
          /\ held[i] \in Int
      <3>1. streams[i] \in Stream /\ held[i] \in Int
        BY <2>0 DEF Rows
      <3>2. RowSafe(streams[i], held[i], i \in shorted, now)
        BY <2>0 DEF Rows
      <3> QED  BY <2>0, <3>1, <3>2 DEF RowSafe, Stream
    <2>2. IF streams[i].status \in Live
          THEN held[i] = streams[i].total_amount - streams[i].released_amount
          ELSE held[i] = 0
      BY <2>1 DEF Accounted, Live, Status
    <2> QED  BY <2>2 DEF HeldIn, Ids
  <1>3. SumUpTo(HeldIn(t), MaxStreams) = SumUpTo(owed, MaxStreams)
    BY <1>1, <1>2, SumSame
  <1> QED  BY <1>3 DEF EscrowIsHeld, Unreleased

(* The contract's balance is exactly what its live streams owe, for any    *)
(* number of streams and tokens, until a schedule is rewritten below what  *)
(* was released (withdraw, settle, cancel_stream).                         *)
THEOREM ContractIsSolvent == Spec => []Solvent
  <1>1. Init => IInv /\ EscrowIsHeld
    BY Initially, HeldAtFirst
  <1>2. IInv /\ EscrowIsHeld /\ [Next]_vars => (IInv /\ EscrowIsHeld)'
    BY Inductive, NextIsHeld
  <1>3. IInv /\ EscrowIsHeld => Solvent
    BY Halves, HeldIsUnreleased
  <1> QED  BY <1>1, <1>2, <1>3, PTL DEF Spec

-----------------------------------------------------------------------------
(* The concurrency counter                                                 *)

LEMMA OpenIdsFinite ==
    ASSUME NEW a \in Accounts
    PROVE  IsFiniteSet(OpenIds(a)) /\ Cardinality(OpenIds(a)) \in Nat
  <1>1. IsFiniteSet(Ids)
    BY ContractAssumption, FS_Interval DEF Ids
  <1>2. OpenIds(a) \in SUBSET Ids
    BY DEF OpenIds
  <1> QED  BY <1>1, <1>2, FS_Subset, FS_CardinalityType

(* Rewriting one row opens or closes that one stream, for its sender. *)
LEMMA OpenIdsMove ==
    ASSUME Rows, NEW id \in Ids, NEW row, streams' = [streams EXCEPT ![id] = row],
           NEW a \in Accounts
    PROVE  OpenIds(a)' = IF row.status \in Live /\ row.sender = a
                         THEN OpenIds(a) \cup {id} ELSE OpenIds(a) \ {id}
  <1>1. streams'[id] = row /\ \A i \in Ids : i # id => streams'[i] = streams[i]
    BY DEF Rows
  <1> QED  BY <1>1 DEF OpenIds

(* create_stream, which does not count, and every call that leaves the     *)
(* stream open.                                                            *)
LEMMA OpenKeepsCount ==
    ASSUME Rows, Rest, CountNeverOverstates, NEW id \in Ids, NEW row,
           streams' = [streams EXCEPT ![id] = row], row.status \in Live,
           streams[id].status \notin Live \/ row.sender = streams[id].sender,
           senderCount' = senderCount
    PROVE  CountNeverOverstates'
  <1> SUFFICES ASSUME NEW a \in Accounts
               PROVE  senderCount'[a] <= Cardinality(OpenIds(a)')
    BY DEF CountNeverOverstates
  <1>1. id \in OpenIds(a) => row.sender = a
    BY DEF OpenIds
  <1>2. OpenIds(a)' = OpenIds(a) \cup {id} \/ OpenIds(a)' = OpenIds(a)
    <2>1. id \notin OpenIds(a) => OpenIds(a) \ {id} = OpenIds(a)
      OBVIOUS
    <2> QED  BY <1>1, <2>1, OpenIdsMove
  <1>3. Cardinality(OpenIds(a) \cup {id}) >= Cardinality(OpenIds(a))
    <2>1. Cardinality(OpenIds(a) \cup {id})
            = IF id \in OpenIds(a) THEN Cardinality(OpenIds(a)) ELSE Cardinality(OpenIds(a)) + 1
      BY OpenIdsFinite, FS_AddElement
    <2> QED  BY <2>1, OpenIdsFinite
  <1>4. senderCount[a] \in Nat /\ senderCount[a] <= Cardinality(OpenIds(a))
    BY DEF Rest, CountNeverOverstates
  <1>5. Cardinality(OpenIds(a) \cup {id}) \in Nat
    BY OpenIdsFinite, FS_AddElement, FS_CardinalityType
  <1> QED  BY <1>2, <1>3, <1>4, <1>5, OpenIdsFinite

(* create_draft_stream. *)
LEMMA DraftRaisesCount ==
    ASSUME Rows, Rest, CountNeverOverstates, NEW id \in Ids, NEW row,
           streams' = [streams EXCEPT ![id] = row], row.status \in Live,
           streams[id].status \notin Live, row.sender \in Accounts,
           senderCount' = Counted(row.sender)
    PROVE  CountNeverOverstates'
  <1> SUFFICES ASSUME NEW a \in Accounts
               PROVE  senderCount'[a] <= Cardinality(OpenIds(a)')
    BY DEF CountNeverOverstates
  <1>1. senderCount[a] \in Nat /\ senderCount[a] <= Cardinality(OpenIds(a))
    BY DEF Rest, CountNeverOverstates
  <1>2. id \notin OpenIds(a)
    BY DEF OpenIds
  <1>3. CASE a = row.sender
    <2>1. OpenIds(a)' = OpenIds(a) \cup {id}
      BY <1>3, OpenIdsMove
    <2>2. Cardinality(OpenIds(a)') = Cardinality(OpenIds(a)) + 1
      BY <1>2, <2>1, OpenIdsFinite, FS_AddElement
    <2>3. senderCount'[a] = senderCount[a] + 1
      BY <1>3 DEF Counted, Rest
    <2> QED  BY <1>1, <2>2, <2>3, OpenIdsFinite
  <1>4. CASE a # row.sender
    <2>1. OpenIds(a)' = OpenIds(a)
      <3>1. OpenIds(a) \ {id} = OpenIds(a)
        BY <1>2
      <3> QED  BY <1>4, <3>1, OpenIdsMove
    <2>2. senderCount'[a] = senderCount[a]
      BY <1>4 DEF Counted, Rest
    <2> QED  BY <1>1, <2>1, <2>2
  <1> QED  BY <1>3, <1>4

(* The last withdrawal, settle and cancel_stream. *)
LEMMA EndLowersCount ==
    ASSUME Rows, Rest, CountNeverOverstates, NEW id \in Ids, NEW row,
           streams' = [streams EXCEPT ![id] = row], row.status \notin Live,
           streams[id].status \in Live,
           senderCount' = Uncounted(streams[id].sender)
    PROVE  CountNeverOverstates'
  <1> SUFFICES ASSUME NEW a \in Accounts
               PROVE  senderCount'[a] <= Cardinality(OpenIds(a)')
    BY DEF CountNeverOverstates
  <1>1. senderCount[a] \in Nat /\ senderCount[a] <= Cardinality(OpenIds(a))
    BY DEF Rest, CountNeverOverstates
  <1>2. OpenIds(a)' = OpenIds(a) \ {id}
    BY OpenIdsMove
  <1>3. CASE a = streams[id].sender
    <2>1. id \in OpenIds(a)
      BY <1>3 DEF OpenIds
    <2>2. Cardinality(OpenIds(a)') = Cardinality(OpenIds(a)) - 1
      BY <1>2, <2>1, OpenIdsFinite, FS_RemoveElement
    <2>3. Cardinality(OpenIds(a)') \in Nat
      BY <1>2, OpenIdsFinite, FS_RemoveElement, FS_CardinalityType
    <2>4. senderCount'[a] = SaturatingSub(senderCount[a], 1)
      BY <1>3 DEF Uncounted, Rest
    <2> QED  BY <1>1, <2>2, <2>3, <2>4, OpenIdsFinite DEF SaturatingSub
  <1>4. CASE a # streams[id].sender
    <2>1. id \notin OpenIds(a)
      BY <1>4 DEF OpenIds
    <2>2. senderCount'[a] = senderCount[a]
      BY <1>4 DEF Uncounted, Rest
    <2> QED  BY <1>1, <1>2, <2>1, <2>2
  <1> QED  BY <1>3, <1>4

LEMMA CreateCounts ==
    ASSUME Rows, Rest, CountNeverOverstates, Create
    PROVE  CountNeverOverstates'
  <1>1. nextId \in 1..MaxStreams => nextId \in Ids /\ streams[nextId].status \notin Live
    BY DEF Rows, NoStream, Opened, Live, Ids
  <1>2. ASSUME NEW sender \in Accounts, NEW recipient \in Accounts,
               NEW token \in Tokens, NEW amount \in Amounts,
               NEW start \in EndTimes, NEW end \in EndTimes, NEW bps \in FeeRates,
               create_stream(sender, recipient, token, amount, start, end, bps)
        PROVE  CountNeverOverstates'
    <2> DEFINE row == Opened("Active", sender, recipient, token, amount,
                             start, end, end - start, bps)
    <2>1. row.status \in Live
      BY DEF Opened, Live
    <2>2. /\ nextId \in 1..MaxStreams /\ streams' = [streams EXCEPT ![nextId] = row]
          /\ senderCount' = senderCount
      BY <1>2 DEF create_stream, NewRow, Rows
    <2> HIDE DEF row
    <2> QED  BY <1>1, <2>1, <2>2, OpenKeepsCount
  <1>3. ASSUME NEW sender \in Accounts, NEW recipient \in Accounts,
               NEW token \in Tokens, NEW amount \in Amounts, NEW duration \in Durations,
               create_draft_stream(sender, recipient, token, amount, duration)
        PROVE  CountNeverOverstates'
    <2> DEFINE row == Opened("Draft", sender, recipient, token, amount, 0, 0, duration, 0)
    <2>1. row.status \in Live /\ row.sender = sender
      BY DEF Opened, Live
    <2>2. /\ nextId \in 1..MaxStreams /\ streams' = [streams EXCEPT ![nextId] = row]
          /\ senderCount' = Counted(sender)
      BY <1>3 DEF create_draft_stream, NewRow, Rows
    <2> HIDE DEF row
    <2> QED  BY <1>1, <2>1, <2>2, DraftRaisesCount
  <1> QED  BY <1>2, <1>3 DEF Create, create_stream_for_org

LEMMA LifecycleCounts ==
    ASSUME Rows, Rest, CountNeverOverstates, NEW id \in Ids, Lifecycle(id)
    PROVE  CountNeverOverstates'
  <1> DEFINE s == streams[id]
  <1>1. s \in Stream
    BY DEF Rows
  <1>2. CASE start_stream(id)
    <2>1. streams' = [streams EXCEPT ![id] = StartedRow(s, now)] /\ senderCount' = senderCount
      BY <1>2 DEF start_stream, StartedRow, Rows, throttles
    <2>2. StartedRow(s, now).status \in Live /\ StartedRow(s, now).sender = s.sender
      BY <1>1 DEF StartedRow, Stream, Live
    <2> QED  BY <2>1, <2>2, OpenKeepsCount
  <1>3. CASE pause(id)
    <2>1. streams' = [streams EXCEPT ![id] = PausedRow(s, now)] /\ senderCount' = senderCount
      BY <1>3 DEF pause, PausedRow, Rows, throttles
    <2>2. PausedRow(s, now).status \in Live /\ PausedRow(s, now).sender = s.sender
      BY <1>1 DEF PausedRow, Stream, Live
    <2> QED  BY <2>1, <2>2, OpenKeepsCount
  <1>4. CASE resume(id)
    <2>1. streams' = [streams EXCEPT ![id] = ResumedRow(s, now)] /\ senderCount' = senderCount
      BY <1>4 DEF resume, ResumedRow, throttles
    <2>2. ResumedRow(s, now).status \in Live /\ ResumedRow(s, now).sender = s.sender
      BY <1>1 DEF ResumedRow, Stream, Live
    <2> QED  BY <2>1, <2>2, OpenKeepsCount
  <1>5. ASSUME NEW end \in EndTimes, amend_stream(id, end)
        PROVE  CountNeverOverstates'
    <2>1. /\ streams' = [streams EXCEPT ![id] = Rescheduled(s, end)]
          /\ senderCount' = senderCount /\ s.status \in Live
      BY <1>5 DEF amend_stream, Rewrite, throttles
    <2>2. Rescheduled(s, end).status \in Live /\ Rescheduled(s, end).sender = s.sender
      BY <1>1, <2>1 DEF Rescheduled, Stream
    <2> QED  BY <2>1, <2>2, OpenKeepsCount
  <1>6. CASE settle(id)
    <2> DEFINE row == [s EXCEPT !.status = "Settled", !.released_amount = s.total_amount]
    <2>1. /\ streams' = [streams EXCEPT ![id] = row]
          /\ senderCount' = Uncounted(s.sender) /\ s.status \in Live
      BY <1>6 DEF settle, Rows, Live
    <2>2. row.status \notin Live
      BY <1>1 DEF Stream, Live
    <2> QED  BY <2>1, <2>2, EndLowersCount
  <1>7. CASE cancel_stream(id)
    <2> DEFINE row == [s EXCEPT !.status = "Cancelled",
                                !.released_amount = @ + withdrawable(s, now)]
    <2>1. /\ streams' = [streams EXCEPT ![id] = row]
          /\ senderCount' = Uncounted(s.sender) /\ s.status \in Live
      BY <1>7 DEF cancel_stream, Rows
    <2>2. row.status \notin Live
      BY <1>1 DEF Stream, Live
    <2> QED  BY <2>1, <2>2, EndLowersCount
  <1> QED  BY <1>2, <1>3, <1>4, <1>5, <1>6, <1>7 DEF Lifecycle

LEMMA WithdrawCounts ==
    ASSUME Rows, Rest, CountNeverOverstates, NEW id \in Ids, Withdraw(id)
    PROVE  CountNeverOverstates'
  <1> DEFINE s == streams[id]
  <1>1. PICK amount \in Amounts : s.status \in {"Active", "Paused"} /\ WithdrawRow(id, amount)
    BY WithdrawIsPayout DEF Payout
  <1> DEFINE row == Released(s, amount)
  <1>2. /\ streams' = [streams EXCEPT ![id] = row]
        /\ senderCount' = IF row.status = "Settled" THEN Uncounted(row.sender) ELSE senderCount
    BY <1>1 DEF WithdrawRow
  <1>3. row.sender = s.sender /\ row.status \in {"Settled", s.status} /\ s.status \in Live
    BY <1>1 DEF Released, Stream, Live, Rows
  <1> HIDE DEF row
  <1>4. CASE row.status = "Settled"
    <2>1. row.status \notin Live
      BY <1>4 DEF Live
    <2> QED  BY <1>2, <1>3, <1>4, <2>1, EndLowersCount
  <1>5. CASE row.status # "Settled"
    BY <1>2, <1>3, <1>5, OpenKeepsCount
  <1> QED  BY <1>4, <1>5

LEMMA NextCounts == IInv /\ CountNeverOverstates /\ [Next]_vars => CountNeverOverstates'
  <1> SUFFICES ASSUME IInv, CountNeverOverstates, [Next]_vars
               PROVE  CountNeverOverstates'
    OBVIOUS
  <1>1. Rows /\ Rest
    BY Halves
  <1>2. CASE UNCHANGED <<streams, senderCount>>
    BY <1>2 DEF CountNeverOverstates, OpenIds
  <1>3. CASE Create
    BY <1>1, <1>3, CreateCounts
  <1>4. CASE \E id \in Ids : Lifecycle(id) \/ Withdraw(id)
    BY <1>1, <1>4, LifecycleCounts, WithdrawCounts
  <1>5. ASSUME NEW caller \in Governors, Override(caller)
        PROVE  CountNeverOverstates'
    <2>1. PICK id \in Ids, end \in EndTimes :
            /\ streams[id].status \in Live
            /\ Rewrite(id, Rescheduled(streams[id], end))
            /\ senderCount' = senderCount
      BY <1>5 DEF Override, admin_override, throttles
    <2>2. streams' = [streams EXCEPT ![id] = Rescheduled(streams[id], end)]
      BY <2>1 DEF Rewrite
    <2>3. /\ Rescheduled(streams[id], end).status \in Live
          /\ Rescheduled(streams[id], end).sender = streams[id].sender
      BY <1>1, <2>1 DEF Rescheduled, Stream, Rows
    <2> QED  BY <1>1, <2>1, <2>2, <2>3, OpenKeepsCount
  <1>6. Tick => UNCHANGED <<streams, senderCount>>
    BY DEF Tick, rows, throttles
  <1>7. (\E id \in Ids : Delegate(id)) => UNCHANGED <<streams, senderCount>>
    BY DEF Delegate, add_withdrawer, remove_withdrawer, throttles
  <1>8. (\E caller \in Governors : Administer(caller)) => UNCHANGED <<streams, senderCount>>
    BY DEF Administer, initialize, migrate, init_allowlist_for_org, set_admin,
           set_paused, set_token_allowed, set_org_token_allowed, set_fee_collector,
           set_default_fee_bps, set_fee_bps, set_max_streams_per_sender,
           set_cooloff_duration, SettingsWritten, rows, throttles
  <1> QED  BY <1>2, <1>3, <1>4, <1>5, <1>6, <1>7, <1>8 DEF Next, vars, rows, throttles

(* The counter never exceeds the sender's open streams, whatever the       *)
(* limit's bookkeeping leaves uncounted (limits.rs).                       *)
THEOREM CounterIsAtMostOpen == Spec => []CountNeverOverstates
  <1>1. Init => CountNeverOverstates
    BY OpenIdsFinite DEF Init, CountNeverOverstates
  <1> QED  BY <1>1, NextCounts, ContractInvariant, PTL DEF Spec
=============================================================================
