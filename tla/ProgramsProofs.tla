--------------------------- MODULE ProgramsProofs ---------------------------
(***************************************************************************)
(* What holds of every split and recurring stream of the contract, for any *)
(* deposits, weights, cycles, accounts and times: row by row, and of the   *)
(* money the contract holds for all of them together.                      *)
(***************************************************************************)
EXTENDS EscrowPrograms, AccrualProofs, SequenceTheorems

(* A recurring row at time t: no more cycles are booked than are due, an   *)
(* ended row is complete, and nobody has taken a cycle that is not due.    *)
RecurringRow ==
    [ status : {"Active", "Ended", "Cancelled"},
      sender : Accounts, recipient : Accounts,
      amount_per_cycle : Nat \ {0}, cycle_duration : Nat \ {0},
      total_cycles : Nat \ {0}, cycles_completed : Nat,
      withdrawn_amount : Nat, start_time : Nat,
      last_processed_time : Nat, fee_bps : 0..MAX_FEE_BPS ]

CyclesOK(r, t) ==
    /\ r.sender # r.recipient
    /\ r.last_processed_time <= t
    /\ r.cycles_completed <= CyclesDue(r, t)
    /\ r.withdrawn_amount <= r.amount_per_cycle * CyclesDue(r, t)
    /\ r.status = "Ended" => r.cycles_completed = r.total_cycles
    /\ r.status = "Cancelled" =>
         r.withdrawn_amount = r.amount_per_cycle * CyclesDue(r, r.last_processed_time)

RecurringInv ==
    /\ recurring \in Seq(RecurringRow) /\ Len(recurring) <= MaxRecurring
    /\ \A id \in RecurringIds : CyclesOK(recurring[id], now)

-----------------------------------------------------------------------------
(* The cycles due never become fewer, nor more than were paid for.         *)
LEMMA CyclesDueBounds ==
    ASSUME NEW r \in RecurringRow, NEW t \in Nat, NEW u \in Nat, t <= u
    PROVE  /\ CyclesDue(r, t) \in 0 .. r.total_cycles
           /\ CyclesDue(r, t) <= CyclesDue(r, u)
           /\ r.amount_per_cycle * CyclesDue(r, t) \in Nat
           /\ r.amount_per_cycle * CyclesDue(r, t) <= r.amount_per_cycle * CyclesDue(r, u)
           /\ r.amount_per_cycle * CyclesDue(r, t) <= Deposit(r)
           /\ Deposit(r) \in Nat
  <1> DEFINE ran(v) == SaturatingSub(Larger(r.start_time, v), r.start_time)
  <1>1. /\ r.start_time \in Nat /\ r.cycle_duration \in Nat \ {0}
        /\ r.total_cycles \in Nat \ {0} /\ r.amount_per_cycle \in Nat \ {0}
    BY DEF RecurringRow
  <1>2. ran(t) \in Nat /\ ran(u) \in Nat /\ ran(t) <= ran(u)
    BY <1>1 DEF SaturatingSub, Larger
  <1> HIDE DEF ran
  <1>3. /\ ran(t) \div r.cycle_duration \in Nat
        /\ ran(t) \div r.cycle_duration <= ran(u) \div r.cycle_duration
    BY <1>1, <1>2, DivisionBounds, QuotientMonotone
  <1>4. ran(u) \div r.cycle_duration \in Nat
    BY <1>1, <1>2, DivisionBounds
  <1>5. /\ CyclesDue(r, t) \in 0 .. r.total_cycles
        /\ CyclesDue(r, u) \in Nat
        /\ CyclesDue(r, t) <= CyclesDue(r, u)
    BY <1>1, <1>3, <1>4 DEF CyclesDue, Smaller, ran
  <1>6. /\ r.amount_per_cycle * CyclesDue(r, t) <= r.amount_per_cycle * CyclesDue(r, u)
        /\ r.amount_per_cycle * CyclesDue(r, t) <= r.amount_per_cycle * r.total_cycles
    BY <1>1, <1>5, ProductMonotone
  <1>7. r.amount_per_cycle * CyclesDue(r, t) \in Nat /\ r.amount_per_cycle * r.total_cycles \in Nat
    BY <1>1, <1>5, SMTT(30)
  <1> QED  BY <1>5, <1>6, <1>7 DEF Deposit

(* What is stated of a row at one time holds at any later one.             *)
LEMMA CyclesKept ==
    ASSUME NEW r \in RecurringRow, NEW t \in Nat, NEW u \in Nat, t <= u, CyclesOK(r, t)
    PROVE  CyclesOK(r, u)
  <1>1. /\ CyclesDue(r, t) <= CyclesDue(r, u)
        /\ CyclesDue(r, t) \in Nat /\ CyclesDue(r, u) \in Nat
        /\ r.amount_per_cycle * CyclesDue(r, t) <= r.amount_per_cycle * CyclesDue(r, u)
        /\ r.amount_per_cycle * CyclesDue(r, t) \in Nat
        /\ r.amount_per_cycle * CyclesDue(r, u) \in Nat
    BY CyclesDueBounds DEF RecurringRow
  <1>2. r.withdrawn_amount \in Nat /\ r.cycles_completed \in Nat /\ r.last_processed_time \in Nat
    BY DEF RecurringRow
  <1> QED  BY <1>1, <1>2 DEF CyclesOK

(* While a row is open the clock alone says what has vested.               *)
LEMMA OpenVestsByClock ==
    ASSUME NEW r \in RecurringRow, NEW t \in Nat, CyclesOK(r, t), r.status # "Cancelled"
    PROVE  vested_cycles(r, t) = CyclesDue(r, t)
  <1>1. CASE r.status = "Active"
    BY <1>1 DEF vested_cycles
  <1>2. CASE r.status = "Ended"
    <2>1. CyclesDue(r, t) \in 0 .. r.total_cycles
      BY CyclesDueBounds
    <2> QED  BY <1>2, <2>1 DEF vested_cycles, CyclesOK, RecurringRow
  <1> QED  BY <1>1, <1>2 DEF RecurringRow

(* What is left of a deposit is never negative.                            *)
LEMMA CyclesLeft ==
    ASSUME NEW r \in RecurringRow, NEW t \in Nat, CyclesOK(r, t)
    PROVE  RecurringOwes(r) \in Nat
  <1>1. /\ r.amount_per_cycle * CyclesDue(r, t) \in Nat
        /\ r.amount_per_cycle * CyclesDue(r, t) <= Deposit(r) /\ Deposit(r) \in Nat
    BY CyclesDueBounds
  <1>2. /\ r.withdrawn_amount \in Nat
        /\ r.withdrawn_amount <= r.amount_per_cycle * CyclesDue(r, t)
    BY DEF CyclesOK, RecurringRow
  <1> QED  BY <1>1, <1>2 DEF RecurringOwes

LEMMA CyclesOweType ==
    ASSUME RecurringInv, now \in Nat
    PROVE  CyclesOwe \in Nat
  <1> DEFINE v == [j \in RecurringIds |-> RecurringOwes(recurring[j])]
             n == Len(recurring)
  <1>1. n \in Nat /\ RecurringIds = 1..n
    BY DEF RecurringInv, RecurringIds
  <1>2. ASSUME NEW j \in 1..n
        PROVE  v[j] \in Nat
    BY <1>1, CyclesLeft DEF RecurringInv, RecurringIds
  <1>3. CyclesOwe = SumUpTo(v, n)
    BY DEF CyclesOwe
  <1> HIDE DEF v, n
  <1> QED  BY <1>1, <1>2, <1>3, SumOfNaturals

(* One row replaced by a good one, the ledger's clock standing: the total  *)
(* still owed changes by what that row owes.                               *)
LEMMA ReplaceRow ==
    ASSUME RecurringInv, now \in Nat, now' = now, NEW id \in RecurringIds,
           NEW r \in RecurringRow, CyclesOK(r, now),
           recurring' = [recurring EXCEPT ![id] = r]
    PROVE  /\ RecurringInv'
           /\ CyclesOwe' = CyclesOwe - RecurringOwes(recurring[id]) + RecurringOwes(r)
  <1>1. RecurringInv'
    BY DEF RecurringInv, RecurringIds
  <1> DEFINE v == [j \in RecurringIds |-> RecurringOwes(recurring[j])]
             w == [j \in RecurringIds' |-> RecurringOwes(recurring'[j])]
             n == Len(recurring)
  <1>2. n \in Nat /\ RecurringIds = 1..n /\ RecurringIds' = 1..n /\ Len(recurring') = n
    BY DEF RecurringInv, RecurringIds
  <1>3. ASSUME NEW j \in 1..n
        PROVE  /\ v[j] \in Int /\ w[j] \in Int
               /\ j # id => v[j] = w[j]
               /\ j = id => w[j] = RecurringOwes(r)
    <2>1. recurring[j] \in RecurringRow /\ CyclesOK(recurring[j], now)
      BY <1>2 DEF RecurringInv, RecurringIds
    <2>2. v[j] \in Nat /\ RecurringOwes(r) \in Nat
      BY <1>2, <2>1, CyclesLeft
    <2>3. w[j] = IF j = id THEN RecurringOwes(r) ELSE v[j]
      BY <1>2 DEF RecurringInv
    <2> QED  BY <2>2, <2>3
  <1>4. CyclesOwe = SumUpTo(v, n) /\ CyclesOwe' = SumUpTo(w, n)
    BY <1>2 DEF CyclesOwe
  <1>5. v[id] = RecurringOwes(recurring[id]) /\ id \in 1..n
    BY <1>2
  <1> HIDE DEF v, w, n
  <1>6. SumUpTo(w, n) = SumUpTo(v, n) - v[id] + w[id]
    BY <1>2, <1>3, <1>5, SumChanged
  <1> QED  BY <1>1, <1>3, <1>4, <1>5, <1>6

LEMMA CreatesRecurring ==
    ASSUME RecurringInv, now \in Nat,
           NEW sender \in Payers, NEW recipient \in Payees, NEW amount \in CycleAmounts,
           NEW duration \in CycleDurations, NEW cycles \in CycleCounts,
           NEW start \in CycleStarts, NEW bps \in CycleFees,
           create_recurring_stream(sender, recipient, amount, duration, cycles, start, bps)
    PROVE  RecurringInv' /\ CyclesOwe' = CyclesOwe + amount * cycles
  <1> DEFINE r == [ status |-> "Active", sender |-> sender, recipient |-> recipient,
                    amount_per_cycle |-> amount, cycle_duration |-> duration,
                    total_cycles |-> cycles, cycles_completed |-> 0,
                    withdrawn_amount |-> 0, start_time |-> start,
                    last_processed_time |-> 0, fee_bps |-> bps ]
  <1>1. r \in RecurringRow
    <2>1. /\ amount \in Nat \ {0} /\ duration \in Nat \ {0} /\ cycles \in Nat \ {0}
          /\ bps \in 0..MAX_FEE_BPS
      BY RecurringAssumption DEF create_recurring_stream, MAX_FEE_BPS
    <2>2. start \in Nat /\ sender \in Accounts /\ recipient \in Accounts
      BY RecurringAssumption, LedgerAssumption, WidthAssumption
    <2> QED  BY <2>1, <2>2 DEF RecurringRow
  <1>2. recurring' = Append(recurring, r) /\ Len(recurring) < MaxRecurring /\ now' = now
        /\ sender # recipient
    BY DEF create_recurring_stream
  <1> HIDE DEF r
  <1>3. /\ CyclesDue(r, now) \in Nat /\ r.amount_per_cycle * CyclesDue(r, now) \in Nat
    BY <1>1, CyclesDueBounds
  <1>4. CyclesOK(r, now)
    BY <1>2, <1>3 DEF CyclesOK, r
  <1>5. MaxRecurring \in Nat
    BY RecurringAssumption
  <1>6. RecurringInv'
    BY <1>1, <1>2, <1>4, <1>5 DEF RecurringInv, RecurringIds
  <1>7. RecurringOwes(r) = amount * cycles
    <2>1. amount * cycles \in Nat
      BY RecurringAssumption, SMTT(30)
    <2> QED  BY <2>1 DEF RecurringOwes, Deposit, r
  <1> DEFINE v == [j \in RecurringIds |-> RecurringOwes(recurring[j])]
             w == [j \in RecurringIds' |-> RecurringOwes(recurring'[j])]
             n == Len(recurring)
  <1>8. /\ n \in Nat /\ RecurringIds = 1..n
        /\ RecurringIds' = 1 .. n + 1 /\ Len(recurring') = n + 1
        /\ recurring'[n + 1] = r /\ \A j \in 1..n : recurring'[j] = recurring[j]
    BY <1>1, <1>2 DEF RecurringInv, RecurringIds
  <1>9. CyclesOwe = SumUpTo(v, n) /\ CyclesOwe' = SumUpTo(w, n + 1)
    BY <1>8 DEF CyclesOwe
  <1>10. w[n + 1] = RecurringOwes(r) /\ \A j \in 1..n : v[j] = w[j]
    BY <1>8
  <1> HIDE DEF v, w, n
  <1>11. SumUpTo(w, n + 1) = SumUpTo(v, n) + w[n + 1]
    BY <1>8, <1>10, SumAppended
  <1> QED  BY <1>6, <1>7, <1>9, <1>10, <1>11

LEMMA Processes ==
    ASSUME RecurringInv, now \in Nat, CyclesOwe \in Int, NEW id \in RecurringIds, process(id)
    PROVE  RecurringInv' /\ CyclesOwe' = CyclesOwe
  <1> DEFINE r == recurring[id]
             done == Larger(r.cycles_completed, vested_cycles(r, now))
             new == [r EXCEPT !.cycles_completed = done, !.last_processed_time = now,
                              !.status = IF done >= r.total_cycles THEN "Ended" ELSE @]
  <1>1. r \in RecurringRow /\ CyclesOK(r, now) /\ r.status = "Active"
    BY DEF RecurringInv, RecurringIds, process
  <1>2. recurring' = [recurring EXCEPT ![id] = new] /\ now' = now
    BY DEF process, ledger
  <1>3. vested_cycles(r, now) = CyclesDue(r, now) /\ CyclesDue(r, now) \in 0 .. r.total_cycles
    BY <1>1, OpenVestsByClock, CyclesDueBounds
  <1>4. done = CyclesDue(r, now) /\ done \in Nat /\ done <= r.total_cycles
    BY <1>1, <1>3 DEF CyclesOK, Larger, RecurringRow
  <1> HIDE DEF done
  <1>5. new \in RecurringRow
    BY <1>1, <1>4 DEF RecurringRow
  <1>6. CyclesDue(new, now) = CyclesDue(r, now)
    BY <1>1 DEF CyclesDue, RecurringRow
  <1>7. CyclesOK(new, now)
    BY <1>1, <1>4, <1>6 DEF CyclesOK, RecurringRow
  <1>8. RecurringOwes(new) = RecurringOwes(r) /\ RecurringOwes(r) \in Nat
    <2>1. RecurringOwes(new) = RecurringOwes(r)
      BY <1>1 DEF RecurringOwes, Deposit, RecurringRow
    <2> QED  BY <1>1, <2>1, CyclesLeft
  <1> HIDE DEF new
  <1>9. /\ RecurringInv'
        /\ CyclesOwe' = CyclesOwe - RecurringOwes(r) + RecurringOwes(new)
    BY <1>2, <1>5, <1>7, ReplaceRow
  <1> QED  BY <1>8, <1>9

LEMMA WithdrawsRecurring ==
    ASSUME RecurringInv, now \in Nat, CyclesOwe \in Int,
           NEW id \in RecurringIds, NEW amount \in Draws, withdraw_recurring(id, amount)
    PROVE  RecurringInv' /\ CyclesOwe' = CyclesOwe - amount
  <1> DEFINE r == recurring[id]
             new == [r EXCEPT !.withdrawn_amount = @ + amount, !.last_processed_time = now]
  <1>1. /\ r \in RecurringRow /\ CyclesOK(r, now) /\ r.status # "Cancelled"
        /\ amount > 0 /\ amount <= withdrawable_recurring(r, now)
    BY DEF RecurringInv, RecurringIds, withdraw_recurring
  <1>2. recurring' = [recurring EXCEPT ![id] = new] /\ now' = now
    BY <1>1 DEF withdraw_recurring, RecurringInv, RecurringIds
  <1>3. /\ vested_cycles(r, now) = CyclesDue(r, now)
        /\ r.amount_per_cycle * CyclesDue(r, now) \in Nat
    BY <1>1, OpenVestsByClock, CyclesDueBounds
  <1>4. amount \in Nat /\ r.withdrawn_amount \in Nat
    BY <1>1, LedgerAssumption DEF RecurringRow
  <1>5. r.withdrawn_amount + amount <= r.amount_per_cycle * CyclesDue(r, now)
    BY <1>1, <1>3, <1>4 DEF withdrawable_recurring, Larger
  <1>6. new \in RecurringRow
    <2>1. r.withdrawn_amount + amount \in Nat
      BY <1>4
    <2> QED  BY <1>1, <2>1 DEF RecurringRow
  <1>7. CyclesDue(new, now) = CyclesDue(r, now)
    BY <1>1 DEF CyclesDue, RecurringRow
  <1>8. CyclesOK(new, now)
    BY <1>1, <1>5, <1>7 DEF CyclesOK, RecurringRow
  <1>9. RecurringOwes(new) = RecurringOwes(r) - amount /\ RecurringOwes(r) \in Nat
    <2>1. /\ Deposit(new) = Deposit(r) /\ new.status = r.status
          /\ new.withdrawn_amount = r.withdrawn_amount + amount
      BY <1>1 DEF Deposit, RecurringRow
    <2>2. Deposit(r) \in Nat
      BY <1>1, CyclesDueBounds
    <2> QED  BY <1>1, <1>4, <2>1, <2>2, CyclesLeft DEF RecurringOwes
  <1> HIDE DEF new
  <1>10. /\ RecurringInv'
         /\ CyclesOwe' = CyclesOwe - RecurringOwes(r) + RecurringOwes(new)
    BY <1>2, <1>6, <1>8, ReplaceRow
  <1> QED  BY <1>4, <1>9, <1>10

LEMMA CancelsRecurring ==
    ASSUME RecurringInv, now \in Nat, CyclesOwe \in Int,
           NEW id \in RecurringIds, cancel_recurring_stream(id)
    PROVE  /\ RecurringInv'
           /\ CyclesOwe' = CyclesOwe - (Deposit(recurring[id]) - recurring[id].withdrawn_amount)
  <1> DEFINE r == recurring[id]
             remaining == Deposit(r) - r.withdrawn_amount
             refund == Smaller(Unvested(r), remaining)
             new == [r EXCEPT !.status = "Cancelled",
                              !.withdrawn_amount = @ + remaining - refund,
                              !.last_processed_time = now]
  <1>1. r \in RecurringRow /\ CyclesOK(r, now) /\ r.status # "Cancelled"
    BY DEF RecurringInv, RecurringIds, cancel_recurring_stream
  <1>2. recurring' = [recurring EXCEPT ![id] = new] /\ now' = now
    BY <1>1 DEF cancel_recurring_stream, RecurringInv, RecurringIds
  <1> DEFINE due == r.amount_per_cycle * CyclesDue(r, now)
  <1>3. /\ Unvested(r) = Deposit(r) - due
        /\ due \in Nat /\ due <= Deposit(r) /\ Deposit(r) \in Nat
    BY <1>1, OpenVestsByClock, CyclesDueBounds DEF Unvested
  <1>4. r.withdrawn_amount \in Nat /\ r.withdrawn_amount <= due
    BY <1>1 DEF CyclesOK, RecurringRow
  <1>5. r.withdrawn_amount + remaining - refund = due
    BY <1>3, <1>4 DEF Smaller
  <1>6. new = [r EXCEPT !.status = "Cancelled", !.withdrawn_amount = due,
                        !.last_processed_time = now]
    BY <1>5
  <1>7. new \in RecurringRow
    BY <1>1, <1>3, <1>6 DEF RecurringRow
  <1>8. CyclesDue(new, now) = CyclesDue(r, now)
    BY <1>1 DEF CyclesDue, RecurringRow
  <1>9. CyclesOK(new, now)
    <2>1. /\ new.status = "Cancelled" /\ new.withdrawn_amount = due
          /\ new.last_processed_time = now /\ new.cycles_completed = r.cycles_completed
          /\ new.amount_per_cycle = r.amount_per_cycle
          /\ new.sender = r.sender /\ new.recipient = r.recipient
      BY <1>1, <1>6 DEF RecurringRow
    <2>2. due = new.amount_per_cycle * CyclesDue(new, now)
      BY <1>8, <2>1
    <2> QED  BY <1>1, <1>3, <1>8, <2>1, <2>2 DEF CyclesOK
  <1>10. RecurringOwes(new) = 0
    BY <1>1, <1>6 DEF RecurringOwes, RecurringRow
  <1>11. RecurringOwes(r) = Deposit(r) - r.withdrawn_amount /\ RecurringOwes(r) \in Nat
    BY <1>1, CyclesLeft DEF RecurringOwes
  <1> HIDE DEF new
  <1>12. /\ RecurringInv'
         /\ CyclesOwe' = CyclesOwe - RecurringOwes(r) + RecurringOwes(new)
    BY <1>2, <1>7, <1>9, ReplaceRow
  <1> QED  BY <1>10, <1>11, <1>12

(* Only the ledger moves the clock and the settings.                       *)
LEMMA SplitsKeepTime == ASSUME SplitNext PROVE now' = now /\ config' = config
  <1>1. ASSUME NEW sender, NEW total, NEW start, NEW end, NEW roster,
               create_split_stream(sender, total, start, end, roster)
        PROVE  now' = now /\ config' = config
    BY <1>1 DEF create_split_stream
  <1>2. ASSUME NEW id, NEW who, NEW amount, withdraw_split(id, who, amount)
        PROVE  now' = now /\ config' = config
    BY <1>2 DEF withdraw_split
  <1>3. ASSUME NEW id, cancel_split_stream(id)
        PROVE  now' = now /\ config' = config
    BY <1>3 DEF cancel_split_stream
  <1> QED  BY <1>1, <1>2, <1>3, Zenon DEF SplitNext

LEMMA CyclesKeepTime == ASSUME RecurringNext PROVE now' = now /\ config' = config
  <1>1. ASSUME NEW sender, NEW recipient, NEW amount, NEW duration, NEW cycles,
               NEW start, NEW bps,
               create_recurring_stream(sender, recipient, amount, duration, cycles, start, bps)
        PROVE  now' = now /\ config' = config
    BY <1>1 DEF create_recurring_stream
  <1>2. ASSUME NEW id, NEW amount, process(id) \/ withdraw_recurring(id, amount)
                                   \/ cancel_recurring_stream(id)
        PROVE  now' = now /\ config' = config
    BY <1>2 DEF process, withdraw_recurring, cancel_recurring_stream, ledger
  <1> QED  BY <1>1, <1>2, Zenon DEF RecurringNext

(* A recurring stream's invariant survives every step of the contract.     *)
LEMMA RecurringStep ==
    ASSUME RecurringInv, now \in Nat, [Next]_vars
    PROVE  RecurringInv' /\ now' \in Nat /\ now <= now'
  <1>1. CASE (Tick \/ Configure) /\ UNCHANGED <<splits, recurring>>
    <2>1. now' \in Nat /\ now <= now' /\ recurring' = recurring
      BY <1>1 DEF Tick, Configure
    <2>2. \A id \in RecurringIds : recurring[id] \in RecurringRow
      BY DEF RecurringInv, RecurringIds
    <2>3. \A id \in RecurringIds : CyclesOK(recurring[id], now')
      BY <2>1, <2>2, CyclesKept DEF RecurringInv
    <2> QED  BY <2>1, <2>3 DEF RecurringInv, RecurringIds
  <1>2. CASE SplitNext /\ UNCHANGED recurring
    <2>1. now' = now
      BY <1>2, SplitsKeepTime
    <2> QED  BY <1>2, <2>1 DEF RecurringInv, RecurringIds
  <1>3. CASE RecurringNext /\ UNCHANGED splits
    <2>1. now' = now
      BY <1>3, CyclesKeepTime
    <2>2. RecurringInv'
      BY <1>3, CyclesOweType, CreatesRecurring, Processes, WithdrawsRecurring,
         CancelsRecurring
      DEF RecurringNext
    <2> QED  BY <2>1, <2>2
  <1>4. CASE UNCHANGED vars
    BY <1>4 DEF vars, ledger, RecurringInv, RecurringIds
  <1> QED  BY <1>1, <1>2, <1>3, <1>4 DEF Next

(* What a recipient has and may take is what the clock says is due.        *)
LEMMA CyclesGivePayout == ASSUME RecurringInv, now \in Nat PROVE PayoutFollowsClock
  <1> SUFFICES ASSUME NEW id \in RecurringIds
      PROVE LET r == recurring[id]
            IN  IF r.status = "Cancelled"
                THEN r.withdrawn_amount = r.amount_per_cycle * CyclesDue(r, r.last_processed_time)
                ELSE r.withdrawn_amount + withdrawable_recurring(r, now)
                       = r.amount_per_cycle * CyclesDue(r, now)
    BY DEF PayoutFollowsClock
  <1> DEFINE r == recurring[id]
  <1>1. r \in RecurringRow /\ CyclesOK(r, now)
    BY DEF RecurringInv, RecurringIds
  <1>2. CASE r.status = "Cancelled"
    BY <1>1, <1>2 DEF CyclesOK
  <1>3. CASE r.status # "Cancelled"
    <2>1. vested_cycles(r, now) = CyclesDue(r, now)
      BY <1>1, <1>3, OpenVestsByClock
    <2>2. r.amount_per_cycle * CyclesDue(r, now) \in Nat
      BY <1>1, CyclesDueBounds
    <2>3. /\ r.withdrawn_amount \in Nat
          /\ r.withdrawn_amount <= r.amount_per_cycle * CyclesDue(r, now)
      BY <1>1 DEF CyclesOK, RecurringRow
    <2> QED  BY <1>3, <2>1, <2>2, <2>3 DEF withdrawable_recurring, Larger
  <1> QED  BY <1>2, <1>3

-----------------------------------------------------------------------------
(* A split's row at time t.                                                *)
Allocation == [recipient : Accounts, weight : Nat, released_amount : Nat]

SplitFields == {"status", "sender", "total_amount", "total_released", "start_time",
                "end_time", "last_update", "total_weight", "recipients"}
IsSplitRow(s) == s = [f \in SplitFields |-> s[f]]

SplitRowOK(s) ==
    /\ IsSplitRow(s)
    /\ s.status \in SplitStatus
    /\ s.total_amount \in Nat
    /\ s.start_time \in Nat /\ s.end_time \in Nat /\ s.start_time < s.end_time
    /\ s.total_weight \in Nat \ {0}
    /\ s.last_update \in Nat
    /\ s.recipients \in Seq(Allocation)

SharesOK(s, t) ==
    \A i \in DOMAIN s.recipients :
      LET released == s.recipients[i].released_amount
      IN  /\ s.status = "Cancelled" => released = recipient_vested(s, s.last_update, i)
          /\ released <= recipient_vested(s, t, i)

(* The two totals of a row are the sums over its roster.                   *)
Weights(s)   == [i \in DOMAIN s.recipients |-> s.recipients[i].weight]
Releases(s)  == [i \in DOMAIN s.recipients |-> s.recipients[i].released_amount]
Shares(s, t) == [i \in DOMAIN s.recipients |-> recipient_vested(s, t, i)]

SumsOK(s) ==
    /\ s.total_weight = SumUpTo(Weights(s), Len(s.recipients))
    /\ s.total_released = SumUpTo(Releases(s), Len(s.recipients))

SplitInv ==
    /\ splits = [id \in 1 .. Len(splits) |-> splits[id]] /\ Len(splits) \in Nat
    /\ \A id \in SplitIds :
         SplitRowOK(splits[id]) /\ SumsOK(splits[id]) /\ SharesOK(splits[id], now)

(* A recipient's share grows with time.                                    *)
LEMMA ShareMonotone ==
    ASSUME NEW s, SplitRowOK(s), NEW i \in DOMAIN s.recipients,
           NEW t \in Nat, NEW u \in Nat, t <= u
    PROVE  /\ recipient_vested(s, t, i) \in Nat
           /\ recipient_vested(s, t, i) <= recipient_vested(s, u, i)
  <1> DEFINE ran(v) == SaturatingSub(Larger(s.start_time, Smaller(v, s.end_time)), s.start_time)
             d == s.end_time - s.start_time
             w == s.recipients[i].weight
  <1>1. /\ s.total_amount \in Nat /\ s.start_time \in Nat /\ s.end_time \in Nat
        /\ d \in Nat \ {0} /\ w \in Nat /\ s.total_weight \in Nat \ {0}
    <2>1. /\ s.start_time \in Nat /\ s.end_time \in Nat /\ s.start_time < s.end_time
          /\ s.total_amount \in Nat /\ s.total_weight \in Nat \ {0}
          /\ s.recipients \in Seq(Allocation)
      BY Zenon DEF SplitRowOK
    <2>2. s.recipients[i] \in Allocation
      BY <2>1
    <2> QED  BY <2>1, <2>2, SMTT(30) DEF Allocation
  <1>2. ran(t) \in Nat /\ ran(u) \in Nat /\ ran(t) <= ran(u)
    BY <1>1 DEF SaturatingSub, Larger, Smaller
  <1>3. /\ split_vested_amount(s, t) = (s.total_amount * ran(t)) \div d
        /\ split_vested_amount(s, u) = (s.total_amount * ran(u)) \div d
    BY DEF split_vested_amount
  <1> HIDE DEF ran, d, w
  <1>4. /\ s.total_amount * ran(t) \in Nat /\ s.total_amount * ran(u) \in Nat
        /\ s.total_amount * ran(t) <= s.total_amount * ran(u)
    <2>1. s.total_amount * ran(t) \in Nat /\ s.total_amount * ran(u) \in Nat
      BY <1>1, <1>2, SMTT(30)
    <2> QED  BY <1>1, <1>2, <2>1, ProductMonotone
  <1>5. /\ split_vested_amount(s, t) \in Nat /\ split_vested_amount(s, u) \in Nat
        /\ split_vested_amount(s, t) <= split_vested_amount(s, u)
    BY <1>1, <1>3, <1>4, DivisionBounds, QuotientMonotone
  <1> DEFINE x == split_vested_amount(s, t)
             y == split_vested_amount(s, u)
  <1>6. recipient_vested(s, t, i) = (x * w) \div s.total_weight
        /\ recipient_vested(s, u, i) = (y * w) \div s.total_weight
    BY DEF recipient_vested, w
  <1> HIDE DEF x, y
  <1>7. x * w \in Nat /\ y * w \in Nat /\ x * w <= y * w
    <2>0. x \in Nat /\ y \in Nat /\ x <= y
      BY <1>5 DEF x, y
    <2>1. w * x <= w * y
      BY <1>1, <2>0, ProductMonotone
    <2>2. x * w = w * x /\ y * w = w * y /\ w * x \in Nat /\ w * y \in Nat
      BY <1>1, <2>0, SMTT(30)
    <2> QED  BY <2>1, <2>2
  <1> QED  BY <1>1, <1>6, <1>7, DivisionBounds, QuotientMonotone

LEMMA Roster ==
    ASSUME NEW s, SplitRowOK(s)
    PROVE  /\ Len(s.recipients) \in Nat
           /\ DOMAIN s.recipients = 1 .. Len(s.recipients)
           /\ \A i \in 1 .. Len(s.recipients) :
                /\ s.recipients[i] \in Allocation
                /\ s.recipients[i].weight \in Nat
                /\ s.recipients[i].released_amount \in Nat
  <1>1. s.recipients \in Seq(Allocation)
    BY Zenon DEF SplitRowOK
  <1>2. \A i \in 1 .. Len(s.recipients) : s.recipients[i] \in Allocation
    BY <1>1
  <1> QED  BY <1>1, <1>2, LenProperties DEF Allocation

LEMMA SplitFieldTypes ==
    ASSUME NEW s, SplitRowOK(s)
    PROVE  /\ s.total_amount \in Nat
           /\ s.start_time \in Nat /\ s.end_time \in Nat /\ s.start_time < s.end_time
           /\ s.total_weight \in Nat \ {0} /\ s.last_update \in Nat
           /\ s.status \in SplitStatus
  BY Zenon DEF SplitRowOK

(* Seconds of the schedule that have run. *)
Ran(s, t) == SaturatingSub(Larger(s.start_time, Smaller(t, s.end_time)), s.start_time)

LEMMA SplitVestedBounds ==
    ASSUME NEW s, SplitRowOK(s), NEW t \in Nat
    PROVE  /\ split_vested_amount(s, t) \in 0 .. s.total_amount
           /\ Ran(s, t) \in 0 .. (s.end_time - s.start_time)
  <1> DEFINE d == s.end_time - s.start_time
             a == s.total_amount
             e == Ran(s, t)
  <1>1. a \in Nat /\ d \in Nat \ {0} /\ e \in 0..d /\ e \in Nat
    BY SplitFieldTypes DEF Ran, SaturatingSub, Larger, Smaller
  <1>2. split_vested_amount(s, t) = (a * e) \div d
    BY DEF split_vested_amount, Ran
  <1> HIDE DEF a, d, e
  <1>3. a * e \in Nat /\ a * d \in Nat
    BY <1>1, SMTT(30)
  <1>4. a * e <= a * d
    BY <1>1, ProductMonotone
  <1>5. (a * e) \div d \in Nat /\ (a * e) \div d <= (a * d) \div d
    BY <1>1, <1>3, <1>4, DivisionBounds, QuotientMonotone
  <1>6. (a * d) \div d = a
    BY <1>1, SMTT(30)
  <1> QED  BY <1>1, <1>2, <1>5, <1>6 DEF a, d, e

(* Rounding down, the shares together never exceed what has vested: the    *)
(* remainder is the sender's.                                              *)
LEMMA SharesWithinVested ==
    ASSUME NEW s, SplitRowOK(s), SumsOK(s), NEW t \in Nat
    PROVE  /\ SumUpTo(Shares(s, t), Len(s.recipients)) \in Nat
           /\ SumUpTo(Shares(s, t), Len(s.recipients)) <= split_vested_amount(s, t)
           /\ \A i \in 1 .. Len(s.recipients) : Shares(s, t)[i] \in Nat
  <1> DEFINE n == Len(s.recipients)
             vested == split_vested_amount(s, t)
             w == s.total_weight
             x == Shares(s, t)
             part == [i \in 1..n |-> w * x[i]]
             ws == Weights(s)
             whole == [i \in 1..n |-> vested * ws[i]]
             zeros == [i \in 1..n |-> 0]
  <1>1. n \in Nat /\ vested \in Nat /\ w \in Nat \ {0} /\ DOMAIN s.recipients = 1..n
    <2>1. vested \in Nat
      BY SplitVestedBounds, SplitFieldTypes
    <2> QED  BY <2>1, Roster, SplitFieldTypes, Zenon
  <1>2. ASSUME NEW i \in 1..n
        PROVE  /\ x[i] \in Nat /\ ws[i] \in Nat
               /\ w * x[i] \in Nat /\ vested * ws[i] \in Nat
               /\ w * x[i] <= vested * ws[i]
    <2>1. /\ x[i] = (vested * s.recipients[i].weight) \div w
          /\ ws[i] = s.recipients[i].weight
          /\ s.recipients[i].weight \in Nat
      BY <1>1, Roster DEF Shares, recipient_vested, Weights
    <2> HIDE DEF n, vested, w, x, ws
    <2>2. vested * s.recipients[i].weight \in Nat
      BY <1>1, <2>1, SMTT(30)
    <2>3. x[i] \in Nat /\ x[i] * w <= vested * s.recipients[i].weight
      BY <1>1, <2>1, <2>2, DivisionBounds
    <2>4. w * x[i] = x[i] * w /\ w * x[i] \in Nat
      BY <1>1, <2>3, SMTT(30)
    <2> QED  BY <2>1, <2>2, <2>3, <2>4
  <1>3. SumUpTo(ws, n) = w
    BY DEF SumsOK
  <1> HIDE DEF n, vested, w, x, ws
  <1>4. SumUpTo(zeros, n) = 0 /\ \A i \in 1..n : zeros[i] \in Int
    BY <1>1, SumOfZeros
  <1>5. SumUpTo(part, n) = 0 + w * SumUpTo(x, n)
    <2>1. \A i \in 1..n : zeros[i] \in Int /\ x[i] \in Int /\ part[i] = zeros[i] + w * x[i]
      BY <1>2
    <2> HIDE DEF zeros, part
    <2> QED  BY <1>1, <1>4, <2>1, SumCombined
  <1>6. SumUpTo(whole, n) = 0 + vested * w
    <2>1. \A i \in 1..n : /\ zeros[i] \in Int /\ ws[i] \in Int
                          /\ whole[i] = zeros[i] + vested * ws[i]
      BY <1>2
    <2>2. vested \in Int /\ n \in Nat
      BY <1>1
    <2> HIDE DEF zeros, whole
    <2>3. SumUpTo(whole, n) = SumUpTo(zeros, n) + vested * SumUpTo(ws, n)
      BY <2>1, <2>2, SumCombined
    <2> QED  BY <1>3, <1>4, <2>3
  <1>7. SumUpTo(part, n) <= SumUpTo(whole, n)
    <2>1. \A i \in 1..n : part[i] \in Int /\ whole[i] \in Int /\ part[i] <= whole[i]
      BY <1>2
    <2> HIDE DEF part, whole
    <2> QED  BY <1>1, <2>1, SumAtMost
  <1> HIDE DEF part, whole
  <1>8. SumUpTo(x, n) \in Nat
    BY <1>1, <1>2, SumOfNaturals
  <1>9. w * SumUpTo(x, n) <= w * vested
    <2>1. vested * w = w * vested /\ w * vested \in Nat /\ w * SumUpTo(x, n) \in Nat
      BY <1>1, <1>8, SMTT(30)
    <2> QED  BY <1>5, <1>6, <1>7, <2>1
  <1>10. SumUpTo(x, n) <= vested
    <2> SUFFICES ASSUME vested + 1 <= SumUpTo(x, n)
                 PROVE  FALSE
      BY <1>1, <1>8
    <2>1. w * (vested + 1) <= w * SumUpTo(x, n)
      BY <1>1, <1>8, ProductMonotone
    <2>2. w * (vested + 1) = w * vested + w /\ w * vested \in Nat /\ w * SumUpTo(x, n) \in Nat
      BY <1>1, <1>8, SMTT(30)
    <2> QED  BY <1>1, <1>9, <2>1, <2>2
  <1> QED  BY <1>2, <1>8, <1>10 DEF n, vested, x

(* What the recipients of s have had is within their shares, and so within *)
(* the deposit.                                                            *)
LEMMA ReleasedWithinShares ==
    ASSUME NEW s, SplitRowOK(s), SumsOK(s), NEW t \in Nat, SharesOK(s, t)
    PROVE  /\ s.total_released \in Nat
           /\ s.total_released <= SumUpTo(Shares(s, t), Len(s.recipients))
           /\ s.total_released <= s.total_amount
  <1> DEFINE n == Len(s.recipients)
  <1>1. n \in Nat /\ DOMAIN s.recipients = 1..n
    BY Roster
  <1>2. ASSUME NEW i \in 1..n
        PROVE  Releases(s)[i] \in Nat /\ Shares(s, t)[i] \in Nat
               /\ Releases(s)[i] <= Shares(s, t)[i]
    <2>1. /\ Releases(s)[i] = s.recipients[i].released_amount
          /\ Shares(s, t)[i] = recipient_vested(s, t, i)
      BY <1>1 DEF Releases, Shares
    <2>2. s.recipients[i].released_amount \in Nat
      BY Roster
    <2> QED  BY <1>1, <2>1, <2>2, SharesWithinVested DEF SharesOK
  <1>3. s.total_released = SumUpTo(Releases(s), n)
    BY DEF SumsOK
  <1> HIDE DEF n
  <1>4. SumUpTo(Releases(s), n) \in Nat
    BY <1>1, <1>2, SumOfNaturals
  <1>5. SumUpTo(Releases(s), n) <= SumUpTo(Shares(s, t), n)
    BY <1>1, <1>2, SumAtMost
  <1>6. /\ SumUpTo(Shares(s, t), n) \in Nat
        /\ SumUpTo(Shares(s, t), n) <= split_vested_amount(s, t)
        /\ split_vested_amount(s, t) \in 0 .. s.total_amount
        /\ s.total_amount \in Nat
    BY SharesWithinVested, SplitVestedBounds, SplitFieldTypes DEF n
  <1> QED  BY <1>3, <1>4, <1>5, <1>6 DEF n

(* A cancellation makes the released total the sum of the shares, and the  *)
(* rest of the deposit is the refund, which is never negative.             *)
LEMMA CancellationPays ==
    ASSUME NEW s, SplitRowOK(s), SumsOK(s), now \in Nat, SharesOK(s, now)
    PROVE  /\ UnpaidTotal(s) \in Nat /\ SenderRefund(s) \in Nat
           /\ s.total_released + UnpaidTotal(s) = SumUpTo(Shares(s, now), Len(s.recipients))
           /\ UnpaidTotal(s) + SenderRefund(s) = s.total_amount - s.total_released
  <1> DEFINE n == Len(s.recipients)
             due == [i \in DOMAIN s.recipients |-> Unpaid(s, i)]
  <1>1. n \in Nat /\ DOMAIN s.recipients = 1..n
    BY Roster
  <1>2. ASSUME NEW i \in 1..n
        PROVE  /\ Releases(s)[i] \in Int /\ Shares(s, now)[i] \in Int
               /\ due[i] = Shares(s, now)[i] + (-1) * Releases(s)[i]
    <2>1. /\ Releases(s)[i] = s.recipients[i].released_amount
          /\ Shares(s, now)[i] = recipient_vested(s, now, i)
          /\ due[i] = Unpaid(s, i)
      BY <1>1 DEF Releases, Shares
    <2>2. s.recipients[i].released_amount \in Nat /\ Shares(s, now)[i] \in Nat
      BY Roster, SharesWithinVested
    <2>3. s.recipients[i].released_amount <= recipient_vested(s, now, i)
      BY <1>1 DEF SharesOK
    <2> HIDE DEF due
    <2> QED  BY <2>1, <2>2, <2>3 DEF Unpaid, Larger
  <1>3. UnpaidTotal(s) = SumUpTo(due, n) /\ s.total_released = SumUpTo(Releases(s), n)
    BY DEF UnpaidTotal, SumsOK
  <1> HIDE DEF n, due
  <1>4. -1 \in Int
    OBVIOUS
  <1>5. SumUpTo(due, n) = SumUpTo(Shares(s, now), n) + (-1) * SumUpTo(Releases(s), n)
    BY <1>1, <1>2, <1>4, SumCombined
  <1>6. /\ SumUpTo(Shares(s, now), n) \in Nat
        /\ SumUpTo(Shares(s, now), n) <= split_vested_amount(s, now)
        /\ split_vested_amount(s, now) \in 0 .. s.total_amount
        /\ s.total_amount \in Nat /\ s.total_released \in Nat
        /\ s.total_released <= SumUpTo(Shares(s, now), n)
    BY SharesWithinVested, SplitVestedBounds, SplitFieldTypes, ReleasedWithinShares DEF n
  <1>7. UnpaidTotal(s) = SumUpTo(Shares(s, now), n) - s.total_released
    BY <1>3, <1>5, <1>6
  <1> QED  BY <1>6, <1>7 DEF SenderRefund, n

(* A recipient's share is the same for two rows of one schedule and roster.*)
SameSchedule(s, r) ==
    /\ s.total_amount = r.total_amount /\ s.total_weight = r.total_weight
    /\ s.start_time = r.start_time /\ s.end_time = r.end_time
    /\ DOMAIN s.recipients = DOMAIN r.recipients
    /\ \A i \in DOMAIN s.recipients : s.recipients[i].weight = r.recipients[i].weight

LEMMA SameShare ==
    ASSUME NEW s, NEW r, SameSchedule(s, r), NEW i \in DOMAIN s.recipients, NEW t
    PROVE  recipient_vested(s, t, i) = recipient_vested(r, t, i)
  BY DEF SameSchedule, recipient_vested, split_vested_amount

(* So the weights still add up to the row's total.                         *)
LEMMA WeightsKept ==
    ASSUME NEW s, NEW r, SplitRowOK(s), SplitRowOK(r), SumsOK(s), SameSchedule(r, s)
    PROVE  /\ Len(r.recipients) = Len(s.recipients)
           /\ r.total_weight = SumUpTo(Weights(r), Len(r.recipients))
  <1> DEFINE n == Len(s.recipients)
  <1>1. Len(r.recipients) = n /\ n \in Nat /\ DOMAIN s.recipients = 1..n
        /\ DOMAIN r.recipients = 1..n
    <2>1. /\ n \in Nat /\ DOMAIN s.recipients = 1..n
          /\ Len(r.recipients) \in Nat /\ DOMAIN r.recipients = 1 .. Len(r.recipients)
      BY Roster
    <2>2. DOMAIN r.recipients = DOMAIN s.recipients
      BY DEF SameSchedule
    <2> HIDE DEF n
    <2> QED  BY <2>1, <2>2
  <1>2. \A i \in 1..n : Weights(s)[i] = Weights(r)[i]
    BY <1>1 DEF Weights, SameSchedule
  <1>3. r.total_weight = SumUpTo(Weights(s), n)
    BY DEF SumsOK, SameSchedule
  <1> HIDE DEF n
  <1> QED  BY <1>1, <1>2, <1>3, SumSame

(* What is left of a deposit is never negative.                            *)
LEMMA SplitLeft ==
    ASSUME NEW s, SplitRowOK(s), SumsOK(s), NEW t \in Nat, SharesOK(s, t)
    PROVE  /\ SplitOwes(s) \in Nat
           /\ s.status = "Active" => SplitOwes(s) = s.total_amount - s.total_released
  <1>1. /\ s.total_amount \in Nat /\ s.total_released \in Nat
        /\ s.total_released <= s.total_amount
    BY SplitFieldTypes, ReleasedWithinShares
  <1> QED  BY <1>1 DEF SplitOwes

LEMMA SplitsOweType ==
    ASSUME SplitInv, now \in Nat
    PROVE  /\ SplitsOwe \in Nat
           /\ \A id \in SplitIds : SplitOwes(splits[id]) <= SplitsOwe
  <1> DEFINE v == [j \in SplitIds |-> SplitOwes(splits[j])]
             n == Len(splits)
  <1>1. n \in Nat /\ SplitIds = 1..n
    BY DEF SplitInv, SplitIds
  <1>2. ASSUME NEW j \in 1..n
        PROVE  v[j] \in Nat /\ v[j] = SplitOwes(splits[j])
    BY <1>1, SplitLeft DEF SplitInv
  <1>3. SplitsOwe = SumUpTo(v, n)
    BY DEF SplitsOwe
  <1> HIDE DEF v, n
  <1>4. SumUpTo(v, n) \in Nat /\ \A j \in 1..n : v[j] <= SumUpTo(v, n)
    BY <1>1, <1>2, SumOfNaturals
  <1> QED  BY <1>1, <1>2, <1>3, <1>4

(* One row replaced by a good one: the total still owed changes by what    *)
(* that row owes.                                                          *)
LEMMA ReplaceSplit ==
    ASSUME SplitInv, now \in Nat, now' = now, NEW id \in SplitIds,
           NEW s, SplitRowOK(s), SumsOK(s), SharesOK(s, now),
           splits' = [splits EXCEPT ![id] = s]
    PROVE  /\ SplitInv'
           /\ SplitsOwe' = SplitsOwe - SplitOwes(splits[id]) + SplitOwes(s)
  <1> DEFINE n == Len(splits)
             v == [j \in SplitIds |-> SplitOwes(splits[j])]
             w == [j \in SplitIds' |-> SplitOwes(splits'[j])]
  <1>1. splits' = [j \in 1..n |-> IF j = id THEN s ELSE splits[j]]
    BY DEF SplitInv
  <1>2. Len(splits') = n /\ DOMAIN splits' = 1..n /\ n \in Nat
    BY <1>1 DEF SplitInv
  <1>3. SplitIds = 1..n /\ SplitIds' = 1..n
    BY <1>2 DEF SplitInv, SplitIds
  <1>4. ASSUME NEW j \in 1..n
        PROVE  SplitRowOK(splits'[j]) /\ SumsOK(splits'[j]) /\ SharesOK(splits'[j], now)
    BY <1>1, <1>3 DEF SplitInv
  <1>5. SplitInv'
    BY <1>1, <1>2, <1>4 DEF SplitInv, SplitIds
  <1>6. ASSUME NEW j \in 1..n
        PROVE  /\ v[j] \in Int /\ w[j] \in Int
               /\ j # id => v[j] = w[j]
               /\ j = id => w[j] = SplitOwes(s)
    <2>1. SplitOwes(splits[j]) \in Nat
      BY <1>3, SplitLeft DEF SplitInv
    <2>2. SplitOwes(splits'[j]) \in Nat
      BY <1>4, SplitLeft
    <2>3. v[j] = SplitOwes(splits[j]) /\ w[j] = SplitOwes(splits'[j])
      BY <1>3
    <2> QED  BY <1>1, <2>1, <2>2, <2>3
  <1>7. SplitsOwe = SumUpTo(v, n) /\ SplitsOwe' = SumUpTo(w, n)
    BY <1>2 DEF SplitsOwe
  <1>8. v[id] = SplitOwes(splits[id]) /\ id \in 1..n
    BY <1>3
  <1> HIDE DEF v, w, n
  <1>9. SumUpTo(w, n) = SumUpTo(v, n) - v[id] + w[id]
    BY <1>2, <1>6, <1>8, SumChanged
  <1> QED  BY <1>5, <1>6, <1>7, <1>8, <1>9

(* A step that leaves a row's shares where its own clock put them.         *)
LEMMA SharesKept ==
    ASSUME NEW s, SplitRowOK(s), NEW t \in Nat, NEW u \in Nat, t <= u, SharesOK(s, t)
    PROVE  SharesOK(s, u)
  <1> SUFFICES ASSUME NEW i \in DOMAIN s.recipients
      PROVE  LET released == s.recipients[i].released_amount
             IN  /\ s.status = "Cancelled" => released = recipient_vested(s, s.last_update, i)
                 /\ released <= recipient_vested(s, u, i)
    BY DEF SharesOK
  <1>1. /\ recipient_vested(s, t, i) \in Nat /\ recipient_vested(s, u, i) \in Nat
        /\ recipient_vested(s, t, i) <= recipient_vested(s, u, i)
    BY ShareMonotone
  <1>2. s.recipients[i].released_amount \in Nat
    <2>1. s.recipients \in Seq(Allocation)
      BY Zenon DEF SplitRowOK
    <2>2. s.recipients[i] \in Allocation
      BY <2>1
    <2> QED  BY <2>2 DEF Allocation
  <1> QED  BY <1>1, <1>2 DEF SharesOK

LEMMA AppendRow ==
    ASSUME NEW q, Len(q) \in Nat, q = [i \in 1 .. Len(q) |-> q[i]], NEW x
    PROVE  LET r == Append(q, x)
           IN  /\ Len(r) = Len(q) + 1
               /\ \A i \in 1 .. Len(q) : r[i] = q[i]
               /\ r[Len(q) + 1] = x
               /\ r = [i \in 1 .. Len(r) |-> r[i]]
  <1> DEFINE S == {q[i] : i \in 1 .. Len(q)} \cup {x}
  <1>1. x \in S /\ \A i \in 1 .. Len(q) : q[i] \in S
    OBVIOUS
  <1> HIDE DEF S
  <1>2. q \in [1 .. Len(q) -> S]
    BY <1>1
  <1>3. q \in Seq(S)
    BY <1>2, SeqDef, Zenon
  <1> DEFINE r == Append(q, x)
  <1>4. /\ r \in Seq(S) /\ Len(r) = Len(q) + 1 /\ r[Len(q) + 1] = x
        /\ \A i \in 1 .. Len(q) : r[i] = q[i]
    BY <1>1, <1>3, AppendProperties
  <1> HIDE DEF r
  <1>5. r \in [1 .. Len(r) -> S]
    BY <1>4, LenProperties
  <1>6. r = [i \in 1 .. Len(r) |-> r[i]]
    BY <1>5
  <1> QED  BY <1>4, <1>6 DEF r

LEMMA CreatesSplit ==
    ASSUME SplitInv, now \in Nat,
           NEW sender \in Payers, NEW total \in SplitTotals, NEW start \in SplitEnds,
           NEW end \in SplitEnds, NEW roster \in Rosters,
           create_split_stream(sender, total, start, end, roster)
    PROVE  SplitInv' /\ SplitsOwe' = SplitsOwe + total
  <1> DEFINE rs == [i \in DOMAIN roster |->
                      [ recipient |-> roster[i].recipient, weight |-> roster[i].weight,
                        released_amount |-> 0 ]]
             s == [ status |-> "Active", sender |-> sender,
                    total_amount |-> total, total_released |-> 0,
                    start_time |-> start, end_time |-> end, last_update |-> start,
                    total_weight |-> WeightSum(roster), recipients |-> rs ]
  <1>1. /\ splits' = Append(splits, s) /\ now' = now
        /\ end > start /\ WeightSum(roster) \in 1 .. U64Max
    BY DEF create_split_stream
  <1>2. /\ total \in Nat /\ start \in Nat /\ end \in Nat /\ WeightSum(roster) \in Nat \ {0}
        /\ roster \in Seq([recipient : Accounts, weight : Nat \ {0}])
    <2>1. roster \in Seq([recipient : Accounts, weight : Nat \ {0}])
      BY SplitAssumption, Zenon
    <2>2. total \in Nat /\ start \in Nat /\ end \in Nat
      BY SplitAssumption, WidthAssumption
    <2> QED  BY <1>1, <2>1, <2>2, WidthAssumption
  <1>3. rs \in Seq(Allocation)
    <2>1. roster \in [1 .. Len(roster) -> [recipient : Accounts, weight : Nat \ {0}]]
          /\ Len(roster) \in Nat /\ DOMAIN roster = 1 .. Len(roster)
      BY <1>2, LenProperties
    <2>2. ASSUME NEW i \in DOMAIN roster PROVE rs[i] \in Allocation
      <3>1. roster[i] \in [recipient : Accounts, weight : Nat \ {0}]
        BY <2>1
      <3> QED  BY <3>1 DEF Allocation
    <2>3. rs \in [1 .. Len(roster) -> Allocation]
      BY <2>1, <2>2
    <2> QED  BY <2>1, <2>3
  <1> HIDE DEF rs
  <1>4. /\ s.status = "Active" /\ s.total_amount = total /\ s.start_time = start
        /\ s.total_released = 0 /\ s.end_time = end /\ s.last_update = start
        /\ s.total_weight = WeightSum(roster) /\ s.recipients = rs
        /\ IsSplitRow(s)
      BY DEF IsSplitRow, SplitFields
  <1> HIDE DEF s
  <1>5. SplitRowOK(s) /\ SumsOK(s) /\ SharesOK(s, now)
    <2>1. SplitRowOK(s)
      <3>1. s.status \in SplitStatus
        BY <1>4 DEF SplitStatus
      <3> QED  BY <1>1, <1>2, <1>3, <1>4, <3>1 DEF SplitRowOK
    <2>2. ASSUME NEW i \in DOMAIN s.recipients
          PROVE  0 <= recipient_vested(s, now, i) /\ s.recipients[i].released_amount = 0
      <3>1. recipient_vested(s, now, i) \in Nat
        BY <2>1, ShareMonotone
      <3> QED  BY <1>4, <3>1 DEF rs
    <2>3. SumsOK(s)
      <3> DEFINE n == Len(roster)
                 given == [i \in DOMAIN roster |-> roster[i].weight]
      <3>1. n \in Nat /\ DOMAIN roster = 1..n
        BY <1>2, LenProperties
      <3>2. Len(rs) = n /\ DOMAIN rs = 1..n
        <4>1. DOMAIN rs = 1..n
          BY <3>1 DEF rs
        <4>2. DOMAIN rs = 1 .. Len(rs) /\ Len(rs) \in Nat
          BY <1>3, LenProperties
        <4> HIDE DEF n
        <4> QED  BY <3>1, <4>1, <4>2
      <3>3. \A i \in 1..n : Weights(s)[i] = given[i] /\ Releases(s)[i] = 0
        BY <1>4, <3>1, <3>2 DEF Weights, Releases, rs
      <3>4. s.total_weight = SumUpTo(given, n)
        BY <1>4 DEF WeightSum
      <3> HIDE DEF n, given
      <3>5. SumUpTo(Weights(s), n) = SumUpTo(given, n) /\ SumUpTo(Releases(s), n) = 0
        BY <3>1, <3>3, SumSame, SumOfZeros
      <3> QED  BY <1>4, <3>2, <3>4, <3>5 DEF SumsOK
    <2> QED  BY <1>4, <2>1, <2>2, <2>3 DEF SharesOK
  <1>6. /\ Len(splits') = Len(splits) + 1 /\ Len(splits) \in Nat
        /\ \A id \in 1 .. Len(splits) : splits'[id] = splits[id]
        /\ splits'[Len(splits) + 1] = s
        /\ splits' = [id \in 1 .. Len(splits') |-> splits'[id]]
    BY <1>1, AppendRow DEF SplitInv
  <1>7. ASSUME NEW id \in 1 .. Len(splits')
        PROVE  SplitRowOK(splits'[id]) /\ SumsOK(splits'[id]) /\ SharesOK(splits'[id], now)
    <2>1. CASE id \in 1 .. Len(splits)
      BY <1>6, <2>1 DEF SplitInv, SplitIds
    <2>2. CASE id = Len(splits) + 1
      BY <1>5, <1>6, <2>2
    <2> QED  BY <1>6, <2>1, <2>2
  <1>8. SplitIds' = 1 .. Len(splits')
    BY <1>6 DEF SplitIds
  <1>9. SplitInv'
    BY <1>1, <1>6, <1>7, <1>8 DEF SplitInv
  <1> DEFINE v == [j \in SplitIds |-> SplitOwes(splits[j])]
             w == [j \in SplitIds' |-> SplitOwes(splits'[j])]
             n == Len(splits)
  <1>10. /\ SplitsOwe = SumUpTo(v, n) /\ SplitsOwe' = SumUpTo(w, n + 1)
         /\ n \in Nat /\ SplitIds = 1..n /\ SplitIds' = 1 .. n + 1
    BY <1>6, <1>8 DEF SplitsOwe, SplitInv, SplitIds
  <1>11. w[n + 1] = SplitOwes(s) /\ \A j \in 1..n : v[j] = w[j]
    BY <1>6, <1>10
  <1>12. SplitOwes(s) = total
    BY <1>2, <1>4 DEF SplitOwes
  <1> HIDE DEF v, w, n
  <1>13. SumUpTo(w, n + 1) = SumUpTo(v, n) + w[n + 1]
    BY <1>10, <1>11, SumAppended
  <1> QED  BY <1>9, <1>10, <1>11, <1>12, <1>13

CreditedOne(a, amount) == [a EXCEPT !.released_amount = @ + amount]
Credited(q, i, amount) == [q EXCEPT ![i].released_amount = @ + amount]
AfterWithdrawal(s, i, amount, t) ==
    [s EXCEPT !.recipients[i].released_amount = @ + amount,
              !.total_released = s.total_released + amount,
              !.last_update = t,
              !.status = IF s.total_released + amount = s.total_amount THEN "Settled" ELSE @]

(* The allocation found is one of the roster, and the caller's.            *)
LEMMA IndexOfRecipient ==
    ASSUME NEW s, NEW who, find_recipient_index(s, who) # 0
    PROVE  /\ find_recipient_index(s, who) \in 1 .. Len(s.recipients)
           /\ s.recipients[find_recipient_index(s, who)].recipient = who
  <1> DEFINE I == {i \in 1 .. Len(s.recipients) : s.recipients[i].recipient = who}
  <1>1. find_recipient_index(s, who) = IF I # {} THEN Min(I) ELSE 0
    BY DEF find_recipient_index, SelectInSeq
  <1>2. I # {} /\ find_recipient_index(s, who) = Min(I)
    BY <1>1
  <1>3. \E x \in I : \A y \in I : x <= y
    <2>1. I \subseteq Nat
      OBVIOUS
    <2> QED  BY <1>2, <2>1, NatHasLeast
  <1> HIDE DEF I
  <1>4. Min(I) \in I
    BY <1>3 DEF Min
  <1> QED  BY <1>2, <1>4 DEF I

(* One allocation of a roster credited.                                    *)
LEMMA CreditedElement ==
    ASSUME NEW a \in Allocation, NEW amount \in Nat
    PROVE  /\ CreditedOne(a, amount) \in Allocation
           /\ CreditedOne(a, amount).weight = a.weight
           /\ CreditedOne(a, amount).released_amount = a.released_amount + amount
  <1>1. a.released_amount + amount \in Nat
    BY DEF Allocation
  <1> QED  BY <1>1 DEF Allocation, CreditedOne

LEMMA AllocationPaid ==
    ASSUME NEW q \in Seq(Allocation), NEW i, NEW amount \in Nat
    PROVE  /\ Credited(q, i, amount) \in Seq(Allocation)
           /\ DOMAIN Credited(q, i, amount) = DOMAIN q
           /\ \A j \in DOMAIN q :
                /\ Credited(q, i, amount)[j].weight = q[j].weight
                /\ Credited(q, i, amount)[j].released_amount
                     = IF j = i THEN q[j].released_amount + amount ELSE q[j].released_amount
  <1> DEFINE rs == Credited(q, i, amount)
  <1>1. q \in [1 .. Len(q) -> Allocation] /\ Len(q) \in Nat /\ DOMAIN q = 1 .. Len(q)
    BY LenProperties
  <1>2. /\ DOMAIN rs = 1 .. Len(q) /\ rs = [j \in 1 .. Len(q) |-> rs[j]]
        /\ \A j \in 1 .. Len(q) : rs[j] = IF j = i THEN CreditedOne(q[j], amount) ELSE q[j]
    BY <1>1 DEF Credited, CreditedOne
  <1> HIDE DEF rs
  <1>3. ASSUME NEW j \in 1 .. Len(q)
        PROVE  /\ rs[j] \in Allocation /\ rs[j].weight = q[j].weight
               /\ rs[j].released_amount = IF j = i THEN q[j].released_amount + amount
                                          ELSE q[j].released_amount
    <2>1. q[j] \in Allocation
      BY <1>1
    <2>2. CASE j = i
      BY <1>2, <2>1, <2>2, CreditedElement
    <2>3. CASE j # i
      BY <1>2, <2>1, <2>3
    <2> QED  BY <2>2, <2>3
  <1>4. rs \in [1 .. Len(q) -> Allocation]
    BY <1>2, <1>3
  <1>5. rs \in Seq(Allocation)
    BY <1>1, <1>4, SeqDef, Zenon
  <1> QED  BY <1>1, <1>2, <1>3, <1>5 DEF rs

LEMMA WithdrawnRow ==
    ASSUME NEW s, IsSplitRow(s), NEW i, NEW amount, NEW t
    PROVE  /\ IsSplitRow(AfterWithdrawal(s, i, amount, t))
           /\ AfterWithdrawal(s, i, amount, t).status \in {"Settled", s.status}
           /\ AfterWithdrawal(s, i, amount, t).status
                = IF s.total_released + amount = s.total_amount THEN "Settled" ELSE s.status
           /\ AfterWithdrawal(s, i, amount, t).total_released = s.total_released + amount
           /\ AfterWithdrawal(s, i, amount, t).total_amount = s.total_amount
           /\ AfterWithdrawal(s, i, amount, t).start_time = s.start_time
           /\ AfterWithdrawal(s, i, amount, t).end_time = s.end_time
           /\ AfterWithdrawal(s, i, amount, t).last_update = t
           /\ AfterWithdrawal(s, i, amount, t).total_weight = s.total_weight
           /\ AfterWithdrawal(s, i, amount, t).recipients = Credited(s.recipients, i, amount)
  BY DEF IsSplitRow, SplitFields, AfterWithdrawal, Credited

LEMMA WithdrawsSplit ==
    ASSUME SplitInv, now \in Nat, NEW id \in SplitIds, NEW who \in Accounts, NEW amount \in Draws,
           withdraw_split(id, who, amount)
    PROVE  SplitInv' /\ SplitsOwe' = SplitsOwe - amount
  <1> DEFINE s == splits[id]
             i == find_recipient_index(s, who)
             rs == Credited(s.recipients, i, amount)
             new == AfterWithdrawal(s, i, amount, now)
  <1>1. /\ SplitRowOK(s) /\ SharesOK(s, now) /\ s.status = "Active"
        /\ amount > 0 /\ amount <= recipient_vested(s, now, i) - s.recipients[i].released_amount
        /\ SumsOK(s) /\ i # 0
    BY DEF SplitInv, withdraw_split
  <1>2. splits' = [splits EXCEPT ![id] = new] /\ now' = now
    BY DEF withdraw_split, AfterWithdrawal
  <1>3. amount \in Nat /\ s.recipients \in Seq(Allocation)
    <2>1. s.recipients \in Seq(Allocation)
      BY <1>1, Zenon DEF SplitRowOK
    <2> QED  BY <2>1, LedgerAssumption
  <1>12. i \in 1 .. Len(s.recipients)
    BY <1>1, IndexOfRecipient
  <1> HIDE DEF i, s
  <1>4. /\ rs \in Seq(Allocation) /\ DOMAIN rs = DOMAIN s.recipients
        /\ \A j \in DOMAIN rs :
             /\ rs[j].weight = s.recipients[j].weight
             /\ rs[j].released_amount = IF j = i THEN s.recipients[j].released_amount + amount
                                        ELSE s.recipients[j].released_amount
    BY <1>3, AllocationPaid
  <1>5. /\ IsSplitRow(new) /\ new.status \in {"Settled", s.status}
        /\ new.total_amount = s.total_amount /\ new.start_time = s.start_time
        /\ new.end_time = s.end_time /\ new.last_update = now
        /\ new.total_weight = s.total_weight /\ new.recipients = rs
        /\ new.total_released = s.total_released + amount
        /\ new.status = IF s.total_released + amount = s.total_amount THEN "Settled" ELSE s.status
    <2>1. IsSplitRow(s)
      BY <1>1, Zenon DEF SplitRowOK
    <2> QED  BY <2>1, WithdrawnRow
  <1> HIDE DEF new, rs
  <1>6. SplitRowOK(new)
    <2>1. new.status \in SplitStatus
      BY <1>1, <1>5 DEF SplitRowOK, SplitStatus
    <2> QED  BY <1>1, <1>4, <1>5, <2>1 DEF SplitRowOK
  <1>7. SharesOK(new, now)
    <2> SUFFICES ASSUME NEW j \in DOMAIN rs
        PROVE  rs[j].released_amount <= recipient_vested(new, now, j)
      <3>1. new.status # "Cancelled"
        BY <1>1, <1>5
      <3> QED  BY <1>5, <3>1 DEF SharesOK
    <2>1. recipient_vested(new, now, j) = recipient_vested(s, now, j)
      <3>1. SameSchedule(new, s)
        BY <1>4, <1>5 DEF SameSchedule
      <3> QED  BY <1>5, <3>1, SameShare
    <2>2. /\ s.recipients[j].released_amount \in Nat
          /\ s.recipients[j].released_amount <= recipient_vested(s, now, j)
          /\ recipient_vested(s, now, j) \in Nat
      <3>1. s.recipients[j] \in Allocation
        BY <1>3, <1>4
      <3> QED  BY <1>1, <1>4, <3>1, ShareMonotone DEF SharesOK, Allocation
    <2> QED  BY <1>1, <1>3, <1>4, <2>1, <2>2
  <1>8. SumsOK(new)
    <2> DEFINE n == Len(s.recipients)
    <2>1. n \in Nat /\ DOMAIN s.recipients = 1..n /\ i \in 1..n
      BY <1>1, <1>12, Roster
    <2>2. Len(new.recipients) = n /\ new.total_weight = SumUpTo(Weights(new), n)
      <3>1. SameSchedule(new, s)
        BY <1>4, <1>5 DEF SameSchedule
      <3> QED  BY <1>1, <1>6, <3>1, WeightsKept
    <2>3. ASSUME NEW j \in 1..n
          PROVE  /\ Releases(s)[j] \in Int /\ Releases(new)[j] \in Int
                 /\ j # i => Releases(s)[j] = Releases(new)[j]
                 /\ j = i => Releases(new)[j] = Releases(s)[j] + amount
      <3>1. s.recipients[j].released_amount \in Nat
        BY <1>1, Roster
      <3>2. /\ Releases(s)[j] = s.recipients[j].released_amount
            /\ Releases(new)[j] = rs[j].released_amount
        BY <1>4, <1>5, <2>1 DEF Releases
      <3> QED  BY <1>3, <1>4, <2>1, <3>1, <3>2
    <2>4. s.total_released = SumUpTo(Releases(s), n) /\ s.total_released \in Nat
      BY <1>1, ReleasedWithinShares DEF SumsOK
    <2> HIDE DEF n
    <2>5. SumUpTo(Releases(new), n) = SumUpTo(Releases(s), n) - Releases(s)[i] + Releases(new)[i]
      BY <2>1, <2>3, SumChanged
    <2>6. SumUpTo(Releases(new), n) = s.total_released + amount
      BY <1>3, <2>1, <2>3, <2>4, <2>5
    <2> QED  BY <1>5, <2>2, <2>6 DEF SumsOK
  <1>9. SplitOwes(new) = SplitOwes(s) - amount /\ SplitOwes(s) \in Nat
    <2>1. /\ s.total_amount \in Nat /\ s.total_released \in Nat
          /\ SplitOwes(s) = s.total_amount - s.total_released /\ SplitOwes(s) \in Nat
      BY <1>1, SplitFieldTypes, ReleasedWithinShares, SplitLeft
    <2> QED  BY <1>1, <1>3, <1>5, <2>1 DEF SplitOwes
  <1>10. SplitInv' /\ SplitsOwe' = SplitsOwe - SplitOwes(s) + SplitOwes(new)
    BY <1>2, <1>6, <1>7, <1>8, ReplaceSplit DEF s
  <1>11. SplitsOwe \in Nat
    BY SplitsOweType
  <1> QED  BY <1>3, <1>9, <1>10, <1>11

ToppedUp(s) ==
    [i \in DOMAIN s.recipients |-> CreditedOne(s.recipients[i], Unpaid(s, i))]
AfterCancellation(s) ==
    [s EXCEPT !.status = "Cancelled",
              !.total_released = @ + UnpaidTotal(s),
              !.last_update = now,
              !.recipients = ToppedUp(s)]

LEMMA CancelledRow ==
    ASSUME NEW s, IsSplitRow(s)
    PROVE  /\ IsSplitRow(AfterCancellation(s))
           /\ AfterCancellation(s).status = "Cancelled"
           /\ AfterCancellation(s).total_released = s.total_released + UnpaidTotal(s)
           /\ AfterCancellation(s).total_amount = s.total_amount
           /\ AfterCancellation(s).start_time = s.start_time
           /\ AfterCancellation(s).end_time = s.end_time
           /\ AfterCancellation(s).last_update = now
           /\ AfterCancellation(s).total_weight = s.total_weight
           /\ AfterCancellation(s).recipients = ToppedUp(s)
  BY DEF IsSplitRow, SplitFields, AfterCancellation

LEMMA CancelsSplit ==
    ASSUME SplitInv, now \in Nat, NEW id \in SplitIds, cancel_split_stream(id)
    PROVE  /\ SplitInv'
           /\ SplitsOwe' = SplitsOwe - (splits[id].total_amount - splits[id].total_released)
  <1> DEFINE s == splits[id]
             rs == ToppedUp(s)
             new == AfterCancellation(s)
  <1>1. SplitRowOK(s) /\ SumsOK(s) /\ SharesOK(s, now) /\ s.status = "Active"
    BY DEF SplitInv, cancel_split_stream
  <1>2. splits' = [splits EXCEPT ![id] = new] /\ now' = now
    BY DEF cancel_split_stream, AfterCancellation, ToppedUp, CreditedOne
  <1>3. s.recipients \in Seq(Allocation)
    BY <1>1, Zenon DEF SplitRowOK
  <1> HIDE DEF s
  <1>4. ASSUME NEW j \in DOMAIN s.recipients
        PROVE  /\ rs[j] \in Allocation /\ rs[j].weight = s.recipients[j].weight
               /\ rs[j].released_amount = recipient_vested(s, now, j)
               /\ recipient_vested(s, now, j) \in Nat
    <2>1. s.recipients[j] \in Allocation
      BY <1>3
    <2>2. /\ recipient_vested(s, now, j) \in Nat
          /\ s.recipients[j].released_amount <= recipient_vested(s, now, j)
      BY <1>1, ShareMonotone DEF SharesOK
    <2>3. s.recipients[j].released_amount \in Nat
      BY <2>1 DEF Allocation
    <2>4. /\ Unpaid(s, j) \in Nat
          /\ s.recipients[j].released_amount + Unpaid(s, j) = recipient_vested(s, now, j)
      BY <2>2, <2>3 DEF Unpaid, Larger
    <2>5. rs[j] = CreditedOne(s.recipients[j], Unpaid(s, j))
      BY DEF ToppedUp
    <2> QED  BY <2>1, <2>2, <2>4, <2>5, CreditedElement, ZenonT(40)
  <1>5. rs \in Seq(Allocation) /\ DOMAIN rs = DOMAIN s.recipients
    <2>1. Len(s.recipients) \in Nat /\ DOMAIN s.recipients = 1 .. Len(s.recipients)
      BY <1>3, LenProperties
    <2>2. rs = [j \in DOMAIN s.recipients |-> rs[j]] /\ DOMAIN rs = DOMAIN s.recipients
      BY DEF ToppedUp
    <2>3. rs \in [1 .. Len(s.recipients) -> Allocation]
      BY <1>4, <2>1, <2>2
    <2> QED  BY <2>1, <2>2, <2>3, SeqDef, Zenon
  <1>6. /\ IsSplitRow(new) /\ new.status = "Cancelled"
        /\ new.total_amount = s.total_amount /\ new.start_time = s.start_time
        /\ new.end_time = s.end_time /\ new.last_update = now
        /\ new.total_weight = s.total_weight /\ new.recipients = rs
        /\ new.total_released = s.total_released + UnpaidTotal(s)
    <2>1. IsSplitRow(s)
      BY <1>1, Zenon DEF SplitRowOK
    <2> QED  BY <2>1, CancelledRow
  <1> HIDE DEF new, rs
  <1>7. SplitRowOK(new)
    BY <1>1, <1>5, <1>6 DEF SplitRowOK, SplitStatus
  <1>8. SharesOK(new, now)
    <2> SUFFICES ASSUME NEW j \in DOMAIN rs
        PROVE  /\ rs[j].released_amount = recipient_vested(new, now, j)
               /\ rs[j].released_amount <= recipient_vested(new, now, j)
      BY <1>6 DEF SharesOK
    <2>1. SameSchedule(new, s)
      BY <1>4, <1>5, <1>6 DEF SameSchedule
    <2>2. recipient_vested(new, now, j) = recipient_vested(s, now, j)
      BY <1>6, <2>1, SameShare
    <2> QED  BY <1>4, <1>5, <2>2
  <1>9. SumsOK(new)
    <2> DEFINE n == Len(s.recipients)
    <2>1. n \in Nat /\ DOMAIN s.recipients = 1..n
      BY <1>1, Roster
    <2>2. Len(new.recipients) = n /\ new.total_weight = SumUpTo(Weights(new), n)
      <3>1. SameSchedule(new, s)
        BY <1>4, <1>5, <1>6 DEF SameSchedule
      <3> QED  BY <1>1, <1>7, <3>1, WeightsKept
    <2>3. \A j \in 1..n : Releases(new)[j] = Shares(s, now)[j]
      BY <1>4, <1>5, <1>6, <2>1 DEF Releases, Shares
    <2>4. s.total_released + UnpaidTotal(s) = SumUpTo(Shares(s, now), n)
      BY <1>1, CancellationPays
    <2> HIDE DEF n
    <2>5. SumUpTo(Releases(new), n) = SumUpTo(Shares(s, now), n)
      BY <2>1, <2>3, SumSame
    <2> QED  BY <1>6, <2>2, <2>4, <2>5 DEF SumsOK
  <1>10. SplitInv' /\ SplitsOwe' = SplitsOwe - SplitOwes(s) + SplitOwes(new)
    BY <1>2, <1>7, <1>8, <1>9, ReplaceSplit DEF s
  <1>11. /\ SplitOwes(s) = s.total_amount - s.total_released /\ SplitOwes(s) \in Nat
         /\ SplitOwes(new) = 0 /\ SplitsOwe \in Nat
    <2>1. SplitOwes(s) = s.total_amount - s.total_released /\ SplitOwes(s) \in Nat
      BY <1>1, SplitLeft
    <2>2. SplitOwes(new) = 0
      BY <1>6 DEF SplitOwes
    <2> QED  BY <2>1, <2>2, SplitsOweType
  <1>12. SplitsOwe' = SplitsOwe - (s.total_amount - s.total_released)
    BY <1>10, <1>11
  <1> QED  BY <1>10, <1>12 DEF s

LEMMA SplitStep ==
    ASSUME SplitInv, now \in Nat, [Next]_vars
    PROVE  SplitInv'
  <1>1. CASE (Tick \/ Configure) /\ UNCHANGED <<splits, recurring>>
    <2>1. now' \in Nat /\ now <= now' /\ splits' = splits
      BY <1>1 DEF Tick, Configure
    <2>2. \A id \in SplitIds : SplitRowOK(splits[id]) /\ SharesOK(splits[id], now')
      BY <2>1, SharesKept DEF SplitInv
    <2> QED  BY <2>1, <2>2 DEF SplitInv, SplitIds
  <1>2. CASE SplitNext /\ UNCHANGED recurring
    BY <1>2, CreatesSplit, WithdrawsSplit, CancelsSplit, Zenon DEF SplitNext
  <1>3. CASE RecurringNext /\ UNCHANGED splits
    BY <1>3, CyclesKeepTime DEF SplitInv, SplitIds
  <1>4. CASE UNCHANGED vars
    BY <1>4 DEF vars, ledger, SplitInv, SplitIds
  <1> QED  BY <1>1, <1>2, <1>3, <1>4 DEF Next

-----------------------------------------------------------------------------
ProgramsInv == now \in Nat /\ RecurringInv /\ SplitInv

LEMMA ProgramsAtFirst == Init => ProgramsInv
  <1> SUFFICES ASSUME Init PROVE ProgramsInv
    OBVIOUS
  <1>1. now = 0 /\ splits = <<>> /\ recurring = <<>>
    BY DEF Init, LedgerInit, SplitInit, RecurringInit
  <1>2. MaxRecurring \in Nat
    BY RecurringAssumption
  <1> QED  BY <1>1, <1>2 DEF ProgramsInv, RecurringInv, RecurringIds, SplitInv, SplitIds

(* Every row of either kind stays well formed, booked by the clock and     *)
(* within its shares, through any sequence of calls.                       *)
THEOREM ProgramsInvariant == Spec => []ProgramsInv
  <1>1. Init => ProgramsInv
    BY ProgramsAtFirst
  <1>2. ProgramsInv /\ [Next]_vars => ProgramsInv'
    BY RecurringStep, SplitStep DEF ProgramsInv
  <1> QED  BY <1>1, <1>2, PTL DEF Spec

(* recurring.rs: a keeper that calls process late, often or never changes   *)
(* nothing for the recipient, who has and may take exactly what the clock   *)
(* says is due, and gets no less and no more at a cancellation.             *)
THEOREM KeepersChangeNothing == Spec => []PayoutFollowsClock
  <1>1. ProgramsInv => PayoutFollowsClock
    BY CyclesGivePayout DEF ProgramsInv
  <1> QED  BY <1>1, ProgramsInvariant, PTL

(* multi.rs: no allocation is ever ahead of its share of what has vested,   *)
(* and a cancellation makes each up to exactly that share, for any roster   *)
(* and any withdrawals before it.                                           *)
THEOREM SharesAreExact == Spec => []SplitSharesExact
  <1>1. ProgramsInv => SplitSharesExact
    BY DEF ProgramsInv, SplitInv, SharesOK, SplitSharesExact
  <1> QED  BY <1>1, ProgramsInvariant, PTL

-----------------------------------------------------------------------------
(* The money.  Every call moves between an account and the contract just   *)
(* what it adds to, or takes from, what the rows are still owed.           *)

LEMMA TokenMoved ==
    ASSUME NEW b \in [Holders -> Nat], NEW from \in Holders, NEW to \in Holders, from # to,
           NEW amount \in Nat, b[from] >= amount
    PROVE  /\ Moved(b, from, to, amount) \in [Holders -> Nat]
           /\ Moved(b, from, to, amount)[from] = b[from] - amount
           /\ Moved(b, from, to, amount)[to] = b[to] + amount
  <1>1. b[from] \in Nat /\ b[to] \in Nat /\ b[from] - amount \in Nat /\ b[to] + amount \in Nat
    OBVIOUS
  <1>2. Moved(b, from, to, amount)
          = [h \in Holders |-> IF h = to THEN b[to] + amount
                               ELSE IF h = from THEN b[from] - amount ELSE b[h]]
    BY DEF Moved
  <1> QED  BY <1>1, <1>2

LEMMA HoldersApart ==
    /\ Escrow \in Holders /\ Escrow \notin Accounts /\ Accounts \subseteq Holders
    /\ Payers \subseteq Accounts /\ Collectors \subseteq Accounts /\ None \notin Collectors
  BY LedgerAssumption DEF Holders

SolventInv == LedgerTypeOK /\ ProgramsInv /\ ProgramsSolvent

(* What a call does to the contract's balance and to the two totals.       *)
Balanced ==
    /\ balance' \in [Holders -> Nat] /\ SplitsOwe' \in Int /\ CyclesOwe' \in Int
    /\ balance'[Escrow] - balance[Escrow]
         = (SplitsOwe' - SplitsOwe) + (CyclesOwe' - CyclesOwe)

LEMMA OwedTypes ==
    ASSUME SolventInv
    PROVE  /\ now \in Nat /\ RecurringInv /\ SplitInv
           /\ balance \in [Holders -> Nat] /\ balance[Escrow] \in Nat
           /\ SplitsOwe \in Nat /\ CyclesOwe \in Nat
           /\ balance[Escrow] = SplitsOwe + CyclesOwe
           /\ config.collector \in Collectors \cup {None}
  <1>1. now \in Nat /\ RecurringInv /\ SplitInv /\ balance \in [Holders -> Nat]
        /\ config.collector \in Collectors \cup {None}
    BY DEF SolventInv, ProgramsInv, LedgerTypeOK
  <1> QED  BY <1>1, CyclesOweType, SplitsOweType, HoldersApart DEF SolventInv, ProgramsSolvent

LEMMA SplitCreationBalances ==
    ASSUME SolventInv, UNCHANGED recurring,
           NEW sender \in Payers, NEW total \in SplitTotals, NEW start \in SplitEnds,
           NEW end \in SplitEnds, NEW roster \in Rosters,
           create_split_stream(sender, total, start, end, roster)
    PROVE  Balanced
  <1>1. /\ total \in Nat /\ balance[sender] >= total
        /\ balance' = Moved(balance, sender, Escrow, total)
    BY SplitAssumption DEF create_split_stream
  <1>2. SplitsOwe' = SplitsOwe + total
    BY CreatesSplit, OwedTypes
  <1>3. CyclesOwe' = CyclesOwe
    BY DEF CyclesOwe, RecurringIds
  <1>4. sender \in Holders /\ sender # Escrow /\ Escrow \in Holders
    BY HoldersApart
  <1>5. balance' \in [Holders -> Nat] /\ balance'[Escrow] = balance[Escrow] + total
    BY <1>1, <1>4, OwedTypes, TokenMoved
  <1> QED  BY <1>1, <1>2, <1>3, <1>5, OwedTypes DEF Balanced

LEMMA SplitWithdrawalBalances ==
    ASSUME SolventInv, UNCHANGED recurring,
           NEW id \in SplitIds, NEW who \in Accounts, NEW amount \in Draws,
           withdraw_split(id, who, amount)
    PROVE  Balanced
  <1>1. /\ amount \in Nat /\ balance[Escrow] >= amount
        /\ balance' = Moved(balance, Escrow, who, amount)
    BY LedgerAssumption DEF withdraw_split
  <1>2. SplitsOwe' = SplitsOwe - amount
    BY WithdrawsSplit, OwedTypes
  <1>3. CyclesOwe' = CyclesOwe
    BY DEF CyclesOwe, RecurringIds
  <1>4. who \in Holders /\ who # Escrow /\ Escrow \in Holders
    BY HoldersApart
  <1>5. balance' \in [Holders -> Nat] /\ balance'[Escrow] = balance[Escrow] - amount
    BY <1>1, <1>4, OwedTypes, TokenMoved
  <1> QED  BY <1>1, <1>2, <1>3, <1>5, OwedTypes DEF Balanced

(* What one account gets of a cancelled split is never negative.           *)
LEMMA UnpaidToType ==
    ASSUME NEW s, SplitRowOK(s), now \in Nat, SumsOK(s), SharesOK(s, now), NEW who
    PROVE  UnpaidTo(s, who) \in Nat
  <1> DEFINE n == Len(s.recipients)
             v == [i \in DOMAIN s.recipients |->
                     IF s.recipients[i].recipient = who THEN Unpaid(s, i) ELSE 0]
  <1>1. n \in Nat /\ DOMAIN s.recipients = 1..n
    BY Roster
  <1>2. ASSUME NEW i \in 1..n
        PROVE  v[i] \in Nat
    <2>1. recipient_vested(s, now, i) \in Nat /\ s.recipients[i].released_amount \in Nat
      BY <1>1, Roster, ShareMonotone
    <2>2. Unpaid(s, i) \in Nat
      BY <2>1 DEF Unpaid, Larger
    <2> QED  BY <1>1, <2>2
  <1>3. UnpaidTo(s, who) = SumUpTo(v, n)
    BY DEF UnpaidTo
  <1> HIDE DEF n, v
  <1> QED  BY <1>1, <1>2, <1>3, SumOfNaturals

LEMMA SplitCancellationBalances ==
    ASSUME SolventInv, UNCHANGED recurring, NEW id \in SplitIds, cancel_split_stream(id)
    PROVE  Balanced
  <1> DEFINE s == splits[id]
             unpaid == UnpaidTotal(s)
             refund == SenderRefund(s)
  <1>1. SplitRowOK(s) /\ SumsOK(s) /\ SharesOK(s, now) /\ now \in Nat
    BY OwedTypes DEF SplitInv
  <1>2. /\ balance[Escrow] >= unpaid + Larger(0, refund)
        /\ balance' = [h \in Holders |->
             IF h = Escrow THEN balance[h] - unpaid - Larger(0, refund)
             ELSE balance[h] + UnpaidTo(s, h) + (IF h = s.sender THEN Larger(0, refund) ELSE 0)]
    BY DEF cancel_split_stream
  <1>3. /\ unpaid \in Nat /\ refund \in Nat
        /\ unpaid + refund = s.total_amount - s.total_released
    BY <1>1, CancellationPays
  <1>4. /\ SplitsOwe' = SplitsOwe - (s.total_amount - s.total_released)
        /\ CyclesOwe' = CyclesOwe
    BY CancelsSplit, OwedTypes DEF CyclesOwe, RecurringIds
  <1>5. ASSUME NEW h \in Holders PROVE UnpaidTo(s, h) \in Nat
    BY <1>1, UnpaidToType
  <1> HIDE DEF s, unpaid, refund
  <1>6. Larger(0, refund) = refund
    BY <1>3 DEF Larger
  <1>7. ASSUME NEW h \in Holders
        PROVE  balance'[h] \in Nat /\ (h = Escrow => balance'[h] = balance[h] - unpaid - refund)
    <2>1. balance[h] \in Nat
      BY OwedTypes
    <2> QED  BY <1>2, <1>3, <1>5, <1>6, <2>1
  <1>8. balance' \in [Holders -> Nat]
    BY <1>2, <1>7
  <1>9. balance'[Escrow] = balance[Escrow] - unpaid - refund
    BY <1>7, HoldersApart
  <1>10. s.total_amount - s.total_released \in Int
    BY <1>3
  <1> QED  BY <1>3, <1>4, <1>8, <1>9, <1>10, OwedTypes DEF Balanced

LEMMA CyclesCreationBalances ==
    ASSUME SolventInv, UNCHANGED splits,
           NEW sender \in Payers, NEW recipient \in Payees, NEW amount \in CycleAmounts,
           NEW duration \in CycleDurations, NEW cycles \in CycleCounts,
           NEW start \in CycleStarts, NEW bps \in CycleFees,
           create_recurring_stream(sender, recipient, amount, duration, cycles, start, bps)
    PROVE  Balanced
  <1> DEFINE total == amount * cycles
  <1>1. total \in Nat
    BY RecurringAssumption, SMTT(30)
  <1>2. balance[sender] >= total /\ balance' = Moved(balance, sender, Escrow, total)
    BY DEF create_recurring_stream
  <1>3. CyclesOwe' = CyclesOwe + total
    BY CreatesRecurring, OwedTypes
  <1>4. SplitsOwe' = SplitsOwe
    BY DEF SplitsOwe, SplitIds
  <1>5. sender \in Holders /\ sender # Escrow /\ Escrow \in Holders
    BY HoldersApart
  <1> HIDE DEF total
  <1>6. balance' \in [Holders -> Nat] /\ balance'[Escrow] = balance[Escrow] + total
    BY <1>1, <1>2, <1>5, OwedTypes, TokenMoved
  <1> QED  BY <1>1, <1>3, <1>4, <1>6, OwedTypes DEF Balanced

LEMMA ProcessingBalances ==
    ASSUME SolventInv, UNCHANGED splits, NEW id \in RecurringIds, process(id)
    PROVE  Balanced
  <1>1. balance' = balance /\ CyclesOwe' = CyclesOwe
    <2>1. RecurringInv /\ now \in Nat /\ CyclesOwe \in Int
      BY OwedTypes
    <2> QED  BY <2>1, Processes DEF process, ledger
  <1>2. SplitsOwe' = SplitsOwe
    BY DEF SplitsOwe, SplitIds
  <1> QED  BY <1>1, <1>2, OwedTypes DEF Balanced

(* The fee is part of the amount, whoever collects it.                     *)
LEMMA CyclesWithdrawalBalances ==
    ASSUME SolventInv, UNCHANGED splits, NEW id \in RecurringIds, NEW amount \in Draws,
           withdraw_recurring(id, amount)
    PROVE  Balanced
  <1> DEFINE r == recurring[id]
             fee == FeeAmount(amount, r.fee_bps)
             net == Moved(balance, Escrow, r.recipient, amount - fee)
             payee == IF config.collector = None THEN r.recipient ELSE config.collector
  <1>1. r.recipient \in Accounts /\ r.fee_bps \in 0..MAX_FEE_BPS
    <2>1. r \in RecurringRow
      BY OwedTypes DEF RecurringInv, RecurringIds
    <2> HIDE DEF r
    <2> QED  BY <2>1 DEF RecurringRow
  <1>2. /\ amount \in Nat /\ balance[Escrow] >= amount
        /\ balance' = Moved(net, Escrow, payee, fee)
    BY LedgerAssumption DEF withdraw_recurring
  <1>3. fee \in Nat /\ amount - fee \in Nat
    BY <1>1, <1>2, FeeBounds
  <1>4. payee \in Accounts
    BY <1>1, OwedTypes, HoldersApart
  <1>5. CyclesOwe' = CyclesOwe - amount
    BY WithdrawsRecurring, OwedTypes
  <1>6. SplitsOwe' = SplitsOwe
    BY DEF SplitsOwe, SplitIds
  <1> HIDE DEF fee, payee, r
  <1>7. /\ net \in [Holders -> Nat] /\ net[Escrow] = balance[Escrow] - (amount - fee)
    BY <1>1, <1>2, <1>3, OwedTypes, HoldersApart, TokenMoved
  <1> HIDE DEF net
  <1>8. balance' \in [Holders -> Nat] /\ balance'[Escrow] = net[Escrow] - fee
    <2>1. net[Escrow] >= fee
      BY <1>2, <1>3, <1>7, OwedTypes
    <2> QED  BY <1>2, <1>3, <1>4, <1>7, <2>1, HoldersApart, TokenMoved
  <1> QED  BY <1>2, <1>3, <1>5, <1>6, <1>7, <1>8, OwedTypes DEF Balanced

LEMMA CyclesCancellationBalances ==
    ASSUME SolventInv, UNCHANGED splits, NEW id \in RecurringIds, cancel_recurring_stream(id)
    PROVE  Balanced
  <1> DEFINE r == recurring[id]
             remaining == Deposit(r) - r.withdrawn_amount
             refund == Smaller(Unvested(r), remaining)
             refunded == Moved(balance, Escrow, r.sender, refund)
  <1>1. /\ r \in RecurringRow /\ CyclesOK(r, now) /\ now \in Nat /\ r.status # "Cancelled"
        /\ r.sender \in Accounts /\ r.recipient \in Accounts
    <2>1. r \in RecurringRow /\ CyclesOK(r, now)
      BY OwedTypes DEF RecurringInv, RecurringIds
    <2>2. r.status # "Cancelled"
      BY DEF cancel_recurring_stream
    <2> HIDE DEF r
    <2> QED  BY <2>1, <2>2, OwedTypes DEF RecurringRow
  <1>2. /\ balance[Escrow] >= remaining
        /\ balance' = Moved(refunded, Escrow, r.recipient, remaining - refund)
    BY DEF cancel_recurring_stream
  <1>3. remaining \in Nat
    BY <1>1, CyclesLeft DEF RecurringOwes
  <1>4. refund \in Nat /\ remaining - refund \in Nat
    <2>1. Unvested(r) \in Nat
      <3>1. /\ vested_cycles(r, now) = CyclesDue(r, now)
            /\ r.amount_per_cycle * CyclesDue(r, now) \in Nat /\ Deposit(r) \in Nat
            /\ r.amount_per_cycle * CyclesDue(r, now) <= Deposit(r)
        BY <1>1, OpenVestsByClock, CyclesDueBounds
      <3> QED  BY <3>1 DEF Unvested
    <2> HIDE DEF remaining
    <2> QED  BY <1>3, <2>1 DEF Smaller
  <1>5. CyclesOwe' = CyclesOwe - remaining
    BY CancelsRecurring, OwedTypes
  <1>6. SplitsOwe' = SplitsOwe
    BY DEF SplitsOwe, SplitIds
  <1> HIDE DEF r, remaining, refund
  <1>7. refunded \in [Holders -> Nat] /\ refunded[Escrow] = balance[Escrow] - refund
    <2>1. balance[Escrow] >= refund
      BY <1>2, <1>3, <1>4, OwedTypes
    <2> QED  BY <1>1, <1>4, <2>1, OwedTypes, HoldersApart, TokenMoved
  <1> HIDE DEF refunded
  <1>8. balance' \in [Holders -> Nat] /\ balance'[Escrow] = refunded[Escrow] - (remaining - refund)
    <2>1. refunded[Escrow] >= remaining - refund
      BY <1>2, <1>3, <1>4, <1>7, OwedTypes
    <2> QED  BY <1>1, <1>2, <1>4, <1>7, <2>1, HoldersApart, TokenMoved
  <1> QED  BY <1>3, <1>4, <1>5, <1>6, <1>7, <1>8, OwedTypes DEF Balanced

LEMMA CallsBalance ==
    ASSUME SolventInv, [Next]_vars
    PROVE  Balanced
  <1>1. CASE (Tick \/ Configure) /\ UNCHANGED <<splits, recurring>>
    <2>1. balance' = balance /\ SplitsOwe' = SplitsOwe /\ CyclesOwe' = CyclesOwe
      BY <1>1 DEF Tick, Configure, SplitsOwe, SplitIds, CyclesOwe, RecurringIds
    <2> QED  BY <2>1, OwedTypes DEF Balanced
  <1>2. CASE SplitNext /\ UNCHANGED recurring
    BY <1>2, SplitCreationBalances, SplitWithdrawalBalances, SplitCancellationBalances, Zenon
    DEF SplitNext
  <1>3. CASE RecurringNext /\ UNCHANGED splits
    BY <1>3, CyclesCreationBalances, ProcessingBalances, CyclesWithdrawalBalances,
       CyclesCancellationBalances, Zenon
    DEF RecurringNext
  <1>4. CASE UNCHANGED vars
    <2>1. balance' = balance /\ SplitsOwe' = SplitsOwe /\ CyclesOwe' = CyclesOwe
      BY <1>4 DEF vars, ledger, SplitsOwe, SplitIds, CyclesOwe, RecurringIds
    <2> QED  BY <2>1, OwedTypes DEF Balanced
  <1> QED  BY <1>1, <1>2, <1>3, <1>4 DEF Next

LEMMA SettingsStayTyped ==
    ASSUME LedgerTypeOK, [Next]_vars
    PROVE  /\ now' \in 0..MaxTime
           /\ config' \in [paused : BOOLEAN, blocked : BOOLEAN, collector : Collectors \cup {None}]
  <1>1. CASE (Tick \/ Configure) /\ UNCHANGED <<splits, recurring>>
    BY <1>1, LedgerAssumption DEF Tick, Configure, LedgerTypeOK
  <1>2. CASE SplitNext /\ UNCHANGED recurring
    <2>1. now' = now /\ config' = config
      BY <1>2, SplitsKeepTime
    <2> QED  BY <2>1 DEF LedgerTypeOK
  <1>3. CASE RecurringNext /\ UNCHANGED splits
    <2>1. now' = now /\ config' = config
      BY <1>3, CyclesKeepTime
    <2> QED  BY <2>1 DEF LedgerTypeOK
  <1>4. CASE UNCHANGED vars
    BY <1>4 DEF vars, ledger, LedgerTypeOK
  <1> QED  BY <1>1, <1>2, <1>3, <1>4 DEF Next

LEMMA SolventInvariant == Spec => []SolventInv
  <1>1. Init => SolventInv
    <2> SUFFICES ASSUME Init PROVE SolventInv
      OBVIOUS
    <2>1. /\ now = 0 /\ splits = <<>> /\ recurring = <<>>
          /\ config = [paused |-> FALSE, blocked |-> FALSE, collector |-> None]
          /\ balance = [h \in Holders |-> IF h = Escrow THEN 0 ELSE Funding]
      BY DEF Init, LedgerInit, SplitInit, RecurringInit
    <2>2. LedgerTypeOK
      BY <2>1, LedgerAssumption DEF LedgerTypeOK
    <2>3. ProgramsInv
      BY ProgramsAtFirst
    <2>4. SplitsOwe = 0 /\ CyclesOwe = 0
      BY <2>1, SumOfNone DEF SplitsOwe, CyclesOwe
    <2>5. balance[Escrow] = 0
      BY <2>1, HoldersApart
    <2> QED  BY <2>2, <2>3, <2>4, <2>5 DEF SolventInv, ProgramsSolvent
  <1>2. SolventInv /\ [Next]_vars => SolventInv'
    <2> SUFFICES ASSUME SolventInv, [Next]_vars PROVE SolventInv'
      OBVIOUS
    <2>1. ProgramsInv'
      BY RecurringStep, SplitStep DEF SolventInv, ProgramsInv
    <2>2. Balanced
      BY CallsBalance
    <2>3. LedgerTypeOK'
      BY <2>2, SettingsStayTyped DEF SolventInv, LedgerTypeOK, Balanced
    <2>4. balance'[Escrow] \in Nat
      BY <2>2, HoldersApart DEF Balanced
    <2>5. balance'[Escrow] = SplitsOwe' + CyclesOwe'
      BY <2>2, <2>4, OwedTypes DEF Balanced
    <2> QED  BY <2>1, <2>3, <2>5 DEF SolventInv, ProgramsSolvent
  <1> QED  BY <1>1, <1>2, PTL DEF Spec

(* multi.rs, recurring.rs: the token balance of the contract is exactly    *)
(* what its open split and recurring streams have not paid out, for any    *)
(* number of them, after any sequence of calls.                            *)
THEOREM ProgramsAreSolvent == Spec => []ProgramsSolvent
  <1>1. SolventInv => ProgramsSolvent
    BY DEF SolventInv
  <1> QED  BY <1>1, SolventInvariant, PTL

LEMMA CancellationFits ==
    ASSUME SolventInv, NEW id \in SplitIds,
           splits[id].status = "Active",
           splits[id].total_amount * (splits[id].end_time - splits[id].start_time) <= I128Max,
           splits[id].total_amount * splits[id].total_weight <= I128Max
    PROVE  /\ \A i \in DOMAIN splits[id].recipients : SplitMathOK(splits[id], now, i)
           /\ SenderRefund(splits[id]) >= 0
           /\ balance[Escrow] >= splits[id].total_amount - splits[id].total_released
  <1> DEFINE s == splits[id]
             n == Len(s.recipients)
             a == s.total_amount
             d == s.end_time - s.start_time
             w == s.total_weight
             vested == split_vested_amount(s, now)
  <1>1. SplitRowOK(s) /\ SumsOK(s) /\ SharesOK(s, now) /\ now \in Nat
    BY OwedTypes DEF SplitInv
  <1>2. /\ a \in Nat /\ d \in Nat /\ w \in Nat /\ vested \in 0..a /\ Ran(s, now) \in 0..d
        /\ n \in Nat /\ DOMAIN s.recipients = 1..n
    <2>1. a \in Nat /\ d \in Nat /\ w \in Nat
      BY <1>1, SplitFieldTypes
    <2>2. vested \in 0..a /\ Ran(s, now) \in 0..d
      BY <1>1, SplitVestedBounds
    <2> QED  BY <1>1, <2>1, <2>2, Roster, Zenon
  <1>3. a * d <= I128Max /\ a * w <= I128Max /\ I128Max \in Nat
    BY WidthAssumption
  <1>4. ASSUME NEW i \in 1..n
        PROVE  s.recipients[i].weight \in Nat /\ s.recipients[i].weight <= w
    <2>1. \A j \in 1..n : Weights(s)[j] = s.recipients[j].weight /\ Weights(s)[j] \in Nat
      BY <1>1, <1>2, Roster DEF Weights
    <2>2. w = SumUpTo(Weights(s), n)
      BY <1>1 DEF SumsOK
    <2> HIDE DEF n, w, s
    <2> QED  BY <1>2, <2>1, <2>2, SumOfNaturals
  <1>5. ASSUME NEW i \in 1..n
        PROVE  SplitMathOK(s, now, i)
    <2> DEFINE e == Ran(s, now)
               part == s.recipients[i].weight
    <2>1. part \in Nat /\ part <= w
      BY <1>4
    <2>2. e \in Nat /\ e <= d
      BY <1>2
    <2>3. SplitMathOK(s, now, i) <=> a * e <= I128Max /\ vested * part <= I128Max
      BY DEF SplitMathOK, Ran
    <2> HIDE DEF s, n, a, d, w, vested, e, part
    <2>4. a * e <= a * d /\ a * e \in Nat /\ a * d \in Nat
      BY <1>2, <2>2, ProductMonotone, SMTT(30)
    <2>5. /\ part * vested <= part * a /\ a * part <= a * w
      BY <1>2, <2>1, ProductMonotone
    <2>6. /\ part * vested = vested * part /\ part * a = a * part
          /\ vested * part \in Nat /\ a * part \in Nat /\ a * w \in Nat
      BY <1>2, <2>1, SMTT(30)
    <2> QED  BY <1>3, <2>3, <2>4, <2>5, <2>6
  <1>6. SenderRefund(s) >= 0
    BY <1>1, CancellationPays
  <1>7. balance[Escrow] >= s.total_amount - s.total_released
    <2>1. /\ SplitOwes(s) = s.total_amount - s.total_released
          /\ SplitOwes(s) \in Nat /\ SplitOwes(s) <= SplitsOwe
      BY <1>1, OwedTypes, SplitLeft, SplitsOweType
    <2> QED  BY <2>1, OwedTypes
  <1> QED  BY <1>2, <1>5, <1>6, <1>7

(* multi.rs: a split stream whose two products fit the integer width can   *)
(* always be cancelled, at any time and after any withdrawals: neither     *)
(* product overflows, the refund is not negative, and the contract holds   *)
(* the money.                                                              *)
THEOREM SplitsHaveAWayOut == Spec => []SplitCanBeCancelled
  <1>1. SolventInv => SplitCanBeCancelled
    BY CancellationFits DEF SplitCanBeCancelled
  <1> QED  BY <1>1, SolventInvariant, PTL
=============================================================================
