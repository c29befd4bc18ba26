-------------------------- MODULE RecurringStream --------------------------
(***************************************************************************)
(* recurring.rs: a deposit of total_cycles times amount_per_cycle, of      *)
(* which one cycle's amount is due after each cycle_duration.  Anybody may *)
(* call process as a keeper; no entrypoint pauses a recurring stream, so a *)
(* row is Active, Ended or Cancelled.                                      *)
(*                                                                         *)
(* A definition named Mutant... is a faulty form of the one it precedes.   *)
(***************************************************************************)
EXTENDS ProgramLedger, Sequences

CONSTANTS
    MaxRecurring,       \* bound: recurring streams created
    CycleAmounts, CycleDurations, CycleCounts, CycleStarts, CycleFees

ASSUME RecurringAssumption ==
    /\ MaxRecurring \in Nat
    /\ CycleAmounts \subseteq Nat /\ CycleDurations \subseteq Nat
    /\ CycleCounts \subseteq Nat /\ CycleStarts \subseteq 0..U64Max
    /\ CycleFees \subseteq Nat

VARIABLES
    recurring   \* the rows, in the order of their ids

RecurringIds == DOMAIN recurring

(* The cycles that the clock alone says are due at t. *)
CyclesDue(r, t) ==
    Smaller(SaturatingSub(Larger(r.start_time, t), r.start_time)
              \div r.cycle_duration,
            r.total_cycles)

vested_cycles(r, t) == IF r.status = "Active" THEN CyclesDue(r, t)
                                              ELSE r.cycles_completed

withdrawable_recurring(r, t) ==
    Larger(0, r.amount_per_cycle * vested_cycles(r, t) - r.withdrawn_amount)

Deposit(r) == r.amount_per_cycle * r.total_cycles

create_recurring_stream(sender, recipient, amount, duration, cycles, start, bps) ==
    /\ Len(recurring) < MaxRecurring
    /\ ~config.paused /\ ~config.blocked
    /\ bps <= MAX_FEE_BPS
    /\ amount > 0 /\ cycles > 0 /\ duration > 0
    /\ sender # recipient
    /\ start >= now
    /\ amount * cycles <= I128Max
    /\ balance[sender] >= amount * cycles
    /\ balance' = Moved(balance, sender, Escrow, amount * cycles)
    /\ recurring' = Append(recurring,
         [ status |-> "Active", sender |-> sender, recipient |-> recipient,
           amount_per_cycle |-> amount, cycle_duration |-> duration,
           total_cycles |-> cycles, cycles_completed |-> 0,
           withdrawn_amount |-> 0, start_time |-> start,
           last_processed_time |-> 0, fee_bps |-> bps ])
    /\ UNCHANGED <<now, config>>

MutantProcessEndsEarly(id) ==
    /\ recurring[id].status = "Active"
    /\ recurring' = [recurring EXCEPT
         ![id].cycles_completed = Larger(@, vested_cycles(recurring[id], now)),
         ![id].last_processed_time = now,
         ![id].status = IF vested_cycles(recurring[id], now) + 1 >= recurring[id].total_cycles
                        THEN "Ended" ELSE @]
    /\ UNCHANGED ledger

process(id) ==
    LET r    == recurring[id]
        done == Larger(r.cycles_completed, vested_cycles(r, now))
    IN  /\ r.status = "Active"
        /\ recurring' = [recurring EXCEPT ![id] =
             [r EXCEPT !.cycles_completed = done,
                       !.last_processed_time = now,
                       !.status = IF done >= r.total_cycles THEN "Ended" ELSE @]]
        /\ UNCHANGED ledger

withdraw_recurring(id, amount) ==
    LET r   == recurring[id]
        fee == FeeAmount(amount, r.fee_bps)
        net == Moved(balance, Escrow, r.recipient, amount - fee)
        payee == IF config.collector = None THEN r.recipient ELSE config.collector
    IN  /\ ~config.paused
        /\ amount > 0
        /\ r.status # "Cancelled"
        /\ amount <= withdrawable_recurring(r, now)
        /\ FeeOK(amount, r.fee_bps)
        /\ balance[Escrow] >= amount
        /\ balance' = Moved(net, Escrow, payee, fee)
        /\ recurring' = [recurring EXCEPT ![id].withdrawn_amount = @ + amount,
                                          ![id].last_processed_time = now]
        /\ UNCHANGED <<now, config>>

Unvested(r) == Deposit(r) - r.amount_per_cycle * vested_cycles(r, now)

(* The top-up carries no fee. *)
cancel_recurring_stream(id) ==
    LET r         == recurring[id]
        remaining == Deposit(r) - r.withdrawn_amount
        refund    == Smaller(Unvested(r), remaining)
        refunded  == Moved(balance, Escrow, r.sender, refund)
    IN  /\ r.status # "Cancelled"
        /\ balance[Escrow] >= remaining
        /\ balance' = Moved(refunded, Escrow, r.recipient, remaining - refund)
        /\ recurring' = [recurring EXCEPT
             ![id].status = "Cancelled",
             ![id].withdrawn_amount = @ + remaining - refund,
             ![id].last_processed_time = now]
        /\ UNCHANGED <<now, config>>

RecurringInit == recurring = <<>>

RecurringNext ==
    \/ \E sender \in Payers, recipient \in Payees, amount \in CycleAmounts,
          duration \in CycleDurations, cycles \in CycleCounts,
          start \in CycleStarts, bps \in CycleFees :
         create_recurring_stream(sender, recipient, amount, duration, cycles, start, bps)
    \/ \E id \in RecurringIds :
         \/ process(id)
         \/ \E amount \in Draws : withdraw_recurring(id, amount)
         \/ cancel_recurring_stream(id)

-----------------------------------------------------------------------------
RecurringTypeOK ==
    /\ recurring \in Seq(
         [ status : {"Active", "Ended", "Cancelled"},
           sender : Accounts, recipient : Accounts,
           amount_per_cycle : Nat \ {0}, cycle_duration : Nat \ {0},
           total_cycles : Nat \ {0}, cycles_completed : Nat,
           withdrawn_amount : Nat, start_time : Nat,
           last_processed_time : Nat, fee_bps : 0..MAX_FEE_BPS ])
    /\ Len(recurring) <= MaxRecurring
    /\ \A id \in RecurringIds :
         LET r == recurring[id]
         IN  /\ r.sender # r.recipient
             /\ r.withdrawn_amount <= Deposit(r)
             /\ r.cycles_completed <= CyclesDue(r, now)
             /\ r.last_processed_time <= now

(* What a recipient has taken and may still take is decided by the clock    *)
(* alone: whether a keeper called process late, often or never changes      *)
(* nothing, and after a cancellation the recipient has been paid exactly    *)
(* the cycles that were due at that moment.                                 *)
PayoutFollowsClock ==
    \A id \in RecurringIds :
      LET r == recurring[id]
      IN  IF r.status = "Cancelled"
          THEN r.withdrawn_amount
                 = r.amount_per_cycle * CyclesDue(r, r.last_processed_time)
          ELSE r.withdrawn_amount + withdrawable_recurring(r, now)
                 = r.amount_per_cycle * CyclesDue(r, now)
=============================================================================
