------------------------------ MODULE Accrual ------------------------------
(***************************************************************************)
(* The pure arithmetic of the escrow contract: the linear release schedule *)
(* of release.rs and the fee split of fees.rs.  A stream is a record with  *)
(* at least the fields status, total_amount, released_amount, start_time,  *)
(* end_time, duration, paused_at and total_paused_duration.                *)
(*                                                                         *)
(* Amounts are i128 and times u64 in the code.  Both widths are constants: *)
(* a checked operation whose exact result does not fit returns an error,   *)
(* which here is an ...OK guard that is FALSE.                             *)
(*                                                                         *)
(* A definition named Mutant... is a faulty form of the one it precedes.   *)
(* The specification never uses it: it shows that a property can fail.     *)
(***************************************************************************)
EXTENDS Integers

CONSTANTS
    I128Max,    \* largest amount the contract's arithmetic can represent
    U64Max      \* largest ledger timestamp

ASSUME WidthAssumption == I128Max \in Nat /\ U64Max \in Nat

MAX_FEE_BPS == 10000        \* 100 % in basis points; also the divisor

Smaller(a, b) == IF a <= b THEN a ELSE b
Larger(a, b)  == IF a >= b THEN a ELSE b

(* u64::saturating_sub *)
SaturatingSub(a, b) == IF a >= b THEN a - b ELSE 0

-----------------------------------------------------------------------------
(* The instant the schedule has reached: now clamped to the stream's       *)
(* window, and frozen at paused_at while the stream is paused.             *)
MutantRunsWhilePaused(s, now) == Larger(s.start_time, Smaller(now, s.end_time))

EffectiveNow(s, now) ==
    LET clamped == Larger(s.start_time, Smaller(now, s.end_time))
    IN  IF s.status = "Paused" THEN Smaller(clamped, s.paused_at) ELSE clamped

(* Seconds of accrual so far; time spent paused does not count. *)
Elapsed(s, now) ==
    SaturatingSub(SaturatingSub(EffectiveNow(s, now), s.start_time),
                  s.total_paused_duration)

(* The part of amount released after elapsed of duration seconds: linear,  *)
(* rounded down, and all of it once the duration has passed.               *)
Portion(amount, elapsed, duration) ==
    IF elapsed >= duration THEN amount ELSE (amount * elapsed) \div duration

(* vested_amount returns Ok: its only checked product fits an i128. *)
VestedAmountOK(s, now) ==
    \/ s.status = "Draft"
    \/ Elapsed(s, now) >= s.duration
    \/ s.total_amount * Elapsed(s, now) <= I128Max

vested_amount(s, now) ==
    IF s.status = "Draft" THEN 0
    ELSE Portion(s.total_amount, Elapsed(s, now), s.duration)

withdrawable(s, now) == Larger(0, vested_amount(s, now) - s.released_amount)

-----------------------------------------------------------------------------
(* apply_fee: floor(amount * bps / 10 000), with its overflow guard. *)
FeeOK(amount, bps) == bps = 0 \/ amount * bps <= I128Max
FeeAmount(amount, bps) == (amount * bps) \div MAX_FEE_BPS
=============================================================================
