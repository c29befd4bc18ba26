--------------------------- MODULE EscrowPrograms ---------------------------
(***************************************************************************)
(* Split and recurring streams in one contract: their rows are apart, and  *)
(* their deposits are one token balance.                                   *)
(***************************************************************************)
EXTENDS SplitStream, RecurringStream

vars == <<ledger, splits, recurring>>

Init == LedgerInit /\ SplitInit /\ RecurringInit

Next ==
    \/ (Tick \/ Configure) /\ UNCHANGED <<splits, recurring>>
    \/ SplitNext /\ UNCHANGED recurring
    \/ RecurringNext /\ UNCHANGED splits

Spec == Init /\ [][Next]_vars

-----------------------------------------------------------------------------
TypeOK == LedgerTypeOK /\ SplitTypeOK /\ RecurringTypeOK

(* What the open programs of either kind have not paid out. *)
SplitOwes(s) == IF s.status = "Active" THEN s.total_amount - s.total_released ELSE 0
RecurringOwes(r) == IF r.status = "Cancelled" THEN 0 ELSE Deposit(r) - r.withdrawn_amount

SplitsOwe == SumUpTo([id \in SplitIds |-> SplitOwes(splits[id])], Len(splits))
CyclesOwe == SumUpTo([id \in RecurringIds |-> RecurringOwes(recurring[id])], Len(recurring))

(* The contract holds exactly what its open programs have not paid out, so *)
(* every one of them can be cancelled or drawn down, in any order, without *)
(* touching the deposit of another; a closed program leaves nothing.       *)
ProgramsSolvent == balance[Escrow] = SplitsOwe + CyclesOwe
=============================================================================
