-------------------------- MODULE MCStreamContract --------------------------
(***************************************************************************)
(* Model checking of StreamContract, and a claim of the documents that the *)
(* contract does not meet.                                                 *)
(***************************************************************************)
EXTENDS StreamContract, TLC

CONSTANTS a1, a2, a3

(* The accounts that no configuration call names are interchangeable. *)
AccountSymmetry == Permutations(Accounts \ (Governors \cup Delegates \cup Collectors))

-----------------------------------------------------------------------------
(* A claim of a document that the contract does not meet                   *)

(* docs/invariants.md: "A withdrawal or refund can never exceed the        *)
(* current escrow balance" of the stream.  TLC refutes it: cancel_stream   *)
(* refunds total_amount - vested although an amendment has brought vested  *)
(* below released_amount.                                                  *)
RefundWithinEscrow == \A id \in Ids : held[id] >= 0
=============================================================================
