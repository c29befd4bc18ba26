------------------------------ MODULE MCIndexer ------------------------------
(* Indexer on three ledgers, the first with two events. *)
EXTENDS Indexer

CONSTANTS l1, l2

MCLoops == {l1, l2}
MCLedgerOf == <<1, 1, 2, 3>>
=============================================================================
