-------------------------- MODULE WithdrawFinality --------------------------
(***************************************************************************)
(* app/lib/withdraw-finality.ts as the withdraw route calls it: every      *)
(* accepted withdrawal of an ended stream pays something out and then      *)
(* looks for the settlement transaction on Horizon, page by page from the  *)
(* newest to the oldest, starting where the poll before left its cursor.   *)
(* The route holds the stream's lock, so polls do not overlap; Horizon     *)
(* moves on between two requests of one poll.                              *)
(*                                                                         *)
(* A position in history is a paging token.  The clock is reduced to aged: *)
(* whether FINALITY_STALL_THRESHOLD_MS has passed since the first poll.    *)
(*                                                                         *)
(* A definition named Mutant... is a faulty form of the one it precedes.   *)
(***************************************************************************)
EXTENDS Integers, Sequences, FiniteSets

CONSTANTS
    MIN_CONFIRMATION_DEPTH, MAX_ATTEMPTS, PAGE_LIMIT, PAGE_SCAN_LIMIT,
    HasHash,        \* whether the stream has a settlement transaction hash
    Balance,        \* bound: what an ended stream can pay out, so its polls
    MaxTxs,         \* bound: transactions of the account
    MaxLedger       \* bound: ledgers closed

ASSUME FinalityAssumption ==
    /\ MIN_CONFIRMATION_DEPTH \in Nat /\ MAX_ATTEMPTS \in Nat \ {0}
    /\ PAGE_LIMIT \in Nat \ {0} /\ PAGE_SCAN_LIMIT \in Nat \ {0}
    /\ HasHash \subseteq BOOLEAN
    /\ Balance \in Nat /\ MaxTxs \in Nat /\ MaxLedger \in Nat \ {0}

VARIABLES
    history,    \* the account's transactions on Horizon, oldest first
    ledger,     \* sequence of the newest ledger
    aged,
    hash,       \* the row has settlementTxHash
    status,     \* of the stream: ended or withdrawn
    withdrawal, \* the row's WithdrawalStatus
    due,        \* vested and not yet released
    poll,       \* the evaluation in flight
    early       \* history: where the transaction was when polling began, or 0

vars == <<history, ledger, aged, hash, status, withdrawal, due, poll, early>>
horizon == <<history, ledger, aged>>

NoCursor == 0
Tx(ours, successful) == [ours |-> ours, successful |-> successful, ledger |-> ledger]

Unasked == [ state |-> "none", attempts |-> 0, cursor |-> NoCursor,
             confirmed |-> FALSE, failure |-> "none" ]
Idle == [pc |-> "idle", page |-> 0, cursor |-> NoCursor, txLedger |-> 0]

Init ==
    /\ history = <<>> /\ ledger = 1 /\ aged = FALSE
    /\ hash \in HasHash
    /\ status = "ended" /\ withdrawal = Unasked /\ due = Balance
    /\ poll = Idle /\ early = 0

(* Where the settlement transaction is, if it went through; 0 otherwise. *)
Ours == IF \E p \in DOMAIN history : history[p].ours /\ history[p].successful
        THEN CHOOSE p \in DOMAIN history : history[p].ours /\ history[p].successful
        ELSE 0

-----------------------------------------------------------------------------
(* Horizon *)

TxIncluded ==
    /\ Len(history) < MaxTxs
    /\ \E ours, successful \in BOOLEAN :
         /\ ours => ~\E p \in DOMAIN history : history[p].ours
         /\ ~ours => successful
         /\ history' = Append(history, Tx(ours, successful))
    /\ UNCHANGED <<ledger, aged, hash, status, withdrawal, due, poll, early>>

LedgerCloses ==
    /\ ledger < MaxLedger
    /\ ledger' = ledger + 1
    /\ UNCHANGED <<history, aged, hash, status, withdrawal, due, poll, early>>

Ages ==
    /\ ~aged /\ withdrawal.attempts > 0
    /\ aged' = TRUE
    /\ UNCHANGED <<history, ledger, hash, status, withdrawal, due, poll, early>>

(* One page, newest first: the positions below the cursor. *)
Page(cursor) ==
    LET below == {p \in DOMAIN history : cursor = NoCursor \/ p < cursor}
    IN  {p \in below : Cardinality({q \in below : q > p}) < PAGE_LIMIT}

(* The link to the next page: the last record, or the page asked for again *)
(* when there is none (getNextCursorFromHref).                             *)
NextCursor(cursor) ==
    IF Page(cursor) = {} THEN cursor
    ELSE CHOOSE p \in Page(cursor) : \A q \in Page(cursor) : p <= q

-----------------------------------------------------------------------------
(* A poll *)

Verdict(state, failure) ==
    [ state |-> state, attempts |-> withdrawal.attempts + 1,
      cursor |-> IF poll.cursor = NoCursor THEN withdrawal.cursor ELSE poll.cursor,
      confirmed |-> FALSE, failure |-> failure ]

(* The row is stored with the payout before Horizon is asked. *)
HasBalance(amount) == amount > 0 /\ amount <= due

withdraw(amount) ==
    /\ poll = Idle
    /\ status = "ended"
    /\ HasBalance(amount)
    /\ due' = due - amount
    /\ early' = IF withdrawal.attempts = 0 THEN Ours ELSE early
    /\ IF hash
       THEN /\ poll' = [Idle EXCEPT !.pc = "page", !.page = 1,
                                    !.cursor = withdrawal.cursor]
            /\ UNCHANGED withdrawal
       ELSE /\ withdrawal' = Verdict("failed", "SETTLEMENT_TX_MISSING")
            /\ UNCHANGED poll
    /\ UNCHANGED <<history, ledger, aged, hash, status>>

MutantMatches(p) == history[p].ours
Matches(p) == history[p].ours /\ history[p].successful

MutantScanned(cursor) == NextCursor(cursor)
Scanned(cursor) == cursor

(* findTransactionWithPagination, one request: the page fails, has the      *)
(* transaction, is the last one to look at, or leads to the next.          *)
findTransactionWithPagination ==
    LET next == NextCursor(poll.cursor)
        last == next = poll.cursor
    IN  /\ poll.pc = "page"
        /\ \/ poll' = [poll EXCEPT !.pc = "missing"]
           \/ \E p \in Page(poll.cursor) :
                /\ Matches(p)
                /\ poll' = [poll EXCEPT !.pc = "found",
                                        !.cursor = Scanned(poll.cursor),
                                        !.txLedger = history[p].ledger]
           \/ /\ ~\E p \in Page(poll.cursor) : Matches(p)
              /\ poll' = [poll EXCEPT
                   !.pc = IF last \/ poll.page = PAGE_SCAN_LIMIT THEN "missing" ELSE "page",
                   !.page = @ + 1,
                   !.cursor = next]
        /\ UNCHANGED <<horizon, hash, status, withdrawal, due, early>>

(* An answer that is not JSON makes the route throw: the payout is stored,  *)
(* the poll leaves no trace.                                                *)
Throws ==
    /\ poll.pc = "page"
    /\ poll' = Idle
    /\ UNCHANGED <<horizon, hash, status, withdrawal, due, early>>

Buried == ledger - poll.txLedger >= MIN_CONFIRMATION_DEPTH

(* The record is there: the newest ledger decides, if it can be read. *)
Found ==
    /\ poll.pc = "found"
    /\ \/ /\ Buried
          /\ status' = "withdrawn"
          /\ withdrawal' = [Verdict("succeeded", "none") EXCEPT !.confirmed = TRUE]
       \/ /\ withdrawal' = Verdict("pending", "none")
          /\ UNCHANGED status
    /\ poll' = Idle
    /\ UNCHANGED <<horizon, hash, due, early>>

MutantGivesUp == withdrawal.attempts >= MAX_ATTEMPTS \/ aged
GivesUp == withdrawal.attempts + 1 >= MAX_ATTEMPTS \/ aged

Missing ==
    /\ poll.pc = "missing"
    /\ withdrawal' =
         IF withdrawal.confirmed THEN Verdict("failed", "REORG_DETECTED")
         ELSE IF GivesUp THEN Verdict("failed", "FINALITY_TIMEOUT")
         ELSE Verdict("pending", "none")
    /\ poll' = Idle
    /\ UNCHANGED <<horizon, hash, status, due, early>>

evaluateWithdrawalState == findTransactionWithPagination \/ Throws \/ Found \/ Missing

Next ==
    \/ TxIncluded \/ LedgerCloses \/ Ages
    \/ \E amount \in 1..Balance + 1 : withdraw(amount)
    \/ evaluateWithdrawalState

(* Horizon answers, ledgers close, time passes, and the recipient asks     *)
(* again as long as the route lets it.                                     *)
Fairness ==
    /\ WF_vars(evaluateWithdrawalState)
    /\ WF_vars(LedgerCloses)
    /\ WF_vars(Ages)
    /\ WF_vars(withdraw(1))

Spec == Init /\ [][Next]_vars /\ Fairness

-----------------------------------------------------------------------------
TypeOK ==
    /\ ledger \in 1..MaxLedger /\ aged \in BOOLEAN /\ hash \in BOOLEAN
    /\ history \in Seq([ours : BOOLEAN, successful : BOOLEAN, ledger : 1..MaxLedger])
    /\ Len(history) <= MaxTxs
    /\ status \in {"ended", "withdrawn"}
    /\ withdrawal \in [ state : {"none", "pending", "succeeded", "failed"},
                        attempts : 0..Balance, cursor : 0..MaxTxs, confirmed : BOOLEAN,
                        failure : {"none", "SETTLEMENT_TX_MISSING", "FINALITY_TIMEOUT",
                                   "REORG_DETECTED"} ]
    /\ due \in 0..Balance
    /\ poll \in [ pc : {"idle", "page", "found", "missing"}, page : 0..PAGE_SCAN_LIMIT + 1,
                  cursor : 0..MaxTxs, txLedger : 0..MaxLedger ]
    /\ early \in 0..MaxTxs

(* A stream is only ever withdrawn when its settlement transaction went     *)
(* through and is buried as deep as asked for, although the transaction and *)
(* the newest ledger are read by two requests with an await between them.   *)
WithdrawnIsBuried ==
    status = "withdrawn" =>
        /\ Ours # 0
        /\ ledger - history[Ours].ledger >= MIN_CONFIRMATION_DEPTH
        /\ withdrawal.state = "succeeded"

(* A transaction that was on the account when polling began stays ahead of  *)
(* the cursor, however far the account's history is scanned, whatever page  *)
(* fails and whatever arrives meanwhile: no poll skips it.                  *)
NeverSkipped ==
    early # 0 =>
        /\ withdrawal.cursor = NoCursor \/ early < withdrawal.cursor
        /\ poll.pc = "page" => poll.cursor = NoCursor \/ early < poll.cursor

(* The limits hold for what Horizon does not know: a withdrawal that is     *)
(* still pending after the last attempt has its transaction on the ledger.  *)
PendingIsOnLedger ==
    withdrawal.state = "pending" /\ withdrawal.attempts >= MAX_ATTEMPTS => Ours # 0

(* docs/withdrawal-finality-slo.md: "Pending-to-failed timeout: 90 seconds *)
(* or 5 re-check attempts, whichever occurs first".                        *)
PendingResolves == withdrawal.state = "pending" ~> withdrawal.state # "pending"
=============================================================================
