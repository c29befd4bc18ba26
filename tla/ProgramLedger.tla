--------------------------- MODULE ProgramLedger ---------------------------
(***************************************************************************)
(* What the split and the recurring streams of the escrow contract share:  *)
(* the ledger clock, one token's balances, and the three settings of       *)
(* StreamContract that their entrypoints read.  Only those settings are    *)
(* here; how an admin comes to change them is StreamContract's subject.    *)
(***************************************************************************)
EXTENDS Accrual

CONSTANTS
    Accounts,   \* addresses other than the contract's own
    Escrow,     \* the contract's own address, as a token holder
    None,       \* no fee collector
    Payers,     \* the accounts that open programs
    Payees,     \* the accounts that recurring streams are opened for
    Collectors, \* addresses that may be named fee collector
    Funding,    \* each account's opening balance
    Draws,      \* amounts that withdrawals are made with
    MaxTime     \* bound: last ledger timestamp

ASSUME LedgerAssumption ==
    /\ Funding \in Nat /\ MaxTime \in Nat /\ MaxTime <= U64Max
    /\ Draws \subseteq Nat
    /\ Payers \cup Payees \cup Collectors \subseteq Accounts
    /\ Escrow \notin Accounts /\ None \notin Accounts

Holders == Accounts \cup {Escrow}

VARIABLES
    now,        \* ledger timestamp
    config,     \* paused, the token's entry on the blocklist, the fee collector
    balance     \* the token contract's ledger

ledger == <<now, config, balance>>

LedgerTypeOK ==
    /\ now \in 0..MaxTime
    /\ config \in [paused : BOOLEAN, blocked : BOOLEAN,
                   collector : Collectors \cup {None}]
    /\ balance \in [Holders -> Nat]

LedgerInit ==
    /\ now = 0
    /\ config = [paused |-> FALSE, blocked |-> FALSE, collector |-> None]
    /\ balance = [h \in Holders |-> IF h = Escrow THEN 0 ELSE Funding]

(* One token transfer; the token contract refuses what the payer lacks. *)
Moved(b, from, to, amount) ==
    LET charged == [b EXCEPT ![from] = @ - amount]
    IN  [charged EXCEPT ![to] = @ + amount]

Tick == now < MaxTime /\ now' = now + 1 /\ UNCHANGED <<config, balance>>

Configure ==
    /\ \/ \E b \in BOOLEAN : config' = [config EXCEPT !.paused = b]
       \/ \E b \in BOOLEAN : config' = [config EXCEPT !.blocked = b]
       \/ \E c \in Collectors : config' = [config EXCEPT !.collector = c]
    /\ UNCHANGED <<now, balance>>
=============================================================================
