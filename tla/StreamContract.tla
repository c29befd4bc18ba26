--------------------------- MODULE StreamContract ---------------------------
(***************************************************************************)
(* The linear-stream part of the Soroban escrow contract                   *)
(* (contracts/contracts/streampay-stream): stream lifecycle, escrowed      *)
(* token balances, sender limits and cooloff, withdrawer delegation, fees, *)
(* the admin surface and the nonce-guarded admin_override.                 *)
(*                                                                         *)
(* One action is one successful contract call: the host runs calls one at  *)
(* a time and rolls every write back when a call returns Err or panics, so *)
(* a failing call is a disabled action.  The authorising account is a      *)
(* parameter of the action, constrained where the code calls require_auth. *)
(* Storage time-to-live, events and last_update are not modelled: no       *)
(* branch of the code reads them.                                          *)
(*                                                                         *)
(* A definition named Mutant... is a faulty form of the one it precedes.   *)
(* The specification never uses it: it shows that a property can fail.     *)
(***************************************************************************)
EXTENDS Accrual, Sums, FiniteSets

CONSTANTS
    Accounts,       \* addresses other than the contract's own
    Tokens,         \* token contracts
    Orgs,           \* organisations with a token allowlist of their own
    Escrow,         \* the contract's own address, as a token holder
    None,           \* no address stored
    MaxStreams,     \* bound: stream ids handed out
    MaxTime,        \* bound: last ledger timestamp
    Funding,        \* each account's opening balance of each token
    ADMIN_COOLDOWN_SECONDS

CONSTANTS           \* argument values that calls are made with
    Amounts,        \* token amounts
    EndTimes,       \* timestamps for start_time, end_time and new_end_time
    Durations,      \* durations of drafts
    FeeRates,       \* basis points
    Governors,      \* addresses that may be named admin; {}: no admin calls
    Delegates,      \* addresses put on withdrawer allowlists
    Collectors,     \* addresses named fee collector
    Limits,         \* values for max_streams_per_sender
    Cooloffs        \* values for cooloff_duration

ASSUME ContractAssumption ==
    /\ MaxStreams \in Nat /\ MaxTime \in Nat \ {0} /\ MaxTime < U64Max
    /\ Funding \in Nat /\ ADMIN_COOLDOWN_SECONDS \in Nat
    /\ Amounts \subseteq Nat
    /\ EndTimes \subseteq 0..U64Max
    /\ Durations \subseteq 0..U64Max
    /\ FeeRates \subseteq Nat
    /\ Governors \subseteq Accounts
    /\ Delegates \subseteq Accounts
    /\ Collectors \subseteq Accounts
    /\ Limits \subseteq Nat
    /\ Cooloffs \subseteq Nat
    /\ Escrow \notin Accounts /\ None \notin Accounts

Ids     == 1..MaxStreams
Holders == Accounts \cup {Escrow}

DEFAULT_MAX_STREAMS_PER_SENDER == 10
NoEntry == -1           \* a storage key that has not been written

Status == {"Absent", "Draft", "Active", "Paused", "Settled", "Cancelled"}
Live   == {"Draft", "Active", "Paused"}

Stream ==
    [ status : Status,
      sender : Accounts \cup {None}, recipient : Accounts \cup {None},
      token : Tokens \cup {None},
      total_amount : Nat, released_amount : Nat,
      start_time : Nat, end_time : Nat, duration : Nat,
      paused_at : Nat, total_paused_duration : Nat,
      fee_bps : 0..MAX_FEE_BPS ]

Opened(status, sender, recipient, token, amount, start, end, duration, bps) ==
    [ status |-> status, sender |-> sender, recipient |-> recipient, token |-> token,
      total_amount |-> amount, released_amount |-> 0,
      start_time |-> start, end_time |-> end, duration |-> duration,
      paused_at |-> 0, total_paused_duration |-> 0, fee_bps |-> bps ]

NoStream == Opened("Absent", None, None, None, 0, 0, 0, 0, 0)

Settings ==
    [ admin : Accounts \cup {None}, paused : BOOLEAN,
      blocked : SUBSET Tokens,
      orgAllowed : SUBSET (Orgs \X Tokens), orgDenied : SUBSET (Orgs \X Tokens),
      orgEnforced : SUBSET Orgs,
      collector : Accounts \cup {None},
      feeBps : 0..MAX_FEE_BPS, defaultFeeBps : 0..MAX_FEE_BPS,
      maxPerSender : Nat, cooloffDuration : Nat,
      nonce : Nat, lastActionTime : Nat \cup {NoEntry}, version : {0, 1} ]

InitialSettings ==
    [ admin |-> None, paused |-> FALSE,
      blocked |-> {}, orgAllowed |-> {}, orgDenied |-> {}, orgEnforced |-> {},
      collector |-> None, feeBps |-> 0, defaultFeeBps |-> 0,
      maxPerSender |-> DEFAULT_MAX_STREAMS_PER_SENDER, cooloffDuration |-> 0,
      nonce |-> 0, lastActionTime |-> NoEntry, version |-> 0 ]

VARIABLES
    now,            \* ledger timestamp
    settings,       \* the contract's instance storage, and token allowlists
    streams,        \* stream rows
    nextId,         \* DataKey::StreamCount
    senderCount,    \* SenderStreamCount(sender)
    cooloffUntil,   \* CooloffUntil(sender)
    withdrawers,    \* WithdrawerAllowlist(id)
    streamFee,      \* StreamFeeBps(id)
    balance,        \* the token contracts' ledgers
    held,           \* history: tokens moved in for id minus tokens moved out
    shorted         \* history: ids whose schedule was rewritten so that less
                    \* has vested than the recipient had already withdrawn

rows      == <<streams, nextId, withdrawers, streamFee>>
throttles == <<senderCount, cooloffUntil>>
money     == <<balance, held>>
vars == <<now, settings, rows, throttles, money, shorted>>

Init ==
    /\ now = 1
    /\ settings = InitialSettings
    /\ streams = [id \in Ids |-> NoStream]
    /\ nextId = 1
    /\ senderCount = [a \in Accounts |-> 0]
    /\ cooloffUntil = [a \in Accounts |-> 0]
    /\ withdrawers = [id \in Ids |-> {}]
    /\ streamFee = [id \in Ids |-> NoEntry]
    /\ balance = [t \in Tokens |->
                    [h \in Holders |-> IF h = Escrow THEN 0 ELSE Funding]]
    /\ held = [id \in Ids |-> 0]
    /\ shorted = {}

-----------------------------------------------------------------------------
(* Guards and effects the entrypoints share *)

NotPaused == ~settings.paused

(* increment / decrement_sender_stream_count; the decrement saturates. *)
Counted(a)   == [senderCount EXCEPT ![a] = @ + 1]
MutantNeverUncounted(a) == senderCount
Uncounted(a) == [senderCount EXCEPT ![a] = SaturatingSub(@, 1)]

(* check_and_update_cooloff *)
CooloffOK(a) == settings.cooloffDuration = 0 \/ now >= cooloffUntil[a]
CooloffStarted(a) ==
    IF settings.cooloffDuration = 0 THEN cooloffUntil
    ELSE [cooloffUntil EXCEPT
            ![a] = Smaller(now + settings.cooloffDuration, U64Max)]

OrgBlocked(org, t) ==
    \/ <<org, t>> \in settings.orgDenied
    \/ org \in settings.orgEnforced /\ <<org, t>> \notin settings.orgAllowed

(* A token transfer; the token contract refuses one the payer cannot cover. *)
Transfer(ledger, t, from, to, amount) ==
    LET charged == [ledger EXCEPT ![t][from] = @ - amount]
    IN  [charged EXCEPT ![t][to] = @ + amount]

Escrowed(id, amount, ledger) ==
    /\ balance' = ledger
    /\ held' = [held EXCEPT ![id] = @ + amount]

PaidOut(id, amount, ledger) ==
    /\ balance[streams[id].token][Escrow] >= amount
    /\ balance' = ledger
    /\ held' = [held EXCEPT ![id] = @ - amount]

(* Replace the row of id; a rewritten schedule may fall behind released.   *)
Rewrite(id, row) ==
    /\ streams' = [streams EXCEPT ![id] = row]
    /\ shorted' = IF vested_amount(row, now) < row.released_amount
                  THEN shorted \cup {id} ELSE shorted

-----------------------------------------------------------------------------
(* Stream creation *)

NewRow(row) ==
    /\ nextId <= MaxStreams
    /\ streams' = [streams EXCEPT ![nextId] = row]
    /\ nextId' = nextId + 1
    /\ balance[row.token][row.sender] >= row.total_amount
    /\ Escrowed(nextId, row.total_amount,
                Transfer(balance, row.token, row.sender, Escrow, row.total_amount))
    /\ cooloffUntil' = CooloffStarted(row.sender)

create_stream(sender, recipient, token, amount, start, end, bps) ==
    /\ NotPaused
    /\ senderCount[sender] < settings.maxPerSender
    /\ CooloffOK(sender)
    /\ bps <= MAX_FEE_BPS
    /\ amount > 0
    /\ sender # recipient
    /\ token \notin settings.blocked
    /\ end > start /\ start >= now
    /\ NewRow(Opened("Active", sender, recipient, token, amount,
                     start, end, end - start, bps))
    /\ UNCHANGED <<now, settings, senderCount, withdrawers, streamFee, shorted>>

create_stream_for_org(org, sender, recipient, token, amount, start, end, bps) ==
    /\ ~OrgBlocked(org, token)
    /\ create_stream(sender, recipient, token, amount, start, end, bps)

create_draft_stream(sender, recipient, token, amount, duration) ==
    /\ NotPaused
    /\ CooloffOK(sender)
    /\ amount > 0
    /\ sender # recipient
    /\ token \notin settings.blocked
    /\ duration # 0
    /\ NewRow(Opened("Draft", sender, recipient, token, amount, 0, 0, duration, 0))
    /\ streamFee' = [streamFee EXCEPT ![nextId] = 0]
    /\ senderCount' = Counted(sender)
    /\ UNCHANGED <<now, settings, withdrawers, shorted>>

start_stream(id) ==
    LET s == streams[id]
    IN  /\ NotPaused
        /\ s.status = "Draft"
        /\ now + s.duration <= U64Max
        /\ streams' = [streams EXCEPT ![id].status = "Active",
                                      ![id].start_time = now,
                                      ![id].end_time = now + s.duration]
        /\ UNCHANGED <<now, settings, nextId, withdrawers, streamFee,
                       throttles, money, shorted>>

-----------------------------------------------------------------------------
(* Payouts *)

(* The row after amount more has been released; the last unit settles it.  *)
Released(s, amount) ==
    [s EXCEPT !.released_amount = @ + amount,
              !.status = IF s.released_amount + amount = s.total_amount
                         THEN "Settled" ELSE @]

WithdrawGuard(id, amount) ==
    LET s == streams[id]
    IN  /\ NotPaused
        /\ amount > 0
        /\ s.status \in {"Active", "Paused"}
        /\ VestedAmountOK(s, now)
        /\ amount <= withdrawable(s, now)

WithdrawRow(id, amount) ==
    LET s == Released(streams[id], amount)
    IN  /\ streams' = [streams EXCEPT ![id] = s]
        /\ senderCount' = IF s.status = "Settled" THEN Uncounted(s.sender)
                                                  ELSE senderCount
        /\ UNCHANGED <<now, settings, nextId, withdrawers, streamFee,
                       cooloffUntil, shorted>>

(* Pay amount out of escrow, fee of it to payee and the rest to recipient. *)
SplitPayout(id, amount, fee, payee) ==
    LET s   == streams[id]
        net == Transfer(balance, s.token, Escrow, s.recipient, amount - fee)
    IN  PaidOut(id, amount, Transfer(net, s.token, Escrow, payee, fee))

MutantWithdrawToCaller(caller, id, amount) ==
    /\ WithdrawGuard(id, amount)
    /\ caller = streams[id].recipient \/ caller \in withdrawers[id]
    /\ WithdrawRow(id, amount)
    /\ PaidOut(id, amount,
               Transfer(balance, streams[id].token, Escrow, caller, amount))

withdraw(caller, id, amount) ==
    LET s == streams[id]
    IN  /\ WithdrawGuard(id, amount)
        /\ caller = s.recipient \/ caller \in withdrawers[id]
        /\ FeeOK(amount, s.fee_bps)
        /\ WithdrawRow(id, amount)
        /\ SplitPayout(id, amount, FeeAmount(amount, s.fee_bps),
                       IF settings.collector = None THEN s.recipient
                                                    ELSE settings.collector)

withdraw_with_max_fee_bps(id, amount, max_fee) ==
    LET fee == FeeAmount(amount, settings.feeBps)
    IN  /\ settings.feeBps <= max_fee
        /\ WithdrawGuard(id, amount)
        /\ FeeOK(amount, settings.feeBps)
        /\ fee > 0 => settings.admin # None
        /\ WithdrawRow(id, amount)
        /\ SplitPayout(id, amount, fee,
                       IF fee > 0 THEN settings.admin ELSE streams[id].recipient)

(* What a settlement pays, and what a cancellation gives back. *)
MutantRemaining(s) == s.total_amount
Remaining(s) == s.total_amount - s.released_amount
MutantRefund(s) == s.total_amount - s.released_amount
Refund(s) == s.total_amount - vested_amount(s, now)

(* Settling a stream that is settled already returns Ok and writes nothing. *)
settle(id) ==
    LET s   == streams[id]
        due == Remaining(s)
    IN  /\ NotPaused
        /\ s.status \in {"Active", "Paused"}
        /\ now >= s.end_time
        /\ streams' = [streams EXCEPT ![id].status = "Settled",
                                      ![id].released_amount = s.total_amount]
        /\ senderCount' = Uncounted(s.sender)
        /\ PaidOut(id, due, Transfer(balance, s.token, Escrow, s.recipient, due))
        /\ UNCHANGED <<now, settings, nextId, withdrawers, streamFee,
                       cooloffUntil, shorted>>

cancel_stream(id) ==
    LET s      == streams[id]
        due    == withdrawable(s, now)
        refund == Refund(s)
        paid   == Transfer(balance, s.token, Escrow, s.recipient, due)
    IN  /\ s.status \in Live
        /\ VestedAmountOK(s, now)
        /\ streams' = [streams EXCEPT ![id].status = "Cancelled",
                                      ![id].released_amount = @ + due]
        /\ senderCount' = Uncounted(s.sender)
        /\ PaidOut(id, due + refund,
                   Transfer(paid, s.token, Escrow, s.sender, refund))
        /\ UNCHANGED <<now, settings, nextId, withdrawers, streamFee,
                       cooloffUntil, shorted>>

-----------------------------------------------------------------------------
(* Schedule changes *)

pause(id) ==
    /\ streams[id].status = "Active"
    /\ streams' = [streams EXCEPT ![id].status = "Paused", ![id].paused_at = now]
    /\ UNCHANGED <<now, settings, nextId, withdrawers, streamFee,
                   throttles, money, shorted>>

MutantResumeKeepsEnd(id) ==
    LET s == streams[id]
    IN  /\ s.status = "Paused"
        /\ streams' = [streams EXCEPT
                         ![id] = [s EXCEPT !.status = "Active",
                                           !.paused_at = 0,
                                           !.total_paused_duration = @ + now - s.paused_at]]
        /\ UNCHANGED <<now, settings, nextId, withdrawers, streamFee,
                       throttles, money, shorted>>

resume(id) ==
    LET s      == streams[id]
        frozen == now - s.paused_at
    IN  /\ s.status = "Paused"
        /\ s.end_time + frozen <= U64Max
        /\ streams' = [streams EXCEPT
                         ![id] = [s EXCEPT !.status = "Active",
                                           !.paused_at = 0,
                                           !.total_paused_duration = @ + frozen,
                                           !.end_time = @ + frozen]]
        /\ UNCHANGED <<now, settings, nextId, withdrawers, streamFee,
                       throttles, money, shorted>>

(* The call's new_rate_per_second is only checked to be positive; the rate  *)
(* follows from the new end, as it does in admin_override.                 *)
Rescheduled(s, new_end) ==
    [s EXCEPT !.end_time = new_end, !.duration = new_end - s.start_time]

amend_stream(id, new_end) ==
    LET s == streams[id]
    IN  /\ NotPaused
        /\ s.status \in Live
        /\ new_end > now /\ new_end > s.start_time
        /\ s.released_amount <= s.total_amount
        /\ s.total_amount * (new_end - s.start_time) <= I128Max
        /\ Rewrite(id, Rescheduled(s, new_end))
        /\ UNCHANGED <<now, settings, nextId, withdrawers, streamFee,
                       throttles, money>>

(* enforce_and_update_cooldown *)
MutantNoCooldown == TRUE
CooldownElapsed ==
    \/ settings.lastActionTime = NoEntry
    \/ now >= Smaller(settings.lastActionTime + ADMIN_COOLDOWN_SECONDS, U64Max)

admin_override(caller, nonce, id, new_end) ==
    LET s == streams[id]
    IN  /\ caller = settings.admin
        /\ CooldownElapsed
        /\ nonce = settings.nonce
        /\ s.status \in Live
        /\ new_end > s.start_time
        /\ settings' = [settings EXCEPT !.nonce = @ + 1, !.lastActionTime = now]
        /\ Rewrite(id, Rescheduled(s, new_end))
        /\ UNCHANGED <<now, nextId, withdrawers, streamFee, throttles, money>>

-----------------------------------------------------------------------------
(* Delegation and configuration *)

add_withdrawer(id, who) ==
    /\ streams[id].status # "Absent"
    /\ withdrawers' = [withdrawers EXCEPT ![id] = @ \cup {who}]
    /\ UNCHANGED <<now, settings, streams, nextId, streamFee, throttles, money, shorted>>

remove_withdrawer(id, who) ==
    /\ streams[id].status # "Absent"
    /\ withdrawers' = [withdrawers EXCEPT ![id] = @ \ {who}]
    /\ UNCHANGED <<now, settings, streams, nextId, streamFee, throttles, money, shorted>>

SettingsWritten(new) ==
    /\ settings' = new
    /\ UNCHANGED <<now, rows, throttles, money, shorted>>

OrgEntry(cfg, org, ts, allowed) ==
    LET entries == {org} \X ts
    IN  IF allowed
        THEN [cfg EXCEPT !.orgAllowed = @ \cup entries,
                         !.orgDenied = @ \ entries,
                         !.orgEnforced = IF ts = {} THEN @ ELSE @ \cup {org}]
        ELSE [cfg EXCEPT !.orgAllowed = @ \ entries, !.orgDenied = @ \cup entries]

(* initialize, and with non-empty lists init_with_token_allowlist and      *)
(* init_allowlist_for_org: allowed is the entry's value for a listed token *)
(* and what an absent entry means, so only an organisation's list shows.   *)
initialize(admin) ==
    /\ settings.admin = None
    /\ SettingsWritten([settings EXCEPT !.admin = admin, !.paused = FALSE])

init_allowlist_for_org(admin, org, ts) ==
    /\ settings.admin = None
    /\ SettingsWritten(OrgEntry([settings EXCEPT !.admin = admin, !.paused = FALSE],
                                org, ts, TRUE))

require_admin(caller) == settings.admin # None /\ caller = settings.admin

set_admin(caller, new_admin) ==
    require_admin(caller) /\ SettingsWritten([settings EXCEPT !.admin = new_admin])

set_paused(caller, paused) ==
    require_admin(caller) /\ SettingsWritten([settings EXCEPT !.paused = paused])

set_token_allowed(caller, token, allowed) ==
    /\ require_admin(caller)
    /\ SettingsWritten([settings EXCEPT
            !.blocked = IF allowed THEN @ \ {token} ELSE @ \cup {token}])

set_org_token_allowed(caller, org, token, allowed) ==
    require_admin(caller) /\ SettingsWritten(OrgEntry(settings, org, {token}, allowed))

set_fee_collector(caller, collector) ==
    require_admin(caller) /\ SettingsWritten([settings EXCEPT !.collector = collector])

set_default_fee_bps(caller, bps) ==
    /\ require_admin(caller) /\ bps <= MAX_FEE_BPS
    /\ SettingsWritten([settings EXCEPT !.defaultFeeBps = bps])

set_fee_bps(caller, bps) ==
    /\ require_admin(caller) /\ bps <= MAX_FEE_BPS
    /\ SettingsWritten([settings EXCEPT !.feeBps = bps])

set_max_streams_per_sender(caller, limit) ==
    require_admin(caller) /\ SettingsWritten([settings EXCEPT !.maxPerSender = limit])

set_cooloff_duration(caller, duration) ==
    require_admin(caller) /\ SettingsWritten([settings EXCEPT !.cooloffDuration = duration])

migrate(caller) ==
    require_admin(caller) /\ SettingsWritten([settings EXCEPT !.version = 1])

-----------------------------------------------------------------------------
(* The ledger closes; timestamps never go back. *)
Tick ==
    /\ now < MaxTime
    /\ now' = now + 1
    /\ UNCHANGED <<settings, rows, throttles, money, shorted>>

Create ==
    \E sender, recipient \in Accounts, token \in Tokens, amount \in Amounts :
        \/ \E start, end \in EndTimes, bps \in FeeRates :
            \/ create_stream(sender, recipient, token, amount, start, end, bps)
            \/ \E org \in Orgs :
                create_stream_for_org(org, sender, recipient, token, amount,
                                      start, end, bps)
        \/ \E duration \in Durations :
            create_draft_stream(sender, recipient, token, amount, duration)

Lifecycle(id) ==
    \/ start_stream(id) \/ pause(id) \/ resume(id)
    \/ settle(id) \/ cancel_stream(id)
    \/ \E new_end \in EndTimes : amend_stream(id, new_end)

Withdraw(id) ==
    \E amount \in Amounts :
        \/ \E caller \in Accounts : withdraw(caller, id, amount)
        \/ \E max_fee \in FeeRates : withdraw_with_max_fee_bps(id, amount, max_fee)

Delegate(id) ==
    \E who \in Delegates : add_withdrawer(id, who) \/ remove_withdrawer(id, who)

Override(caller) ==
    \E id \in Ids, nonce \in 0..MaxTime, new_end \in EndTimes :
        admin_override(caller, nonce, id, new_end)

Administer(caller) ==
    \/ initialize(caller) \/ migrate(caller)
    \/ \E org \in Orgs, ts \in SUBSET Tokens : init_allowlist_for_org(caller, org, ts)
    \/ \E new_admin \in Governors : set_admin(caller, new_admin)
    \/ \E paused \in BOOLEAN : set_paused(caller, paused)
    \/ \E token \in Tokens, allowed \in BOOLEAN :
        \/ set_token_allowed(caller, token, allowed)
        \/ \E org \in Orgs : set_org_token_allowed(caller, org, token, allowed)
    \/ \E a \in Collectors : set_fee_collector(caller, a)
    \/ \E bps \in FeeRates : set_default_fee_bps(caller, bps) \/ set_fee_bps(caller, bps)
    \/ \E limit \in Limits : set_max_streams_per_sender(caller, limit)
    \/ \E duration \in Cooloffs : set_cooloff_duration(caller, duration)

Next ==
    \/ Tick
    \/ Create
    \/ \E id \in Ids : Lifecycle(id) \/ Withdraw(id) \/ Delegate(id)
    \/ \E caller \in Governors : Override(caller) \/ Administer(caller)

Spec == Init /\ [][Next]_vars

-----------------------------------------------------------------------------
(* A row's fields fit together: nothing is released beyond the total, no   *)
(* schedule ends before it starts and no pause begins in the future.       *)
RowOK(s, t) ==
    /\ s.released_amount <= s.total_amount
    /\ s.start_time <= s.end_time
    /\ s.status = "Paused" => s.paused_at <= t
    /\ s.status = "Draft" => s.released_amount = 0
    /\ s.status = "Settled" => s.released_amount = s.total_amount
    /\ s.status # "Absent" =>
         /\ s.sender \in Accounts /\ s.recipient \in Accounts
         /\ s.token \in Tokens

(* Type invariant: every variable stays in its domain, and every row makes *)
(* sense.                                                                  *)
TypeOK ==
    /\ now \in 1..MaxTime
    /\ settings \in Settings
    /\ streams \in [Ids -> Stream]
    /\ \A id \in Ids : RowOK(streams[id], now)
    /\ nextId \in 1..(MaxStreams + 1)
    /\ \A id \in Ids : id >= nextId => streams[id] = NoStream
    /\ senderCount \in [Accounts -> Nat]
    /\ cooloffUntil \in [Accounts -> Nat]
    /\ withdrawers \in [Ids -> SUBSET Accounts]
    /\ streamFee \in [Ids -> {NoEntry, 0}]
    /\ balance \in [Tokens -> [Holders -> Nat]]
    /\ held \in [Ids -> Int]
    /\ shorted \subseteq Ids

(* What the contract holds for a row: while the stream is live exactly its *)
(* unreleased amount, and once it is over nothing.  Only a stream that was *)
(* shorted can have taken more than its own deposit.                       *)
Accounted(s, held_for, was_shorted) ==
    /\ s.status \in Live => held_for = s.total_amount - s.released_amount
    /\ s.status \in {"Absent", "Settled"} => held_for = 0
    /\ s.status = "Cancelled" => held_for <= 0
    /\ ~was_shorted => held_for >= 0

(* Each stream pays out of its own deposit, and leaves nothing behind      *)
(* (create_stream, withdraw, settle, cancel_stream).                       *)
EscrowAccounted ==
    \A id \in Ids : Accounted(streams[id], held[id], id \in shorted)

(* What the live streams in token t have not released yet. *)
Unreleased(t) ==
    SumUpTo([id \in Ids |-> IF streams[id].status \in Live /\ streams[id].token = t
                            THEN streams[id].total_amount - streams[id].released_amount
                            ELSE 0], MaxStreams)

(* The contract holds, of every token, exactly what its live streams still *)
(* owe, as long as no schedule was rewritten below what was released: any  *)
(* of them can be cancelled or paid out, in any order.                     *)
Solvent == shorted = {} => \A t \in Tokens : balance[t][Escrow] = Unreleased(t)

OpenIds(sender) == {id \in Ids : streams[id].status \in Live /\ streams[id].sender = sender}

(* The concurrency counter never exceeds the sender's open streams, so the *)
(* limit never turns away a sender that has none (limits.rs: every         *)
(* increment goes with a stream whose end decrements it).                  *)
CountNeverOverstates ==
    \A a \in Accounts : senderCount[a] <= Cardinality(OpenIds(a))

WithinVested(s, t) ==
    s.status \in Live =>
        /\ s.released_amount <= vested_amount(s, t)
        /\ vested_amount(s, t) <= s.total_amount

(* No recipient has ever been paid more than has vested, and no more vests *)
(* than was deposited, whatever the order of withdrawals, pauses, resumes, *)
(* amendments that do not claw back, and ledger closes.                    *)
NeverOverReleased == \A id \in Ids \ shorted : WithinVested(streams[id], now)

(* The schedule of id is the one it had, or that one moved by a pause.     *)
SameSchedule(id) ==
    /\ streams[id].status \in Live /\ streams'[id].status \in Live
    /\ streams'[id].duration = streams[id].duration
    /\ streams'[id].end_time >= streams[id].end_time

(* What has vested never falls as time passes and as the stream is paused  *)
(* and resumed (release.rs, pause, resume); only a rewritten schedule can  *)
(* take it back.                                                           *)
VestedNeverRegresses ==
    [][ \A id \in Ids : SameSchedule(id) =>
          vested_amount(streams[id], now) <= vested_amount(streams'[id], now') ]_vars

(* Paused time earns nothing: neither a ledger close during the pause nor  *)
(* the resume that ends it changes what has vested.                        *)
PauseFreezesAccrual ==
    [][ \A id \in Ids : SameSchedule(id) /\ streams[id].status = "Paused" =>
          vested_amount(streams[id], now) = vested_amount(streams'[id], now') ]_vars

(* However calls and admin changes interleave, overrides are spaced by the *)
(* cooldown: the nonce, which counts them, bounds how early the last one   *)
(* can have happened (enforce_and_update_cooldown, consume_nonce).         *)
OverrideRateLimited ==
    settings.nonce > 0 =>
        /\ settings.lastActionTime \in 1..now
        /\ (settings.nonce - 1) * ADMIN_COOLDOWN_SECONDS < settings.lastActionTime

(* Tokens only ever reach a party of a stream in that token, the fee       *)
(* collector or the admin: an allowlisted withdrawer moves funds, but to   *)
(* the recipient (withdraw, require_withdraw_auth).                        *)
OnlyPartiesArePaid ==
    [][ \A t \in Tokens, a \in Accounts : balance'[t][a] > balance[t][a] =>
          \/ a \in {settings.collector, settings.admin}
          \/ \E id \in Ids :
               /\ streams[id].status \in Live /\ streams[id].token = t
               /\ \/ a = streams[id].recipient
                  \/ a = streams[id].sender /\ streams'[id].status = "Cancelled" ]_vars

(* While the contract is paused tokens move only because a sender cancels: *)
(* nothing is deposited, withdrawn or settled (require_not_paused).        *)
PausedOnlyRefunds ==
    [][ settings.paused /\ balance' # balance =>
          \E id \in Ids : /\ streams[id].status \in Live
                          /\ streams'[id].status = "Cancelled" ]_vars

(* An organisation's entry for a token says one thing, and one allowed     *)
(* token is enough to close its list to every token not named              *)
(* (set_org_token_allowed, is_org_token_blocked).                          *)
OrgEntriesConsistent ==
    /\ settings.orgAllowed \cap settings.orgDenied = {}
    /\ \A org \in Orgs, t, other \in Tokens :
        <<org, t>> \in settings.orgAllowed /\ <<org, other>> \notin settings.orgAllowed
            => OrgBlocked(org, other)
=============================================================================
