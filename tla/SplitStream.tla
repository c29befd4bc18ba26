---------------------------- MODULE SplitStream ----------------------------
(***************************************************************************)
(* multi.rs: one deposit released linearly to several weighted recipients. *)
(* A row is only ever Active, Settled or Cancelled: no entrypoint pauses   *)
(* a split stream or leaves one in draft.  One action is one successful    *)
(* call; a failing call is rolled back by the host and is disabled here.   *)
(*                                                                         *)
(* A definition named Mutant... is a faulty form of the one it precedes.   *)
(***************************************************************************)
EXTENDS ProgramLedger, Sums, SequencesExt

CONSTANTS
    MaxSplits,          \* bound: split streams created
    SplitTotals,        \* deposits
    SplitEnds,          \* end times
    Rosters             \* argument lists: sequences of [recipient, weight]

ASSUME SplitAssumption ==
    /\ MaxSplits \in Nat
    /\ SplitTotals \subseteq Nat /\ SplitEnds \subseteq 0..U64Max
    /\ \A r \in Rosters : r \in Seq([recipient : Accounts, weight : Nat \ {0}])

VARIABLES
    splits      \* the rows, in the order of their ids

SplitStatus == {"Active", "Settled", "Cancelled"}
SplitIds    == DOMAIN splits

split_vested_amount(s, t) ==
    LET elapsed  == SaturatingSub(Larger(s.start_time, Smaller(t, s.end_time)),
                                  s.start_time)
        duration == s.end_time - s.start_time
    IN  (s.total_amount * elapsed) \div duration

recipient_vested(s, t, i) ==
    (split_vested_amount(s, t) * s.recipients[i].weight) \div s.total_weight

(* Both checked products fit an i128; the first has no way round it once   *)
(* the schedule has ended, unlike that of vested_amount in release.rs.     *)
MutantUnclampedOK(s, t, i) ==
    /\ s.total_amount * SaturatingSub(t, s.start_time) <= I128Max
    /\ split_vested_amount(s, t) * s.recipients[i].weight <= I128Max
SplitMathOK(s, t, i) ==
    /\ s.total_amount * SaturatingSub(Larger(s.start_time, Smaller(t, s.end_time)),
                                      s.start_time) <= I128Max
    /\ split_vested_amount(s, t) * s.recipients[i].weight <= I128Max

(* find_recipient_index: the first allocation of who; 0 when there is none. *)
find_recipient_index(s, who) ==
    SelectInSeq(s.recipients, LAMBDA alloc : alloc.recipient = who)

WeightSum(roster) == SumUpTo([i \in DOMAIN roster |-> roster[i].weight], Len(roster))

create_split_stream(sender, total, start, end, roster) ==
    /\ Len(splits) < MaxSplits
    /\ ~config.paused /\ ~config.blocked
    /\ total > 0
    /\ end > start /\ start >= now
    /\ Len(roster) >= 2
    /\ WeightSum(roster) \in 1 .. U64Max
    /\ \A i \in DOMAIN roster : roster[i].recipient # sender
    /\ balance[sender] >= total
    /\ balance' = Moved(balance, sender, Escrow, total)
    /\ splits' = Append(splits,
         [ status |-> "Active", sender |-> sender,
           total_amount |-> total, total_released |-> 0,
           start_time |-> start, end_time |-> end, last_update |-> start,
           total_weight |-> WeightSum(roster),
           recipients |-> [i \in DOMAIN roster |->
             [ recipient |-> roster[i].recipient, weight |-> roster[i].weight,
               released_amount |-> 0 ]] ])
    /\ UNCHANGED <<now, config>>

withdraw_split(id, who, amount) ==
    LET s == splits[id]
        i == find_recipient_index(s, who)
        total == s.total_released + amount
    IN  /\ ~config.paused
        /\ amount > 0
        /\ s.status = "Active"
        /\ i # 0
        /\ SplitMathOK(s, now, i)
        /\ amount <= recipient_vested(s, now, i) - s.recipients[i].released_amount
        /\ balance[Escrow] >= amount
        /\ balance' = Moved(balance, Escrow, who, amount)
        /\ splits' = [splits EXCEPT ![id] =
             [s EXCEPT !.recipients[i].released_amount = @ + amount,
                       !.total_released = total,
                       !.last_update = now,
                       !.status = IF total = s.total_amount THEN "Settled" ELSE @]]
        /\ UNCHANGED <<now, config>>

MutantUnpaid(s, i) == recipient_vested(s, now, i)
Unpaid(s, i) ==
    Larger(0, recipient_vested(s, now, i) - s.recipients[i].released_amount)

(* What who gets when s is cancelled: every allocation of theirs is made up *)
(* to its share, and the sender gets whatever that leaves.                  *)
UnpaidTo(s, who) ==
    SumUpTo([i \in DOMAIN s.recipients |->
               IF s.recipients[i].recipient = who THEN Unpaid(s, i) ELSE 0],
            Len(s.recipients))
UnpaidTotal(s) ==
    SumUpTo([i \in DOMAIN s.recipients |-> Unpaid(s, i)], Len(s.recipients))

MutantSenderRefund(s) == s.total_amount - split_vested_amount(s, now)
SenderRefund(s) == s.total_amount - s.total_released - UnpaidTotal(s)

cancel_split_stream(id) ==
    LET s      == splits[id]
        refund == SenderRefund(s)
    IN  /\ s.status = "Active"
        /\ \A i \in DOMAIN s.recipients : SplitMathOK(s, now, i)
        /\ balance[Escrow] >= UnpaidTotal(s) + Larger(0, refund)
        /\ balance' = [h \in Holders |->
             IF h = Escrow THEN balance[h] - UnpaidTotal(s) - Larger(0, refund)
             ELSE balance[h] + UnpaidTo(s, h)
                             + (IF h = s.sender THEN Larger(0, refund) ELSE 0)]
        /\ splits' = [splits EXCEPT ![id] =
             [s EXCEPT !.status = "Cancelled",
                       !.total_released = @ + UnpaidTotal(s),
                       !.last_update = now,
                       !.recipients = [i \in DOMAIN s.recipients |->
                         [s.recipients[i] EXCEPT
                            !.released_amount = @ + Unpaid(s, i)]]]]
        /\ UNCHANGED <<now, config>>

SplitInit == splits = <<>>

SplitNext ==
    \/ \E sender \in Payers, total \in SplitTotals, start, end \in SplitEnds,
          roster \in Rosters : create_split_stream(sender, total, start, end, roster)
    \/ \E id \in SplitIds :
         \/ \E who \in Accounts, amount \in Draws :
              withdraw_split(id, who, amount)
         \/ cancel_split_stream(id)

-----------------------------------------------------------------------------
SplitTypeOK ==
    /\ Len(splits) <= MaxSplits
    /\ \A id \in SplitIds :
         LET s == splits[id]
         IN  /\ s.status \in SplitStatus
             /\ s.sender \in Accounts
             /\ s.total_amount \in Nat \ {0} /\ s.total_released \in 0..s.total_amount
             /\ s.start_time \in Nat /\ s.end_time \in Nat
             /\ s.start_time < s.end_time
             /\ s.last_update \in Nat
             /\ \A i \in DOMAIN s.recipients :
                  /\ s.recipients[i].recipient \in Accounts \ {s.sender}
                  /\ s.recipients[i].weight \in Nat \ {0}
                  /\ s.recipients[i].released_amount \in 0..s.total_amount

(* Every allocation of a cancelled split has its share of what had vested   *)
(* at that moment, whatever was withdrawn before and also when an account   *)
(* is listed twice; no allocation is ever ahead of its share.               *)
SplitSharesExact ==
    \A id \in SplitIds : \A i \in DOMAIN splits[id].recipients :
      LET s == splits[id]
          released == s.recipients[i].released_amount
      IN  /\ s.status = "Cancelled" => released = recipient_vested(s, s.last_update, i)
          /\ released <= recipient_vested(s, now, i)

(* A split whose deposit fits the width over its duration and weights can   *)
(* always be cancelled, so its money always has a way out; the contract     *)
(* accepts deposits that do not fit.                                        *)
SplitCanBeCancelled ==
    \A id \in SplitIds :
      LET s == splits[id]
      IN  /\ s.status = "Active"
          /\ s.total_amount * (s.end_time - s.start_time) <= I128Max
          /\ s.total_amount * s.total_weight <= I128Max
          => /\ \A i \in DOMAIN s.recipients : SplitMathOK(s, now, i)
             /\ SenderRefund(s) >= 0
             /\ balance[Escrow] >= s.total_amount - s.total_released
=============================================================================
