---------------------------- MODULE ChainProofs ----------------------------
(***************************************************************************)
(* Proofs about the two readers of the chain: the polls of                 *)
(* WithdrawFinality and the indexer of Indexer. The two have no state in   *)
(* common.                                                                 *)
(***************************************************************************)
EXTENDS WithdrawFinality, Indexer, FiniteSetTheorems, WellFoundedInduction, TLAPS

(***************************************************************************)
(* The finality of a withdrawal, for any confirmation depth, limits, page  *)
(* sizes, histories and ledgers.  What makes the properties inductive: a   *)
(* found transaction is the one Ours names, the cursors of the row and of  *)
(* the poll in flight stay above the transaction, and a withdrawn stream   *)
(* is polled no more.                                                      *)
(***************************************************************************)

Successful(p) == history[p].ours /\ history[p].successful

(* Horizon lists the stream's transaction once.                            *)
OneOurs ==
    \A p, q \in DOMAIN history : history[p].ours /\ history[q].ours => p = q

FoundIsOurs ==
    poll.pc = "found" => Ours # 0 /\ history[Ours].ledger = poll.txLedger

(* Both cursors are above the transaction that was there at the beginning. *)
Ahead(at) == at = NoCursor \/ early < at
CursorsAhead ==
    early # 0 => early = Ours /\ Ahead(withdrawal.cursor) /\ Ahead(poll.cursor)

(* Every poll has been paid for and the scan stays within its limit.       *)
PollsPaid ==
    /\ withdrawal.attempts + due + (IF poll.pc = "idle" THEN 0 ELSE 1) <= Balance
    /\ poll.pc = "page" => poll.page <= PAGE_SCAN_LIMIT
    /\ poll.pc = "idle" <=> poll = Idle
    /\ withdrawal.attempts = 0 => withdrawal.cursor = NoCursor
    /\ status = "withdrawn" => poll = Idle

FinalityInv ==
    /\ TypeOK /\ OneOurs /\ FoundIsOurs /\ CursorsAhead /\ PollsPaid
    /\ WithdrawnIsBuried /\ PendingIsOnLedger

-----------------------------------------------------------------------------
TxRecords == [ours : BOOLEAN, successful : BOOLEAN, ledger : 1..MaxLedger]

(* What Ours names is the successful transaction of ours, if there is one. *)
LEMMA OursNames ==
    ASSUME history \in Seq(TxRecords)
    PROVE  /\ Ours # 0 => Ours \in DOMAIN history /\ Successful(Ours)
           /\ \A p \in DOMAIN history : Successful(p) => Ours # 0
           /\ OneOurs => \A p \in DOMAIN history : Successful(p) => Ours = p
  <1>1. 0 \notin DOMAIN history
    OBVIOUS
  <1>2. ASSUME NEW p \in DOMAIN history, Successful(p)
        PROVE  Ours \in DOMAIN history /\ Successful(Ours)
    BY <1>2 DEF Ours, Successful
  <1>3. Ours # 0 => \E p \in DOMAIN history : Successful(p)
    BY DEF Ours, Successful
  <1> QED  BY <1>1, <1>2, <1>3 DEF OneOurs, Successful

(* A nonempty set of positions has a first one.                            *)
LEMMA FirstPosition ==
    ASSUME NEW S, S \subseteq Nat, S # {}
    PROVE  \E p \in S : \A q \in S : p <= q
  <1>1. PICK p \in S : \A q \in S : ~(<<q, p>> \in OpToRel(<, Nat))
    BY NatLessThanWellFounded, WFMin, Zenon
  <1>2. \A q \in S : ~(q < p)
    BY <1>1, Zenon DEF OpToRel
  <1> QED  BY <1>2

(* The page below a cursor holds positions of the history; if it has no    *)
(* transaction of ours, one that was ahead of the cursor stays ahead of    *)
(* the next cursor.                                                        *)
LEMMA NextIsOnPage ==
    ASSUME history \in Seq(TxRecords), NEW at \in Nat
    PROVE  NextCursor(at) = at \/ NextCursor(at) \in Page(at)
  <1>1. Page(at) \subseteq DOMAIN history /\ DOMAIN history \subseteq Nat
    BY DEF Page
  <1>2. CASE Page(at) = {}
    BY <1>2 DEF NextCursor
  <1>3. CASE Page(at) # {}
    <2>1. \E p \in Page(at) : \A q \in Page(at) : p <= q
      BY <1>1, <1>3, FirstPosition
    <2> QED  BY <1>3, <2>1 DEF NextCursor
  <1> QED  BY <1>2, <1>3

LEMMA PageIsAbove ==
    ASSUME history \in Seq(TxRecords), NEW at \in Nat,
           NEW mark \in DOMAIN history, at = NoCursor \/ mark < at,
           mark \notin Page(at), NEW p \in Page(at)
    PROVE  mark < p
  <1> DEFINE below == {q \in DOMAIN history : at = NoCursor \/ q < at}
             Above(r) == {q \in below : q > r}
  <1>1. DOMAIN history = 1 .. Len(history) /\ Len(history) \in Nat
    OBVIOUS
  <1>2. IsFiniteSet(below)
    <2>1. IsFiniteSet(DOMAIN history)
      BY <1>1, FS_Interval
    <2>2. below \in SUBSET DOMAIN history
      OBVIOUS
    <2> HIDE DEF below
    <2> QED  BY <2>1, <2>2, FS_Subset
  <1>3. mark \in below /\ p \in below
    BY DEF Page
  <1>4. /\ Cardinality(Above(p)) < PAGE_LIMIT
        /\ ~(Cardinality(Above(mark)) < PAGE_LIMIT)
    BY <1>3 DEF Page
  <1>5. SUFFICES ASSUME p <= mark PROVE FALSE
    BY <1>1, <1>3
  <1>6. Above(mark) \in SUBSET Above(p) /\ Above(p) \in SUBSET below
    BY <1>1, <1>3, <1>5
  <1> HIDE DEF below, Above
  <1>7. IsFiniteSet(Above(p)) /\ Cardinality(Above(p)) \in Nat
    BY <1>2, <1>6, FS_Subset, FS_CardinalityType
  <1>8. Cardinality(Above(mark)) <= Cardinality(Above(p)) /\ Cardinality(Above(mark)) \in Nat
    BY <1>6, <1>7, FS_Subset, FS_CardinalityType
  <1> QED  BY <1>4, <1>7, <1>8, FinalityAssumption

-----------------------------------------------------------------------------
(* Types, in the form the steps use.                                       *)
LEMMA Typed ==
    ASSUME TypeOK
    PROVE  /\ history \in Seq(TxRecords) /\ Len(history) \in Nat /\ Len(history) <= MaxTxs
           /\ DOMAIN history = 1..Len(history) /\ DOMAIN history \subseteq 1..MaxTxs
           /\ ledger \in 1..MaxLedger /\ due \in 0..Balance
           /\ withdrawal.attempts \in 0..Balance /\ withdrawal.cursor \in 0..MaxTxs
           /\ poll.cursor \in 0..MaxTxs /\ poll.page \in 0..PAGE_SCAN_LIMIT + 1
           /\ early \in 0..MaxTxs
  BY FinalityAssumption DEF TypeOK, TxRecords

LEMMA FinalityInit ==
    Init => FinalityInv
  <1> SUFFICES ASSUME Init PROVE FinalityInv
    OBVIOUS
  <1>1. TypeOK
    <2>1. Unasked \in [ state : {"none", "pending", "succeeded", "failed"},
                        attempts : 0..Balance, cursor : 0..MaxTxs, confirmed : BOOLEAN,
                        failure : {"none", "SETTLEMENT_TX_MISSING", "FINALITY_TIMEOUT",
                                   "REORG_DETECTED"} ]
      BY FinalityAssumption DEF Unasked, NoCursor
    <2>2. Idle \in [ pc : {"idle", "page", "found", "missing"}, page : 0..PAGE_SCAN_LIMIT + 1,
                     cursor : 0..MaxTxs, txLedger : 0..MaxLedger ]
      BY FinalityAssumption DEF Idle, NoCursor
    <2>3. ledger \in 1..MaxLedger /\ due \in 0..Balance /\ early \in 0..MaxTxs
      BY FinalityAssumption DEF Init
    <2>4. history \in Seq(TxRecords) /\ Len(history) <= MaxTxs
      BY FinalityAssumption DEF Init
    <2>5. hash \in BOOLEAN /\ aged \in BOOLEAN /\ status = "ended"
      BY FinalityAssumption DEF Init
    <2>6. withdrawal = Unasked /\ poll = Idle
      BY DEF Init
    <2> QED  BY <2>1, <2>2, <2>3, <2>4, <2>5, <2>6 DEF TypeOK, TxRecords
  <1>2. OneOurs /\ FoundIsOurs /\ CursorsAhead /\ WithdrawnIsBuried /\ PendingIsOnLedger
    BY DEF Init, OneOurs, FoundIsOurs, CursorsAhead, WithdrawnIsBuried, PendingIsOnLedger,
           Idle, Unasked
  <1>3. PollsPaid
    BY FinalityAssumption DEF Init, PollsPaid, Idle, Unasked, NoCursor
  <1> QED  BY <1>1, <1>2, <1>3 DEF FinalityInv

-----------------------------------------------------------------------------
(* Horizon *)

(* A new transaction never displaces the one that Ours names.              *)
LEMMA OursStays ==
    ASSUME FinalityInv, TxIncluded
    PROVE  /\ history' \in Seq(TxRecords) /\ Len(history') <= MaxTxs
           /\ OneOurs'
           /\ Ours # 0 => Ours' = Ours /\ history'[Ours] = history[Ours]
  <1> USE DEF FinalityInv
  <1>1. PICK ours, successful \in BOOLEAN :
          /\ ours => ~\E p \in DOMAIN history : history[p].ours
          /\ history' = Append(history, Tx(ours, successful))
    BY DEF TxIncluded
  <1>2. Len(history) < MaxTxs /\ Tx(ours, successful) \in TxRecords
    BY Typed DEF TxIncluded, Tx, TxRecords
  <1>3. /\ history' \in Seq(TxRecords) /\ Len(history') = Len(history) + 1
        /\ DOMAIN history' = 1..Len(history) + 1
        /\ \A p \in DOMAIN history : history'[p] = history[p] /\ p \in DOMAIN history'
        /\ history'[Len(history) + 1] = Tx(ours, successful)
    BY <1>1, <1>2, Typed
  <1>4. \A p \in DOMAIN history' : p \in DOMAIN history \/ p = Len(history) + 1
    BY <1>3, Typed
  <1>5. OneOurs'
    <2> SUFFICES ASSUME NEW p \in DOMAIN history', NEW q \in DOMAIN history',
                        history'[p].ours, history'[q].ours
                 PROVE  p = q
      BY DEF OneOurs
    <2> QED  BY <1>1, <1>3, <1>4 DEF OneOurs, Tx
  <1>6. ASSUME Ours # 0
        PROVE  Ours' = Ours /\ history'[Ours] = history[Ours]
    <2>1. Ours \in DOMAIN history /\ Successful(Ours)
      BY <1>6, Typed, OursNames
    <2>2. Ours \in DOMAIN history' /\ history'[Ours] = history[Ours]
      BY <1>3, <2>1
    <2>3. \A p \in DOMAIN history' : (history'[p].ours /\ history'[p].successful) <=> p = Ours
      BY <1>5, <2>1, <2>2 DEF OneOurs, Successful
    <2>4. Ours' = CHOOSE p \in DOMAIN history' : history'[p].ours /\ history'[p].successful
      BY <2>2, <2>3 DEF Ours
    <2> QED  BY <2>2, <2>3, <2>4
  <1> QED  BY <1>2, <1>3, <1>5, <1>6, Typed, FinalityAssumption

LEMMA HorizonStep ==
    ASSUME FinalityInv, TxIncluded \/ LedgerCloses \/ Ages
    PROVE  FinalityInv'
  <1>1. CASE TxIncluded
    <2>1. UNCHANGED <<ledger, aged, hash, status, withdrawal, due, poll, early>>
      BY <1>1 DEF TxIncluded
    <2>2. /\ history' \in Seq(TxRecords) /\ Len(history') <= MaxTxs
          /\ OneOurs'
          /\ Ours # 0 => Ours' = Ours /\ history'[Ours] = history[Ours]
      BY <1>1, OursStays
    <2>3. TypeOK'
      BY <2>1, <2>2 DEF FinalityInv, TypeOK, TxRecords
    <2>4. FoundIsOurs' /\ CursorsAhead' /\ WithdrawnIsBuried' /\ PendingIsOnLedger'
      BY <2>1, <2>2 DEF FinalityInv, FoundIsOurs, CursorsAhead, WithdrawnIsBuried,
                        PendingIsOnLedger, Ahead
    <2>5. PollsPaid'
      BY <2>1 DEF FinalityInv, PollsPaid
    <2> QED  BY <2>2, <2>3, <2>4, <2>5 DEF FinalityInv
  <1>2. CASE LedgerCloses \/ Ages
    <2>1. /\ UNCHANGED <<history, hash, status, withdrawal, due, poll, early>>
          /\ ledger' \in {ledger, ledger + 1} /\ ledger' \in 1..MaxLedger /\ aged' \in BOOLEAN
      <3>1. TypeOK /\ ledger \in 1..MaxLedger
        BY Typed DEF FinalityInv
      <3>2. CASE LedgerCloses
        BY <3>1, <3>2, FinalityAssumption DEF LedgerCloses, TypeOK
      <3>3. CASE Ages
        BY <3>1, <3>3 DEF Ages
      <3> QED  BY <1>2, <3>2, <3>3
    <2>2. TypeOK'
      BY <2>1 DEF FinalityInv, TypeOK
    <2>3. Ours' = Ours
      BY <2>1 DEF Ours
    <2>4. OneOurs' /\ FoundIsOurs' /\ CursorsAhead' /\ PendingIsOnLedger' /\ PollsPaid'
      BY <2>1, <2>3 DEF FinalityInv, OneOurs, FoundIsOurs, CursorsAhead, PendingIsOnLedger,
                        PollsPaid, Ahead
    <2>5. WithdrawnIsBuried'
      <3> SUFFICES ASSUME status = "withdrawn"
                   PROVE  ledger' - history[Ours].ledger >= MIN_CONFIRMATION_DEPTH
        BY <2>1, <2>3 DEF FinalityInv, WithdrawnIsBuried
      <3>1. /\ Ours # 0 /\ ledger - history[Ours].ledger >= MIN_CONFIRMATION_DEPTH
        BY DEF FinalityInv, WithdrawnIsBuried
      <3>2. history[Ours].ledger \in 1..MaxLedger
        <4>1. Ours \in DOMAIN history /\ history \in Seq(TxRecords)
          BY <3>1, Typed, OursNames DEF FinalityInv
        <4>2. history[Ours] \in TxRecords
          BY <4>1
        <4> QED  BY <4>2 DEF TxRecords
      <3>3. ledger \in Nat /\ ledger' \in Nat /\ ledger <= ledger'
        BY <2>1, Typed DEF FinalityInv
      <3>4. MIN_CONFIRMATION_DEPTH \in Nat /\ history[Ours].ledger \in Nat
        BY <3>2, FinalityAssumption
      <3> HIDE DEF Ours
      <3>5. \A l, m, t, d \in Nat : l <= m /\ l - t >= d => m - t >= d
        OBVIOUS
      <3> QED  BY <3>1, <3>3, <3>4, <3>5
    <2> QED  BY <2>2, <2>4, <2>5 DEF FinalityInv
  <1> QED  BY <1>1, <1>2

-----------------------------------------------------------------------------
(* A poll *)

(* What a row holds after a verdict.                                       *)
LEMMA VerdictTyped ==
    ASSUME TypeOK, withdrawal.attempts < Balance,
           NEW state \in {"pending", "succeeded", "failed"},
           NEW failure \in {"none", "SETTLEMENT_TX_MISSING", "FINALITY_TIMEOUT", "REORG_DETECTED"}
    PROVE  /\ Verdict(state, failure) \in
                [ state : {"none", "pending", "succeeded", "failed"},
                  attempts : 0..Balance, cursor : 0..MaxTxs, confirmed : BOOLEAN,
                  failure : {"none", "SETTLEMENT_TX_MISSING", "FINALITY_TIMEOUT",
                             "REORG_DETECTED"} ]
           /\ Verdict(state, failure).attempts = withdrawal.attempts + 1
           /\ Verdict(state, failure).attempts \in Nat \ {0}
           /\ Verdict(state, failure).state = state
           /\ early # 0 /\ Ahead(withdrawal.cursor) /\ Ahead(poll.cursor)
                => Ahead(Verdict(state, failure).cursor)
  <1>1. withdrawal.attempts + 1 \in 0..Balance
    BY Typed, FinalityAssumption
  <1> QED  BY <1>1, Typed DEF Verdict, Ahead

LEMMA WithdrawStep ==
    ASSUME FinalityInv, NEW amount \in 1..Balance + 1, withdraw(amount)
    PROVE  FinalityInv'
  <1> USE DEF FinalityInv
  <1>1. /\ UNCHANGED <<history, ledger, aged, hash, status>>
        /\ poll = Idle /\ status = "ended"
        /\ due' = due - amount /\ amount > 0 /\ amount <= due
        /\ early' = IF withdrawal.attempts = 0 THEN Ours ELSE early
    BY DEF withdraw, HasBalance
  <1>2. Ours' = Ours /\ Ours \in 0..MaxTxs
    <2>1. Ours = 0 \/ Ours \in DOMAIN history
      BY Typed, OursNames
    <2> QED  BY <1>1, <2>1, Typed, FinalityAssumption, SMTT(30) DEF Ours
  <1>3. /\ poll.pc = "idle" /\ poll.cursor = NoCursor
        /\ withdrawal.attempts + due <= Balance
        /\ due' \in 0..Balance /\ due' + 1 <= due /\ due \in 0..Balance
        /\ withdrawal.attempts < Balance /\ withdrawal.attempts \in 0..Balance
    BY <1>1, Typed, FinalityAssumption, SMTT(30) DEF PollsPaid, Idle
  <1>4. /\ early' \in 0..MaxTxs
        /\ early' # 0 => early' = Ours /\ (withdrawal.cursor = NoCursor \/ early' < withdrawal.cursor)
    BY <1>1, <1>2, Typed DEF CursorsAhead, PollsPaid, Ahead
  <1>5. OneOurs'
    BY <1>1 DEF OneOurs
  <1>6. CASE hash
    <2>1. /\ poll' = [Idle EXCEPT !.pc = "page", !.page = 1, !.cursor = withdrawal.cursor]
          /\ withdrawal' = withdrawal
      BY <1>6 DEF withdraw
    <2>2. /\ poll'.pc = "page" /\ poll'.page = 1 /\ poll'.cursor = withdrawal.cursor
          /\ poll' # Idle
          /\ poll' \in [ pc : {"idle", "page", "found", "missing"}, page : 0..PAGE_SCAN_LIMIT + 1,
                         cursor : 0..MaxTxs, txLedger : 0..MaxLedger ]
      <3>1. 0 \in 0..MaxLedger /\ 1 \in 0..PAGE_SCAN_LIMIT + 1 /\ withdrawal.cursor \in 0..MaxTxs
        BY Typed, FinalityAssumption
      <3>2. poll' = [pc |-> "page", page |-> 1, cursor |-> withdrawal.cursor, txLedger |-> 0]
        BY <2>1 DEF Idle
      <3>3. Idle.pc = "idle"
        BY DEF Idle
      <3> QED  BY <3>1, <3>2, <3>3
    <2>3. TypeOK'
      BY <1>1, <1>3, <1>4, <2>1, <2>2 DEF TypeOK
    <2>4. FoundIsOurs' /\ WithdrawnIsBuried' /\ PendingIsOnLedger'
      BY <1>1, <1>2, <2>1, <2>2 DEF FoundIsOurs, WithdrawnIsBuried, PendingIsOnLedger
    <2>5. CursorsAhead'
      BY <1>2, <1>4, <2>1, <2>2 DEF CursorsAhead, Ahead
    <2>6. PollsPaid'
      BY <1>1, <1>3, <2>1, <2>2, FinalityAssumption DEF PollsPaid
    <2> QED  BY <1>5, <2>3, <2>4, <2>5, <2>6
  <1>7. CASE ~hash
    <2>1. withdrawal' = Verdict("failed", "SETTLEMENT_TX_MISSING") /\ poll' = poll
      BY <1>7 DEF withdraw
    <2>2. /\ withdrawal'.attempts = withdrawal.attempts + 1 /\ withdrawal'.attempts \in Nat \ {0}
          /\ withdrawal'.state = "failed"
          /\ withdrawal'.cursor = withdrawal.cursor
      BY <1>3, <2>1, VerdictTyped DEF Verdict
    <2>3. TypeOK'
      BY <1>1, <1>3, <1>4, <2>1, VerdictTyped DEF TypeOK
    <2>4. FoundIsOurs' /\ WithdrawnIsBuried' /\ PendingIsOnLedger'
      BY <1>1, <1>2, <1>3, <2>1, <2>2 DEF FoundIsOurs, WithdrawnIsBuried, PendingIsOnLedger
    <2>5. CursorsAhead'
      BY <1>2, <1>3, <1>4, <2>1, <2>2 DEF CursorsAhead, Ahead
    <2>6. PollsPaid'
      BY <1>1, <1>3, <2>1, <2>2, FinalityAssumption DEF PollsPaid
    <2> QED  BY <1>5, <2>3, <2>4, <2>5, <2>6
  <1> QED  BY <1>6, <1>7

(* A request for a page keeps the row; a match is Ours, and a page without *)
(* a match moves the cursor no further than the transaction.               *)
LEMMA PageStep ==
    ASSUME FinalityInv, findTransactionWithPagination
    PROVE  FinalityInv'
  <1> USE DEF FinalityInv
  <1>1. /\ UNCHANGED <<history, ledger, aged, hash, status, withdrawal, due, early>>
        /\ poll.pc = "page" /\ poll # Idle /\ status # "withdrawn"
    BY DEF findTransactionWithPagination, horizon, PollsPaid, Idle
  <1>2. Ours' = Ours
    BY <1>1 DEF Ours
  <1>3. OneOurs' /\ WithdrawnIsBuried' /\ PendingIsOnLedger'
    BY <1>1, <1>2 DEF OneOurs, WithdrawnIsBuried, PendingIsOnLedger
  <1>4. /\ poll \in [ pc : {"idle", "page", "found", "missing"}, page : 0..PAGE_SCAN_LIMIT + 1,
                      cursor : 0..MaxTxs, txLedger : 0..MaxLedger ]
        /\ poll.page <= PAGE_SCAN_LIMIT
    BY <1>1 DEF TypeOK, PollsPaid
  <1>5. SUFFICES
          /\ poll'.pc \in {"page", "found", "missing"}
          /\ poll' \in [ pc : {"idle", "page", "found", "missing"}, page : 0..PAGE_SCAN_LIMIT + 1,
                         cursor : 0..MaxTxs, txLedger : 0..MaxLedger ]
          /\ poll'.pc = "page" => poll'.page <= PAGE_SCAN_LIMIT
          /\ poll'.pc = "found" => Ours # 0 /\ history[Ours].ledger = poll'.txLedger
          /\ early # 0 => Ahead(poll'.cursor)
    <2>1. TypeOK'
      BY <1>1, <1>5 DEF TypeOK
    <2>2. FoundIsOurs' /\ CursorsAhead'
      BY <1>1, <1>2, <1>5 DEF FoundIsOurs, CursorsAhead, Ahead
    <2>3. PollsPaid'
      BY <1>1, <1>5 DEF PollsPaid, Idle
    <2> QED  BY <1>3, <2>1, <2>2, <2>3
  <1>6. early # 0 => early = Ours /\ Ahead(poll.cursor)
    BY DEF CursorsAhead
  <1>7. CASE poll' = [poll EXCEPT !.pc = "missing"]
    BY <1>4, <1>6, <1>7 DEF Ahead
  <1>8. ASSUME NEW p \in Page(poll.cursor), Matches(p),
               poll' = [poll EXCEPT !.pc = "found", !.cursor = Scanned(poll.cursor),
                                    !.txLedger = history[p].ledger]
        PROVE  /\ poll'.pc \in {"page", "found", "missing"}
               /\ poll' \in [ pc : {"idle", "page", "found", "missing"}, page : 0..PAGE_SCAN_LIMIT + 1,
                              cursor : 0..MaxTxs, txLedger : 0..MaxLedger ]
               /\ poll'.pc = "page" => poll'.page <= PAGE_SCAN_LIMIT
               /\ poll'.pc = "found" => Ours # 0 /\ history[Ours].ledger = poll'.txLedger
               /\ early # 0 => Ahead(poll'.cursor)
    <2>1. p \in DOMAIN history /\ Successful(p) /\ history[p].ledger \in 1..MaxLedger
      <3>1. p \in DOMAIN history /\ Successful(p)
        BY <1>8 DEF Page, Matches, Successful
      <3>2. history[p] \in TxRecords
        BY <3>1, Typed
      <3> QED  BY <3>1, <3>2 DEF TxRecords
    <2>2. Ours = p /\ p # 0
      BY <2>1, Typed, OursNames
    <2>3. history[p].ledger \in 0..MaxLedger
      BY <2>1, FinalityAssumption
    <2>4. /\ poll' \in [ pc : {"idle", "page", "found", "missing"}, page : 0..PAGE_SCAN_LIMIT + 1,
                         cursor : 0..MaxTxs, txLedger : 0..MaxLedger ]
          /\ poll'.pc = "found" /\ poll'.cursor = poll.cursor
          /\ poll'.txLedger = history[p].ledger
      BY <1>4, <1>8, <2>3 DEF Scanned
    <2> QED  BY <1>6, <2>2, <2>4
  <1>9. ASSUME ~\E p \in Page(poll.cursor) : Matches(p),
               poll' = [poll EXCEPT
                   !.pc = IF NextCursor(poll.cursor) = poll.cursor \/ poll.page = PAGE_SCAN_LIMIT
                          THEN "missing" ELSE "page",
                   !.page = @ + 1,
                   !.cursor = NextCursor(poll.cursor)]
        PROVE  /\ poll'.pc \in {"page", "found", "missing"}
               /\ poll' \in [ pc : {"idle", "page", "found", "missing"}, page : 0..PAGE_SCAN_LIMIT + 1,
                              cursor : 0..MaxTxs, txLedger : 0..MaxLedger ]
               /\ poll'.pc = "page" => poll'.page <= PAGE_SCAN_LIMIT
               /\ poll'.pc = "found" => Ours # 0 /\ history[Ours].ledger = poll'.txLedger
               /\ early # 0 => Ahead(poll'.cursor)
    <2> DEFINE next == NextCursor(poll.cursor)
    <2>1. next = poll.cursor \/ next \in Page(poll.cursor)
      BY <1>4, Typed, NextIsOnPage
    <2>2. next \in 0..MaxTxs
      BY <1>4, <2>1, Typed, FinalityAssumption DEF Page
    <2>3. ASSUME early # 0
          PROVE  Ahead(next)
      <3>1. CASE next = poll.cursor
        BY <1>6, <2>3, <3>1
      <3>2. CASE next \in Page(poll.cursor)
        <4>1. early \in DOMAIN history /\ Successful(early)
          BY <1>6, <2>3, Typed, OursNames
        <4>2. early \notin Page(poll.cursor)
          BY <1>9, <4>1 DEF Matches, Successful
        <4>3. early < next
          BY <1>4, <1>6, <2>3, <3>2, <4>1, <4>2, Typed, PageIsAbove DEF Ahead
        <4> QED  BY <4>3 DEF Ahead
      <3> QED  BY <2>1, <3>1, <3>2
    <2> HIDE DEF next
    <2>4. /\ poll'.pc \in {"page", "missing"} /\ poll'.page = poll.page + 1
          /\ poll'.cursor = next /\ poll'.txLedger = poll.txLedger
          /\ poll' \in [ pc : {"idle", "page", "found", "missing"}, page : 0..PAGE_SCAN_LIMIT + 1,
                         cursor : 0..MaxTxs, txLedger : 0..MaxLedger ]
          /\ poll'.pc = "page" => poll.page # PAGE_SCAN_LIMIT
      <3>1. poll.page + 1 \in 0..PAGE_SCAN_LIMIT + 1
        BY <1>4, FinalityAssumption
      <3>2. poll' = [poll EXCEPT
                       !.pc = IF next = poll.cursor \/ poll.page = PAGE_SCAN_LIMIT
                              THEN "missing" ELSE "page",
                       !.page = poll.page + 1, !.cursor = next]
        BY <1>9 DEF next
      <3> QED  BY <1>4, <2>2, <3>1, <3>2
    <2> QED  BY <1>4, <2>3, <2>4, FinalityAssumption
  <1> QED  BY <1>7, <1>8, <1>9 DEF findTransactionWithPagination

LEMMA AnswerStep ==
    ASSUME FinalityInv, Throws \/ Found \/ Missing
    PROVE  FinalityInv'
  <1> USE DEF FinalityInv
  <1>1. /\ UNCHANGED <<history, ledger, aged, hash, due, early>>
        /\ poll' = Idle /\ poll # Idle /\ poll.pc # "idle" /\ status = "ended"
    <2>1. poll.pc \in {"page", "found", "missing"} /\ status \in {"ended", "withdrawn"}
      BY DEF Throws, Found, Missing, TypeOK
    <2>2. poll.pc # "idle" /\ poll # Idle
      BY <2>1 DEF Idle
    <2> QED  BY <2>1, <2>2 DEF Throws, Found, Missing, horizon, PollsPaid
  <1>2. Ours' = Ours
    BY <1>1 DEF Ours
  <1>3. /\ withdrawal.attempts < Balance /\ withdrawal.attempts \in 0..Balance
        /\ withdrawal.attempts + due + 1 <= Balance
        /\ MAX_ATTEMPTS \in Nat /\ due \in Nat
    BY <1>1, Typed, FinalityAssumption DEF PollsPaid
  <1>4. OneOurs' /\ FoundIsOurs'
    BY <1>1 DEF OneOurs, FoundIsOurs, Idle
  <1>5. /\ poll'.pc = "idle" /\ poll'.cursor = NoCursor
        /\ poll' \in [ pc : {"idle", "page", "found", "missing"}, page : 0..PAGE_SCAN_LIMIT + 1,
                       cursor : 0..MaxTxs, txLedger : 0..MaxLedger ]
    BY <1>1, FinalityAssumption DEF Idle, NoCursor
  <1>6. CASE Throws
    <2>1. UNCHANGED <<status, withdrawal>>
      BY <1>6 DEF Throws
    <2>2. TypeOK'
      BY <1>1, <1>5, <2>1 DEF TypeOK
    <2>3. CursorsAhead' /\ WithdrawnIsBuried' /\ PendingIsOnLedger'
      BY <1>1, <1>2, <1>5, <2>1 DEF CursorsAhead, WithdrawnIsBuried, PendingIsOnLedger, Ahead
    <2>4. PollsPaid'
      <3>1. withdrawal.attempts + due <= Balance
        BY <1>3, FinalityAssumption
      <3> QED  BY <1>1, <1>3, <1>5, <2>1, <3>1 DEF PollsPaid
    <2> QED  BY <1>4, <2>2, <2>3, <2>4
  <1>7. ASSUME NEW state \in {"pending", "succeeded", "failed"},
               NEW failure \in {"none", "SETTLEMENT_TX_MISSING", "FINALITY_TIMEOUT",
                                "REORG_DETECTED"},
               \/ withdrawal' = Verdict(state, failure)
               \/ withdrawal' = [Verdict(state, failure) EXCEPT !.confirmed = TRUE],
               status' \in {"ended", "withdrawn"},
               WithdrawnIsBuried', state = "pending" =>
                 Ours # 0 \/ withdrawal.attempts + 1 < MAX_ATTEMPTS
        PROVE  FinalityInv'
    <2>1. Verdict(state, failure) \in
                [ state : {"none", "pending", "succeeded", "failed"},
                  attempts : 0..Balance, cursor : 0..MaxTxs, confirmed : BOOLEAN,
                  failure : {"none", "SETTLEMENT_TX_MISSING", "FINALITY_TIMEOUT",
                             "REORG_DETECTED"} ]
      BY <1>3, VerdictTyped
    <2>2. /\ withdrawal' \in
                [ state : {"none", "pending", "succeeded", "failed"},
                  attempts : 0..Balance, cursor : 0..MaxTxs, confirmed : BOOLEAN,
                  failure : {"none", "SETTLEMENT_TX_MISSING", "FINALITY_TIMEOUT",
                             "REORG_DETECTED"} ]
          /\ withdrawal'.attempts = Verdict(state, failure).attempts
          /\ withdrawal'.state = Verdict(state, failure).state
          /\ withdrawal'.cursor = Verdict(state, failure).cursor
      BY <1>7, <2>1
    <2>3. /\ withdrawal'.attempts = withdrawal.attempts + 1 /\ withdrawal'.attempts # 0
          /\ withdrawal'.state = state
          /\ early # 0 => Ahead(withdrawal'.cursor)
      BY <1>3, <2>2, VerdictTyped DEF CursorsAhead
    <2>4. TypeOK'
      BY <1>1, <1>5, <1>7, <2>2 DEF TypeOK
    <2>5. CursorsAhead'
      BY <1>1, <1>2, <1>5, <2>3 DEF CursorsAhead, Ahead
    <2>6. PendingIsOnLedger'
      BY <1>2, <1>3, <1>7, <2>3 DEF PendingIsOnLedger
    <2>7. PollsPaid'
      BY <1>1, <1>3, <1>5, <2>3 DEF PollsPaid
    <2> QED  BY <1>4, <1>7, <2>4, <2>5, <2>6, <2>7
  <1> QED
    <2>1. ASSUME Found PROVE FinalityInv'
      <3>1. Ours # 0 /\ history[Ours].ledger = poll.txLedger
        BY <2>1 DEF Found, FoundIsOurs
      <3>2. CASE Buried /\ status' = "withdrawn"
                 /\ withdrawal' = [Verdict("succeeded", "none") EXCEPT !.confirmed = TRUE]
        <4>1. withdrawal'.state = "succeeded"
          BY <3>2 DEF Verdict
        <4>2. WithdrawnIsBuried'
          BY <1>1, <1>2, <3>1, <3>2, <4>1 DEF WithdrawnIsBuried, Buried
        <4> QED  BY <1>7, <3>2, <4>2
      <3>3. CASE withdrawal' = Verdict("pending", "none") /\ status' = status
        <4>1. WithdrawnIsBuried'
          BY <1>1, <3>3 DEF WithdrawnIsBuried
        <4> QED  BY <1>1, <1>7, <3>1, <3>3, <4>1
      <3> QED  BY <2>1, <3>2, <3>3 DEF Found
    <2>2. ASSUME Missing PROVE FinalityInv'
      <3>1. status' = status /\ WithdrawnIsBuried'
        BY <1>1, <2>2 DEF Missing, WithdrawnIsBuried
      <3>2. \/ withdrawal' = Verdict("failed", "REORG_DETECTED")
            \/ withdrawal' = Verdict("failed", "FINALITY_TIMEOUT")
            \/ withdrawal' = Verdict("pending", "none") /\ ~GivesUp
        BY <2>2 DEF Missing
      <3>3. CASE withdrawal' = Verdict("pending", "none") /\ ~GivesUp
        <4>1. withdrawal.attempts + 1 < MAX_ATTEMPTS
          BY <1>3, <3>3 DEF GivesUp
        <4> QED  BY <1>1, <1>7, <3>1, <3>3, <4>1
      <3>4. CASE withdrawal' = Verdict("failed", "REORG_DETECTED")
        BY <1>1, <1>7, <3>1, <3>4
      <3>5. CASE withdrawal' = Verdict("failed", "FINALITY_TIMEOUT")
        BY <1>1, <1>7, <3>1, <3>5
      <3> QED  BY <3>2, <3>3, <3>4, <3>5
    <2> QED  BY <1>6, <2>1, <2>2

-----------------------------------------------------------------------------
LEMMA FinalityStep ==
    FinalityInv /\ [Next]_vars => FinalityInv'
  <1> SUFFICES ASSUME FinalityInv, [Next]_vars PROVE FinalityInv'
    OBVIOUS
  <1>1. CASE UNCHANGED vars
    <2>1. UNCHANGED <<history, ledger, aged, hash, status, withdrawal, due, poll, early>>
      BY <1>1 DEF vars
    <2>2. Ours' = Ours
      BY <2>1 DEF Ours
    <2> QED  BY <2>1, <2>2 DEF FinalityInv, TypeOK, OneOurs, FoundIsOurs, CursorsAhead, Ahead,
                               PollsPaid, WithdrawnIsBuried, PendingIsOnLedger
  <1>2. CASE TxIncluded \/ LedgerCloses \/ Ages
    BY <1>2, HorizonStep
  <1>3. ASSUME NEW amount \in 1..Balance + 1, withdraw(amount) PROVE FinalityInv'
    BY <1>3, WithdrawStep
  <1>4. CASE evaluateWithdrawalState
    BY <1>4, PageStep, AnswerStep DEF evaluateWithdrawalState
  <1> QED  BY <1>1, <1>2, <1>3, <1>4 DEF Next

(* The inductive invariant holds in every state of the specification.      *)
THEOREM FinalityInvariant ==
    Spec => []FinalityInv
  <1> QED  BY FinalityInit, FinalityStep, PTL DEF Spec

(* Rows, polls and cursors keep their types: a poll always has a payout    *)
(* that pays for it, and a scan ends within its limit of pages.            *)
THEOREM FinalityTyped ==
    Spec => []TypeOK
  <1>1. FinalityInv => TypeOK
    BY DEF FinalityInv
  <1> QED  BY <1>1, FinalityInvariant, PTL

(* evaluateWithdrawalState makes a stream withdrawn only when its          *)
(* settlement transaction is on the ledger and buried as deep as asked for.*)
THEOREM WithdrawnMeansBuried ==
    Spec => []WithdrawnIsBuried
  <1>1. FinalityInv => WithdrawnIsBuried
    BY DEF FinalityInv
  <1> QED  BY <1>1, FinalityInvariant, PTL

(* No poll of findTransactionWithPagination skips a transaction that was   *)
(* on the account when polling began.                                      *)
THEOREM ScanSkipsNothing ==
    Spec => []NeverSkipped
  <1>1. FinalityInv => NeverSkipped
    BY DEF FinalityInv, CursorsAhead, Ahead, NeverSkipped
  <1> QED  BY <1>1, FinalityInvariant, PTL

(* A withdrawal that is still pending after its last attempt has its       *)
(* transaction on the ledger: the limits bound only the wait for one that  *)
(* Horizon does not know.                                                  *)
THEOREM PendingHasLanded ==
    Spec => []PendingIsOnLedger
  <1>1. FinalityInv => PendingIsOnLedger
    BY DEF FinalityInv
  <1> QED  BY <1>1, FinalityInvariant, PTL

-----------------------------------------------------------------------------
(***************************************************************************)
(* The indexer, for any loops, events, overlap window and bounds.  An      *)
(* event is known when it was processed, is in somebody's batch, or was    *)
(* given up with a batch.  What makes GapsOnlyAtCuts inductive is that     *)
(* whatever is in a batch, or about to be asked for, has only known events *)
(* before it: so the cursor may be moved to it, forward or back, by any    *)
(* loop or job.                                                            *)
(***************************************************************************)

Known(d) ==
    \/ d \in processed \cup dropped \cup job.batch
    \/ \E l \in Loops : d \in loop[l].batch

Covered(n) == \A d \in Events : LedgerOf[d] <= n => Known(d)

FetchesCovered ==
    \A l \in Loops : loop[l].pc = "fetch" =>
        \A d \in Events : LedgerOf[d] < loop[l].from => Known(d)

BatchesCovered ==
    /\ \A l \in Loops : \A e \in loop[l].batch : LedgerOf[e] <= tip /\ Covered(LedgerOf[e])
    /\ \A e \in job.batch : LedgerOf[e] <= tip /\ Covered(LedgerOf[e])

(* What a job has taken on is processed or still in its batch.             *)
JobCovers ==
    job.on => \A e \in Events :
        LedgerOf[e] \in job.cursor - overlapWindow .. job.target => e \in processed \cup job.batch

IndexerInv == IndexerTypeOK /\ Covered(cursor) /\ FetchesCovered /\ BatchesCovered /\ JobCovers

LoopStates == [pc : {"off", "poll", "fetch", "batch"}, from : 0 .. MaxTip + 1,
               batch : SUBSET Events]
JobStates == [on : BOOLEAN, cursor : 0 .. MaxTip, target : 0 .. MaxTip,
              batch : SUBSET Events]

-----------------------------------------------------------------------------
(* The events of a batch have a first one.                                 *)
LEMMA FirstEvent ==
    ASSUME NEW S, S \subseteq Events, S # {}
    PROVE  Min(S) \in S
  <1>1. S \subseteq Nat
    BY IndexerAssumption
  <1>2. PICK p \in S : \A q \in S : ~(<<q, p>> \in OpToRel(<, Nat))
    BY <1>1, NatLessThanWellFounded, WFMin, Zenon
  <1>3. \A q \in S : ~(q < p)
    BY <1>1, <1>2, Zenon DEF OpToRel
  <1>4. \A q \in S : p <= q
    BY <1>1, <1>3
  <1> QED  BY <1>4 DEF Min

LEMMA Ledgers ==
    \A e \in Events : LedgerOf[e] \in 1 .. MaxTip /\ LedgerOf[e] \in Nat
  BY IndexerAssumption

(* Known, in the words of the property.                                    *)
LEMMA KnownIs ==
    \A d : Known(d) <=> d \in processed \cup InFlight \cup dropped
  BY DEF Known, InFlight

(* What a step has to show: nothing known is forgotten, and where the      *)
(* cursor or a batch is new, what is before it is known.                   *)
LEMMA Preserved ==
    ASSUME IndexerInv, IndexerTypeOK', tip <= tip', JobCovers',
           \A d \in Events : Known(d) => Known(d)',
           cursor' = cursor \/ \E e \in Events : cursor' = LedgerOf[e] /\ Covered(LedgerOf[e]),
           \A l \in Loops : loop'[l].pc = "fetch" =>
               loop'[l] = loop[l] \/ loop'[l].from = cursor + 1,
           \A l \in Loops : \A e \in loop'[l].batch :
               e \in loop[l].batch \/ (LedgerOf[e] <= tip /\ Covered(LedgerOf[e])'),
           \A e \in job'.batch :
               e \in job.batch \/ (LedgerOf[e] <= tip /\ Covered(LedgerOf[e])')
    PROVE  IndexerInv'
  <1>1. \A n : Covered(n) => Covered(n)'
    BY DEF Covered
  <1>2. Covered(cursor)'
    <2>1. \A d \in Events : LedgerOf[d] <= cursor' => Known(d)
      BY DEF IndexerInv, Covered
    <2> QED  BY <2>1 DEF Covered
  <1>3. FetchesCovered'
    <2> SUFFICES ASSUME NEW l \in Loops, loop'[l].pc = "fetch",
                        NEW d \in Events, LedgerOf[d] < loop'[l].from
                 PROVE  Known(d)'
      BY DEF FetchesCovered
    <2>1. CASE loop'[l] = loop[l]
      BY <2>1 DEF IndexerInv, FetchesCovered
    <2>2. CASE loop'[l].from = cursor + 1
      <3>1. LedgerOf[d] <= cursor
        BY <2>2, Ledgers DEF IndexerInv, IndexerTypeOK
      <3> QED  BY <3>1 DEF IndexerInv, Covered
    <2> QED  BY <2>1, <2>2
  <1>4. ASSUME NEW e \in Events, LedgerOf[e] <= tip PROVE LedgerOf[e] <= tip'
    BY <1>4, Ledgers DEF IndexerInv, IndexerTypeOK
  <1>5. BatchesCovered'
    <2>1. ASSUME NEW l \in Loops, NEW e \in loop'[l].batch
          PROVE  LedgerOf[e] <= tip' /\ Covered(LedgerOf[e])'
      <3>1. e \in Events
        BY DEF IndexerTypeOK
      <3>2. LedgerOf[e] <= tip /\ Covered(LedgerOf[e])'
        BY <1>1 DEF IndexerInv, BatchesCovered
      <3> QED  BY <1>4, <3>1, <3>2
    <2>2. ASSUME NEW e \in job'.batch
          PROVE  LedgerOf[e] <= tip' /\ Covered(LedgerOf[e])'
      <3>1. e \in Events
        BY DEF IndexerTypeOK
      <3>2. LedgerOf[e] <= tip /\ Covered(LedgerOf[e])'
        BY <1>1 DEF IndexerInv, BatchesCovered
      <3> QED  BY <1>4, <3>1, <3>2
    <2> QED  BY <2>1, <2>2 DEF BatchesCovered
  <1> QED  BY <1>2, <1>3, <1>5 DEF IndexerInv

(* An iteration begins or ends without events.                             *)
LEMMA LoopTurns ==
    ASSUME IndexerInv, NEW l \in Loops, NEW pc \in {"off", "poll", "fetch"}, NEW from,
           loop[l].batch = {}, SetLoop(l, pc, from, {}), isRunning' \in BOOLEAN,
           IF pc = "fetch" THEN from = cursor + 1 ELSE from = 0,
           UNCHANGED <<tip, cursor, processed, job, dropped, faults>>
    PROVE  IndexerInv'
  <1>1. loop \in [Loops -> LoopStates] /\ cursor \in 0 .. MaxTip /\ tip \in 0 .. MaxTip
    BY IndexerAssumption DEF IndexerInv, IndexerTypeOK, LoopStates
  <1>2. from \in 0 .. MaxTip + 1
    BY <1>1, IndexerAssumption
  <1>3. loop' = [loop EXCEPT ![l] = [pc |-> pc, from |-> from, batch |-> {}]]
    BY DEF SetLoop
  <1>4. /\ loop'[l] = [pc |-> pc, from |-> from, batch |-> {}]
        /\ \A m \in Loops : m # l => loop'[m] = loop[m]
        /\ loop' \in [Loops -> LoopStates]
    BY <1>1, <1>2, <1>3 DEF LoopStates
  <1>5. IndexerTypeOK'
    BY <1>4 DEF IndexerInv, IndexerTypeOK, LoopStates
  <1>6. \A m \in Loops : loop'[m].batch = loop[m].batch
    <2>1. loop'[l].batch = {}
      BY <1>4
    <2> QED  BY <1>4, <2>1
  <1>7. \A d \in Events : Known(d) => Known(d)'
    BY <1>6 DEF Known
  <1>8. JobCovers'
    BY DEF IndexerInv, JobCovers
  <1>9. tip <= tip'
    BY <1>1
  <1> QED  BY <1>4, <1>5, <1>6, <1>7, <1>8, <1>9, Preserved

LEMMA Turns ==
    ASSUME IndexerInv, NEW l \in Loops,
           startMainLoop(l) \/ Wake(l) \/ FetchFails(l) \/ BatchEnds(l)
    PROVE  IndexerInv'
  <1>1. isRunning \in BOOLEAN /\ (loop[l].pc # "batch" => loop[l].batch = {})
    BY DEF IndexerInv, IndexerTypeOK
  <1>2. CASE startMainLoop(l)
    BY <1>2, LoopTurns DEF startMainLoop, Off, store
  <1>3. CASE Wake(l)
    BY <1>1, <1>3, LoopTurns DEF Wake, IterationEnds, NextLedger, store
  <1>4. CASE FetchFails(l)
    BY <1>1, <1>4, LoopTurns DEF FetchFails, IterationEnds, store
  <1>5. CASE BatchEnds(l)
    BY <1>1, <1>5, LoopTurns DEF BatchEnds, IterationEnds, store
  <1> QED  BY <1>2, <1>3, <1>4, <1>5

(* The batch holds every closed event from the first one asked for.        *)
LEMMA Answers ==
    ASSUME IndexerInv, NEW l \in Loops, FetchAnswers(l)
    PROVE  IndexerInv'
  <1> DEFINE answer == Closed(loop[l].from, tip)
  <1>1. /\ loop \in [Loops -> LoopStates] /\ tip \in 0 .. MaxTip /\ MaxTip \in Nat
        /\ loop[l].from \in 0 .. MaxTip + 1 /\ loop[l].pc = "fetch" /\ loop[l].batch = {}
    BY IndexerAssumption DEF IndexerInv, IndexerTypeOK, LoopStates, FetchAnswers
  <1>2. /\ answer \subseteq Events
        /\ \A e \in answer : LedgerOf[e] <= tip
        /\ \A d \in Events : d \in answer \/ LedgerOf[d] < loop[l].from \/ tip < LedgerOf[d]
    BY <1>1, Ledgers DEF Closed
  <1> HIDE DEF answer
  <1>3. /\ loop' = [loop EXCEPT ![l] = [pc |-> "batch", from |-> loop[l].from, batch |-> answer]]
        /\ UNCHANGED <<tip, cursor, processed, isRunning, job, dropped, faults>>
    BY DEF FetchAnswers, SetLoop, store, answer
  <1>4. /\ loop'[l] = [pc |-> "batch", from |-> loop[l].from, batch |-> answer]
        /\ \A m \in Loops : m # l => loop'[m] = loop[m]
        /\ loop' \in [Loops -> LoopStates]
    BY <1>1, <1>2, <1>3 DEF LoopStates
  <1>5. IndexerTypeOK'
    BY <1>3, <1>4 DEF IndexerInv, IndexerTypeOK, LoopStates
  <1>6. \A d \in Events : Known(d) => Known(d)'
    BY <1>1, <1>3, <1>4 DEF Known
  <1>7. \A e \in answer : Covered(LedgerOf[e])'
    <2> SUFFICES ASSUME NEW e \in answer, NEW d \in Events, LedgerOf[d] <= LedgerOf[e]
                 PROVE  Known(d)'
      BY DEF Covered
    <2>1. CASE d \in answer
      BY <1>4, <2>1 DEF Known
    <2>2. CASE LedgerOf[d] < loop[l].from
      BY <1>1, <1>6, <2>2 DEF IndexerInv, FetchesCovered
    <2>3. ~(tip < LedgerOf[d])
      BY <1>1, <1>2, Ledgers
    <2> QED  BY <1>2, <2>1, <2>2, <2>3
  <1>8. JobCovers' /\ tip <= tip'
    BY <1>1, <1>3 DEF IndexerInv, JobCovers
  <1> QED  BY <1>2, <1>3, <1>4, <1>5, <1>6, <1>7, <1>8, Preserved

-----------------------------------------------------------------------------
(* processEvent: the store after a duplicate, an advance, a failed save.   *)
LEMMA Processes ==
    ASSUME IndexerInv, NEW e \in Events, LedgerOf[e] <= tip,
           \/ (Duplicate(e) \/ Advance(e)) /\ faults' = faults
           \/ SaveFails(e)
    PROVE  /\ processed' = processed \cup {e}
           /\ processed' \subseteq {d \in Events : LedgerOf[d] <= tip}
           /\ cursor' \in {cursor, LedgerOf[e]}
           /\ cursor' \in 0 .. tip
           /\ faults' \in 0 .. MaxFaults
  <1>1. /\ processed \subseteq {d \in Events : LedgerOf[d] <= tip}
        /\ cursor \in 0 .. tip /\ tip \in 0 .. MaxTip /\ faults \in 0 .. MaxFaults
        /\ MaxFaults \in Nat /\ MaxTip \in Nat
    BY IndexerAssumption DEF IndexerInv, IndexerTypeOK
  <1>2. LedgerOf[e] \in 0 .. tip
    BY <1>1, Ledgers
  <1>3. CASE Duplicate(e) /\ faults' = faults
    BY <1>1, <1>3 DEF Duplicate, store
  <1>4. CASE Advance(e) /\ faults' = faults
    BY <1>1, <1>2, <1>4 DEF Advance, Save
  <1>5. CASE SaveFails(e)
    BY <1>1, <1>5 DEF SaveFails, Fault
  <1> QED  BY <1>3, <1>4, <1>5

LEMMA LoopProcesses ==
    ASSUME IndexerInv, NEW l \in Loops, LoopStep(l)
    PROVE  IndexerInv'
  <1> DEFINE e == Min(loop[l].batch)
  <1>1. /\ loop \in [Loops -> LoopStates] /\ tip \in 0 .. MaxTip
        /\ loop[l].batch \subseteq Events /\ loop[l].batch # {}
        /\ loop[l].pc = "batch"
        /\ dropped \subseteq Events /\ isRunning \in BOOLEAN
    BY DEF IndexerInv, IndexerTypeOK, LoopStates, LoopStep
  <1>2. e \in loop[l].batch
    BY <1>1, FirstEvent
  <1>3. e \in Events /\ LedgerOf[e] <= tip /\ Covered(LedgerOf[e])
    BY <1>1, <1>2 DEF IndexerInv, BatchesCovered
  <1>4. UNCHANGED <<tip, isRunning, job>>
    BY DEF LoopStep
  <1>5. \/ /\ Duplicate(e) \/ Advance(e)
           /\ loop' = [loop EXCEPT ![l].batch = loop[l].batch \ {e}]
           /\ dropped' = dropped /\ faults' = faults
        \/ /\ SaveFails(e)
           /\ dropped' = dropped \cup (loop[l].batch \ {e})
           /\ loop' = [loop EXCEPT ![l] = [pc |-> IF isRunning THEN "poll" ELSE "off",
                                           from |-> 0, batch |-> {}]]
    BY DEF LoopStep, Drop, IterationEnds, SetLoop
  <1> HIDE DEF e
  <1>6. /\ processed' = processed \cup {e}
        /\ processed' \subseteq {d \in Events : LedgerOf[d] <= tip}
        /\ cursor' \in {cursor, LedgerOf[e]}
        /\ cursor' \in 0 .. tip
        /\ faults' \in 0 .. MaxFaults
    BY <1>3, <1>5, Processes
  <1>7. /\ \A m \in Loops : m # l => loop'[m] = loop[m]
        /\ loop' \in [Loops -> LoopStates]
        /\ loop'[l].pc # "fetch"
        /\ loop'[l].pc \in {"off", "poll"} => loop'[l].from = 0
        /\ loop'[l].pc # "batch" => loop'[l].batch = {}
        /\ loop'[l].batch \subseteq loop[l].batch
        /\ dropped' \subseteq Events /\ dropped \subseteq dropped'
        /\ loop[l].batch \subseteq loop'[l].batch \cup dropped' \cup {e}
    <2>1. CASE /\ loop' = [loop EXCEPT ![l].batch = loop[l].batch \ {e}]
               /\ dropped' = dropped
      <3>1. loop[l] \in LoopStates /\ loop[l].batch \ {e} \in SUBSET Events
        BY <1>1
      <3>2. /\ loop'[l].pc = "batch" /\ loop'[l].batch = loop[l].batch \ {e}
            /\ \A m \in Loops : m # l => loop'[m] = loop[m]
            /\ loop' \in [Loops -> LoopStates]
        BY <1>1, <2>1, <3>1 DEF LoopStates
      <3> QED  BY <1>1, <2>1, <3>2
    <2>2. CASE /\ dropped' = dropped \cup (loop[l].batch \ {e})
               /\ loop' = [loop EXCEPT ![l] = [pc |-> IF isRunning THEN "poll" ELSE "off",
                                               from |-> 0, batch |-> {}]]
      <3>1. [pc |-> IF isRunning THEN "poll" ELSE "off", from |-> 0, batch |-> {}] \in LoopStates
        BY IndexerAssumption DEF LoopStates
      <3>2. /\ loop'[l] = [pc |-> IF isRunning THEN "poll" ELSE "off", from |-> 0, batch |-> {}]
            /\ \A m \in Loops : m # l => loop'[m] = loop[m]
            /\ loop' \in [Loops -> LoopStates]
        BY <1>1, <2>2, <3>1
      <3> QED  BY <1>1, <2>2, <3>2
    <2> QED  BY <1>5, <2>1, <2>2
  <1>8. IndexerTypeOK'
    BY <1>4, <1>6, <1>7 DEF IndexerInv, IndexerTypeOK, LoopStates
  <1>9. \A d \in Events : Known(d) => Known(d)'
    BY <1>4, <1>6, <1>7 DEF Known
  <1>10. JobCovers' /\ tip <= tip'
    BY <1>1, <1>4, <1>6 DEF IndexerInv, JobCovers
  <1>11. /\ cursor' = cursor \/ \E d \in Events : cursor' = LedgerOf[d] /\ Covered(LedgerOf[d])
         /\ \A m \in Loops : loop'[m].pc = "fetch" => loop'[m] = loop[m]
         /\ \A m \in Loops : \A d \in loop'[m].batch : d \in loop[m].batch
    BY <1>3, <1>6, <1>7
  <1> QED  BY <1>4, <1>8, <1>9, <1>10, <1>11, Preserved

-----------------------------------------------------------------------------
LEMMA JobSteps ==
    ASSUME IndexerInv, BackfillStep \/ BackfillEnds \/ BackfillDies
    PROVE  IndexerInv'
  <1>1. /\ loop \in [Loops -> LoopStates] /\ tip \in 0 .. MaxTip
        /\ job \in JobStates /\ (~job.on => job = NoJob)
        /\ dropped \subseteq Events /\ faults \in 0 .. MaxFaults /\ cursor \in 0 .. tip
        /\ processed \subseteq {d \in Events : LedgerOf[d] <= tip}
        /\ NoJob \in JobStates /\ NoJob.batch = {} /\ ~NoJob.on
        /\ job.batch \subseteq Events
    BY IndexerAssumption DEF IndexerInv, IndexerTypeOK, LoopStates, JobStates, NoJob
  <1>2. UNCHANGED <<tip, isRunning, loop>>
    BY DEF BackfillStep, BackfillEnds, BackfillDies
  <1>3. /\ processed \subseteq processed'
        /\ processed' \subseteq {d \in Events : LedgerOf[d] <= tip}
        /\ cursor' \in 0 .. tip /\ faults' \in 0 .. MaxFaults
        /\ cursor' = cursor \/ \E d \in Events : cursor' = LedgerOf[d] /\ Covered(LedgerOf[d])
        /\ job' = NoJob \/ /\ job' = [job EXCEPT !.batch = job'.batch] /\ job.on
                           /\ job'.batch \subseteq job.batch
                           /\ job.batch \subseteq processed' \cup job'.batch
        /\ dropped \subseteq dropped' /\ dropped' \subseteq Events
        /\ job.batch \subseteq processed' \cup dropped' \cup job'.batch
    <2>1. CASE BackfillStep
      <3> DEFINE e == Min(job.batch)
      <3>1. e \in job.batch /\ job.on
        BY <1>1, <2>1, FirstEvent DEF BackfillStep
      <3>2. e \in Events /\ LedgerOf[e] <= tip /\ Covered(LedgerOf[e])
        BY <1>1, <3>1 DEF IndexerInv, BatchesCovered
      <3>3. \/ /\ Duplicate(e) \/ Advance(e)
               /\ job' = [job EXCEPT !.batch = job.batch \ {e}]
               /\ dropped' = dropped /\ faults' = faults
            \/ /\ SaveFails(e) /\ dropped' = dropped \cup (job.batch \ {e}) /\ job' = NoJob
        BY <2>1 DEF BackfillStep, Drop
      <3> HIDE DEF e
      <3>4. /\ processed' = processed \cup {e}
            /\ processed' \subseteq {d \in Events : LedgerOf[d] <= tip}
            /\ cursor' \in {cursor, LedgerOf[e]}
            /\ cursor' \in 0 .. tip
            /\ faults' \in 0 .. MaxFaults
        BY <3>2, <3>3, Processes
      <3>5. CASE job' = [job EXCEPT !.batch = job.batch \ {e}] /\ dropped' = dropped
        <4>1. job'.batch = job.batch \ {e}
          BY <1>1, <3>5 DEF JobStates
        <4> QED  BY <1>1, <3>1, <3>2, <3>4, <3>5, <4>1
      <3>6. CASE dropped' = dropped \cup (job.batch \ {e}) /\ job' = NoJob
        BY <1>1, <3>1, <3>2, <3>4, <3>6
      <3> QED  BY <3>3, <3>5, <3>6
    <2>2. CASE BackfillEnds
      BY <1>1, <2>2 DEF BackfillEnds, store
    <2>3. CASE BackfillDies
      BY <1>1, <2>3, IndexerAssumption DEF BackfillDies, Drop, Fault, store
    <2> QED  BY <2>1, <2>2, <2>3
  <1>4. job' \in JobStates /\ (~job'.on => job' = NoJob) /\ job'.batch \subseteq job.batch
    <2>1. CASE job' = NoJob
      BY <1>1, <2>1
    <2>2. CASE job' = [job EXCEPT !.batch = job'.batch] /\ job.on /\ job'.batch \subseteq job.batch
      <3>1. job'.batch \in SUBSET Events
        BY <1>1, <2>2
      <3> QED  BY <1>1, <2>2, <3>1 DEF JobStates
    <2> QED  BY <1>3, <2>1, <2>2
  <1>5. IndexerTypeOK'
    BY <1>2, <1>3, <1>4 DEF IndexerInv, IndexerTypeOK, JobStates
  <1>6. \A d \in Events : Known(d) => Known(d)'
    BY <1>2, <1>3 DEF Known
  <1>7. JobCovers'
    <2>1. CASE job' = NoJob
      BY <1>1, <2>1 DEF JobCovers
    <2>2. CASE /\ job' = [job EXCEPT !.batch = job'.batch] /\ job.on
               /\ job.batch \subseteq processed' \cup job'.batch
      <3>1. job'.cursor = job.cursor /\ job'.target = job.target
        BY <1>1, <2>2 DEF JobStates
      <3> QED  BY <1>3, <2>2, <3>1 DEF IndexerInv, JobCovers
    <2> QED  BY <1>3, <2>1, <2>2
  <1>8. tip <= tip'
    BY <1>1, <1>2
  <1> QED  BY <1>2, <1>3, <1>4, <1>5, <1>6, <1>7, <1>8, Preserved

(* The job asks from overlapWindow before the cursor, where all is known.  *)
LEMMA JobStarts ==
    ASSUME IndexerInv, NEW target \in 1 .. tip, BackfillStarts(target)
    PROVE  IndexerInv'
  <1> DEFINE start == StartLedger(cursor)
             work == Closed(start, target)
  <1>1. /\ tip \in 0 .. MaxTip /\ cursor \in 0 .. tip /\ target \in 1 .. tip
        /\ MaxTip \in Nat /\ overlapWindow \in Nat
    BY IndexerAssumption DEF IndexerInv, IndexerTypeOK
  <1>2. start \in Nat /\ start <= cursor /\ (start > 0 => start = cursor - overlapWindow)
    BY <1>1 DEF StartLedger
  <1>3. /\ work \subseteq Events
        /\ \A e \in work : LedgerOf[e] <= tip /\ LedgerOf[e] <= target
        /\ \A d \in Events : d \in work \/ LedgerOf[d] < start \/ target < LedgerOf[d]
    BY <1>1, <1>2, Ledgers DEF Closed
  <1>4. /\ job' = [on |-> TRUE, cursor |-> cursor, target |-> target, batch |-> work]
        /\ job = NoJob
        /\ UNCHANGED <<tip, cursor, processed, isRunning, loop, dropped, faults>>
    BY DEF BackfillStarts, store, IndexerInv, IndexerTypeOK
  <1> HIDE DEF work
  <1>5. job' \in JobStates /\ job'.on /\ job'.batch = work
    BY <1>1, <1>3, <1>4 DEF JobStates
  <1>6. IndexerTypeOK'
    BY <1>4, <1>5 DEF IndexerInv, IndexerTypeOK, JobStates
  <1>7. \A d \in Events : Known(d) => Known(d)'
    BY <1>4 DEF Known, NoJob
  <1>8. \A e \in work : Covered(LedgerOf[e])'
    <2> SUFFICES ASSUME NEW e \in work, NEW d \in Events, LedgerOf[d] <= LedgerOf[e]
                 PROVE  Known(d)'
      BY DEF Covered
    <2>1. CASE d \in work
      BY <1>5, <2>1 DEF Known
    <2>2. CASE LedgerOf[d] < start
      <3>1. LedgerOf[d] <= cursor
        BY <1>1, <1>2, <2>2, Ledgers
      <3> QED  BY <1>7, <3>1 DEF IndexerInv, Covered
    <2>3. ~(target < LedgerOf[d])
      BY <1>1, <1>3, Ledgers
    <2> QED  BY <1>3, <2>1, <2>2, <2>3
  <1>9. JobCovers'
    <2> SUFFICES ASSUME NEW d \in Events, LedgerOf[d] \in cursor - overlapWindow .. target
                 PROVE  d \in work
      BY <1>4, <1>5 DEF JobCovers
    <2>1. ~(LedgerOf[d] < start) /\ ~(target < LedgerOf[d])
      BY <1>1, <1>2, Ledgers
    <2> QED  BY <1>3, <2>1
  <1>10. tip <= tip'
    BY <1>1, <1>4
  <1> QED  BY <1>3, <1>4, <1>5, <1>6, <1>7, <1>8, <1>9, <1>10, Preserved

LEMMA OtherSteps ==
    ASSUME IndexerInv, CloseLedger \/ stop \/ Crash
    PROVE  IndexerInv'
  <1>1. /\ tip \in 0 .. MaxTip /\ cursor \in 0 .. tip /\ MaxTip \in Nat
        /\ MaxFaults \in Nat /\ faults \in 0 .. MaxFaults /\ dropped \subseteq Events
        /\ loop \in [Loops -> LoopStates]
        /\ processed \subseteq {d \in Events : LedgerOf[d] <= tip}
    BY IndexerAssumption DEF IndexerInv, IndexerTypeOK, LoopStates
  <1>2. UNCHANGED <<cursor, processed, job>>
    BY DEF CloseLedger, stop, Crash, store
  <1>3. JobCovers'
    BY <1>2 DEF IndexerInv, JobCovers
  <1>4. CASE CloseLedger \/ stop
    <2>1. /\ UNCHANGED <<loop, dropped>>
          /\ tip' \in 0 .. MaxTip /\ tip <= tip' /\ cursor \in 0 .. tip'
          /\ faults' \in 0 .. MaxFaults
          /\ isRunning' \in BOOLEAN
          /\ processed \subseteq {d \in Events : LedgerOf[d] <= tip'}
      <3>1. CASE CloseLedger
        <4>1. tip' = tip + 1 /\ tip < MaxTip /\ UNCHANGED <<loop, dropped, isRunning, faults>>
          BY <3>1 DEF CloseLedger
        <4>2. \A d \in Events : LedgerOf[d] <= tip => LedgerOf[d] <= tip'
          BY <1>1, <4>1, Ledgers
        <4>3. isRunning \in BOOLEAN
          BY DEF IndexerInv, IndexerTypeOK
        <4> QED  BY <1>1, <4>1, <4>2, <4>3
      <3>2. CASE stop
        <4>1. UNCHANGED <<tip, loop, dropped>> /\ isRunning' = FALSE
          BY <3>2 DEF stop
        <4>2. faults' \in 0 .. MaxFaults
          BY <1>1, <3>2 DEF stop, Fault
        <4>3. \A d \in Events : LedgerOf[d] <= tip => LedgerOf[d] <= tip'
          BY <4>1
        <4>4. tip' \in 0 .. MaxTip /\ tip <= tip' /\ cursor \in 0 .. tip'
          BY <1>1, <4>1
        <4> QED  BY <1>1, <4>1, <4>2, <4>3, <4>4
      <3> QED  BY <1>4, <3>1, <3>2
    <2>2. IndexerTypeOK'
      BY <1>2, <2>1 DEF IndexerInv, IndexerTypeOK
    <2>3. \A d \in Events : Known(d) => Known(d)'
      BY <1>2, <2>1 DEF Known
    <2> QED  BY <1>2, <1>3, <2>1, <2>2, <2>3, Preserved
  <1>5. CASE Crash
    <2>1. /\ loop' = [l \in Loops |-> Off] /\ isRunning' = FALSE /\ tip' = tip
          /\ dropped' = dropped \cup UNION {loop[l].batch : l \in Loops}
          /\ faults' \in 0 .. MaxFaults
      BY <1>1, <1>5 DEF Crash, Drop, Fault
    <2>2. Off \in LoopStates /\ Off.pc = "off" /\ Off.from = 0 /\ Off.batch = {}
      BY <1>1 DEF Off, LoopStates
    <2>3. /\ loop' \in [Loops -> LoopStates] /\ \A l \in Loops : loop'[l] = Off
          /\ dropped' \subseteq Events
      <3>1. \A l \in Loops : loop[l].batch \subseteq Events
        BY <1>1 DEF LoopStates
      <3> QED  BY <1>1, <2>1, <2>2, <3>1
    <2>4. IndexerTypeOK'
      BY <1>2, <2>1, <2>2, <2>3 DEF IndexerInv, IndexerTypeOK, LoopStates
    <2>5. \A d \in Events : Known(d) => Known(d)'
      BY <1>2, <2>1 DEF Known
    <2> QED  BY <1>1, <1>2, <1>3, <2>1, <2>2, <2>3, <2>4, <2>5, Preserved
  <1> QED  BY <1>4, <1>5

-----------------------------------------------------------------------------
LEMMA IndexerStarts ==
    IndexerInit => IndexerInv
  <1> SUFFICES ASSUME IndexerInit PROVE IndexerInv
    OBVIOUS
  <1>1. Off \in LoopStates /\ NoJob \in JobStates
    BY IndexerAssumption DEF Off, NoJob, LoopStates, JobStates
  <1>2. IndexerTypeOK
    <2>1. loop \in [Loops -> LoopStates] /\ \A l \in Loops : loop[l] = Off
      BY <1>1 DEF IndexerInit
    <2>2. Off.pc = "off" /\ Off.from = 0 /\ Off.batch = {} /\ ~NoJob.on
      BY DEF Off, NoJob
    <2>3. tip \in 0 .. MaxTip /\ cursor \in 0 .. tip /\ faults \in 0 .. MaxFaults
      BY IndexerAssumption DEF IndexerInit
    <2>4. processed = {} /\ dropped = {} /\ job = NoJob /\ isRunning = FALSE
      BY DEF IndexerInit
    <2> QED  BY <1>1, <2>1, <2>2, <2>3, <2>4 DEF IndexerTypeOK, LoopStates, JobStates
  <1>3. Covered(cursor)
    BY Ledgers DEF IndexerInit, Covered
  <1>4. FetchesCovered /\ BatchesCovered /\ JobCovers
    BY DEF IndexerInit, FetchesCovered, BatchesCovered, JobCovers, Off, NoJob
  <1> QED  BY <1>2, <1>3, <1>4 DEF IndexerInv

LEMMA IndexerStep ==
    IndexerInv /\ [IndexerNext]_indexerVars => IndexerInv'
  <1> SUFFICES ASSUME IndexerInv, [IndexerNext]_indexerVars PROVE IndexerInv'
    OBVIOUS
  <1>1. CASE UNCHANGED indexerVars
    BY <1>1 DEF indexerVars, store, IndexerInv, IndexerTypeOK, Covered, Known, FetchesCovered,
                BatchesCovered, JobCovers
  <1>2. ASSUME NEW l \in Loops,
               startMainLoop(l) \/ Wake(l) \/ FetchAnswers(l) \/ FetchFails(l)
                 \/ LoopStep(l) \/ BatchEnds(l)
        PROVE  IndexerInv'
    BY <1>2, Turns, Answers, LoopProcesses
  <1>3. CASE CloseLedger \/ stop \/ Crash
    BY <1>3, OtherSteps
  <1>4. ASSUME NEW target \in 1 .. tip, BackfillStarts(target) PROVE IndexerInv'
    BY <1>4, JobStarts
  <1>5. CASE BackfillStep \/ BackfillEnds \/ BackfillDies
    BY <1>5, JobSteps
  <1> QED  BY <1>1, <1>2, <1>3, <1>4, <1>5 DEF IndexerNext

(* The inductive invariant holds in every state of the specification.      *)
THEOREM IndexerInvariant ==
    IndexerSpec => []IndexerInv
  <1> QED  BY IndexerStarts, IndexerStep, PTL DEF IndexerSpec

(* Store, loops and job keep their types: the cursor is never ahead of the *)
(* chain, and an idle loop holds no events.                                *)
THEOREM IndexerTyped ==
    IndexerSpec => []IndexerTypeOK
  <1>1. IndexerInv => IndexerTypeOK
    BY DEF IndexerInv
  <1> QED  BY <1>1, IndexerInvariant, PTL

(* However many loops and backfills move the one cursor of cursorsDb, what *)
(* is behind it was processed, is in a batch, or was cut with its batch.   *)
THEOREM NoGapsButCuts ==
    IndexerSpec => []GapsOnlyAtCuts
  <1>1. IndexerInv => GapsOnlyAtCuts
    BY KnownIs DEF IndexerInv, Covered, GapsOnlyAtCuts
  <1> QED  BY <1>1, IndexerInvariant, PTL

(* A backfill that reports success leaves no gap in what it was asked for. *)
THEOREM BackfillsHeal ==
    IndexerSpec => BackfillHeals
  <1>1. IndexerInv /\ [IndexerNext]_indexerVars =>
          [ BackfillEnds =>
              \A e \in Events :
                LedgerOf[e] \in job.cursor - overlapWindow .. job.target => e \in processed ]_indexerVars
    BY DEF BackfillEnds, IndexerInv, JobCovers
  <1> QED  BY <1>1, IndexerInvariant, PTL DEF IndexerSpec, BackfillHeals
=============================================================================
