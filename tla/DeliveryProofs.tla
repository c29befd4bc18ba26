-------------------------- MODULE DeliveryProofs --------------------------
(***************************************************************************)
(* Proofs about what reaches the outside: the webhooks of WebhookDelivery, *)
(* for any endpoints, bounds, threshold and drain limit, and the live      *)
(* updates of LiveEvents, for any number of connections, routes, limits    *)
(* and writers. The two have no state in common.                           *)
(***************************************************************************)
EXTENDS WebhookDelivery, LiveEvents, Integers, SequenceTheorems, TLAPS

(***************************************************************************)
(* Webhooks.  What makes the properties inductive: the entry that is       *)
(* processing, the delivery that runs for it and current agree; whatever   *)
(* waits in the queue is pending; a delivery under way has attempts left;  *)
(* and a halt or an open breaker is newer than any attempt under way.      *)
(***************************************************************************)

Statuses == {"pending", "processing", "delivered", "dlq"}
EntriesOfOutbox == [endpoint : Endpoints, status : Statuses]
HookRecords ==
    [ endpoint : Endpoints, event : Nat, origin : {"outbox", "replay", "redeliver"},
      of : Nat, full : BOOLEAN, attempts : Nat,
      status : {"pending", "delivered", "dlq"}, phase : Running \cup {"over"} ]
Letters == [delivery : Nat, replayedBy : Nat]
Breakers == [Endpoints -> [failures : Nat, expired : BOOLEAN]]

OutboxFits(entries) == entries \in Seq(EntriesOfOutbox) /\ Len(entries) <= MaxEvents

Sound(entries, r) ==
    /\ r \in HookRecords
    /\ r.event \in 1 .. Len(entries)
    /\ r.attempts <= MaxAttempts
    /\ r.origin = "outbox" => r.full

RecordFits(entries, r) ==
    Sound(entries, r) /\ (r.phase \in Running => r.attempts < MaxAttempts)

RecordsFit(entries, records) ==
    /\ records \in Seq(HookRecords)
    /\ \A d \in 1 .. Len(records) : RecordFits(entries, records[d])

LettersFit(records, letters) ==
    /\ letters \in Seq(Letters)
    /\ \A l \in 1 .. Len(letters) :
        /\ letters[l].delivery \in 1 .. Len(records)
        /\ letters[l].replayedBy \in 0 .. Len(records)

(* The drain waits for this delivery.                                      *)
Awaited(r) == r.origin = "outbox" /\ r.phase \in Running

(* An entry is claimed exactly while delivery c, which the drain waits     *)
(* for, works on it.                                                       *)
ClaimsAgree(entries, records, c) ==
    /\ \A d \in 1 .. Len(records) : Awaited(records[d]) => d = c
    /\ c # 0 => /\ c \in 1 .. Len(records) /\ Awaited(records[c])
                /\ entries[records[c].event].status = "processing"
    /\ \A e \in 1 .. Len(entries) :
        entries[e].status = "processing" => c # 0 /\ records[c].event = e

Waits(entries, q) == \A e \in q : e \in 1 .. Len(entries) /\ entries[e].status = "pending"

HookInv ==
    /\ OutboxFits(outbox) /\ RecordsFit(outbox, deliveries) /\ LettersFit(deliveries, dlq)
    /\ ClaimsAgree(outbox, deliveries, current)
    /\ Waits(outbox, queue)
    /\ breaker \in Breakers /\ halted \in BOOLEAN /\ halts \in 0 .. MaxHalts
    /\ received \subseteq 1 .. Len(outbox)

(* Delivery d is being worked on, with the stores as given.                *)
Working(entries, records, d) ==
    /\ OutboxFits(entries) /\ RecordsFit(entries, records) /\ d \in 1 .. Len(records)
    /\ records[d].origin = "outbox" =>
        /\ \A c \in 1 .. Len(records) : Awaited(records[c]) => c = d
        /\ \A e \in 1 .. Len(entries) :
            entries[e].status = "processing" <=> e = records[d].event
    /\ records[d].origin # "outbox" => ClaimsAgree(entries, records, current)

(* r is record d of the same delivery, later on.                           *)
Continues(records, d, r) ==
    /\ r.origin = records[d].origin /\ r.event = records[d].event

(* What one turn leaves behind.                                            *)
Left(entries, records) ==
    /\ OutboxFits(outbox') /\ Len(outbox') = Len(entries)
    /\ RecordsFit(outbox', deliveries') /\ Len(deliveries') = Len(records)
    /\ ClaimsAgree(outbox', deliveries', current')

-----------------------------------------------------------------------------
Put(records, d, r) == [records EXCEPT ![d] = r]

LEMMA RecordSet ==
    ASSUME NEW entries, NEW records, RecordsFit(entries, records),
           NEW d \in 1 .. Len(records), NEW r, RecordFits(entries, r)
    PROVE  /\ RecordsFit(entries, Put(records, d, r))
           /\ Len(Put(records, d, r)) = Len(records)
           /\ Put(records, d, r)[d] = r
           /\ \A c \in 1 .. Len(records) : c # d => Put(records, d, r)[c] = records[c]
  <1>1. records \in Seq(HookRecords) /\ r \in HookRecords
    BY DEF RecordsFit, RecordFits, Sound
  <1>2. /\ [records EXCEPT ![d] = r] \in Seq(HookRecords)
        /\ Len([records EXCEPT ![d] = r]) = Len(records)
        /\ \A j \in 1 .. Len(records) :
             [records EXCEPT ![d] = r][j] = IF j = d THEN r ELSE records[j]
    BY <1>1, ExceptSeq
  <1> QED  BY <1>2 DEF RecordsFit, Put

LEMMA RecordAdded ==
    ASSUME NEW entries, NEW records, RecordsFit(entries, records),
           NEW r, RecordFits(entries, r)
    PROVE  /\ RecordsFit(entries, Append(records, r))
           /\ Len(Append(records, r)) = Len(records) + 1
           /\ Len(records) \in Nat
           /\ Append(records, r)[Len(records) + 1] = r
           /\ \A c \in 1 .. Len(records) : Append(records, r)[c] = records[c]
  <1>1. records \in Seq(HookRecords) /\ r \in HookRecords
    BY DEF RecordsFit, RecordFits, Sound
  <1>2. /\ Append(records, r) \in Seq(HookRecords)
        /\ Len(Append(records, r)) = Len(records) + 1 /\ Len(records) \in Nat
        /\ \A j \in 1 .. Len(records) : Append(records, r)[j] = records[j]
        /\ Append(records, r)[Len(records) + 1] = r
    BY <1>1, AppendProperties
  <1> QED  BY <1>1, <1>2 DEF RecordsFit

(* Records depend on the outbox only through its length.                   *)
LEMMA RecordsKept ==
    ASSUME NEW entries, NEW others, NEW records, RecordsFit(entries, records),
           Len(entries) \in Nat, Len(others) \in Nat, Len(entries) <= Len(others)
    PROVE  RecordsFit(others, records)
  BY DEF RecordsFit, RecordFits, Sound

LEMMA OverFits ==
    ASSUME NEW entries, NEW r, Sound(entries, r)
    PROVE  /\ RecordFits(entries, [r EXCEPT !.phase = "over"])
           /\ [r EXCEPT !.phase = "over"].phase = "over"
           /\ [r EXCEPT !.phase = "over"].origin = r.origin
           /\ [r EXCEPT !.phase = "over"].event = r.event
  BY DEF Sound, RecordFits, HookRecords, Running

Marked(entries, e, status) == [entries EXCEPT ![e].status = status]

LEMMA EntrySet ==
    ASSUME NEW entries, OutboxFits(entries), NEW e \in 1 .. Len(entries),
           NEW status \in Statuses
    PROVE  /\ OutboxFits(Marked(entries, e, status))
           /\ Len(Marked(entries, e, status)) = Len(entries)
           /\ Marked(entries, e, status)[e].status = status
           /\ \A j \in 1 .. Len(entries) : j # e => Marked(entries, e, status)[j] = entries[j]
  <1> DEFINE entry == [entries[e] EXCEPT !.status = status]
  <1>1. entries \in Seq(EntriesOfOutbox)
    BY DEF OutboxFits
  <1>2. entries[e] \in EntriesOfOutbox
    BY <1>1
  <1>3. entry \in EntriesOfOutbox /\ entry.status = status
    BY <1>2 DEF EntriesOfOutbox
  <1>4. [entries EXCEPT ![e].status = status] = [entries EXCEPT ![e] = entry]
    BY <1>1
  <1> HIDE DEF entry
  <1>5. /\ [entries EXCEPT ![e] = entry] \in Seq(EntriesOfOutbox)
        /\ Len([entries EXCEPT ![e] = entry]) = Len(entries)
        /\ \A j \in 1 .. Len(entries) :
             [entries EXCEPT ![e] = entry][j] = IF j = e THEN entry ELSE entries[j]
    BY <1>1, <1>3, ExceptSeq
  <1> QED  BY <1>3, <1>4, <1>5 DEF OutboxFits, Marked

LEMMA OutboxTurned ==
    ASSUME NEW entries, OutboxFits(entries), NEW r, r.event \in 1 .. Len(entries),
           NEW status \in Statuses, NEW after, after = OutboxWith(entries, r, status)
    PROVE  /\ OutboxFits(after) /\ Len(after) = Len(entries)
           /\ r.origin = "outbox" => after[r.event].status = status
           /\ \A e \in 1 .. Len(entries) :
                r.origin # "outbox" \/ e # r.event => after[e] = entries[e]
  BY EntrySet DEF OutboxWith, Marked

-----------------------------------------------------------------------------
(* A delivery that ends gives its entry back or settles it, and the drain  *)
(* stops waiting for it.                                                   *)
LEMMA ConcludeKeeps ==
    ASSUME NEW entries, NEW records, NEW d, Working(entries, records, d),
           NEW r, Continues(records, d, r), Sound(entries, r),
           NEW status \in {"pending", "delivered", "dlq"},
           Conclude(entries, records, d, r, status)
    PROVE  /\ Left(entries, records)
           /\ outbox' = OutboxWith(entries, records[d], status)
  <1> DEFINE over == [r EXCEPT !.phase = "over"]
  <1>1. /\ OutboxFits(entries) /\ RecordsFit(entries, records) /\ d \in 1 .. Len(records)
        /\ records[d].event \in 1 .. Len(entries)
    BY DEF Working, RecordsFit, RecordFits, Sound
  <1>2. /\ deliveries' = [records EXCEPT ![d] = over]
        /\ outbox' = OutboxWith(entries, records[d], status)
        /\ current' = IF records[d].origin = "outbox" THEN 0 ELSE current
    BY DEF Conclude, Continues, OutboxWith
  <1>3. RecordFits(entries, over) /\ over.phase = "over"
        /\ over.origin = records[d].origin /\ over.event = records[d].event
    BY OverFits DEF Continues
  <1> HIDE DEF over
  <1>4. /\ RecordsFit(entries, deliveries') /\ Len(deliveries') = Len(records)
        /\ deliveries'[d] = over
        /\ \A c \in 1 .. Len(records) : c # d => deliveries'[c] = records[c]
    <2>1. deliveries' = Put(records, d, over)
      BY <1>2 DEF Put
    <2> QED  BY <1>1, <1>3, <2>1, RecordSet
  <1>5. /\ OutboxFits(outbox') /\ Len(outbox') = Len(entries)
        /\ records[d].origin = "outbox" => outbox'[records[d].event].status = status
        /\ \A e \in 1 .. Len(entries) :
             records[d].origin # "outbox" \/ e # records[d].event => outbox'[e] = entries[e]
    <2>1. status \in Statuses
      BY DEF Statuses
    <2> QED  BY <1>1, <1>2, <2>1, OutboxTurned
  <1>6. RecordsFit(outbox', deliveries')
    BY <1>4, <1>5, RecordsKept DEF OutboxFits
  <1>7. ~Awaited(deliveries'[d])
    BY <1>3, <1>4 DEF Awaited, Running
  <1>8. ClaimsAgree(outbox', deliveries', current')
    <2>1. CASE records[d].origin = "outbox"
      <3>1. /\ \A c \in 1 .. Len(records) : Awaited(records[c]) => c = d
            /\ \A e \in 1 .. Len(entries) :
                 entries[e].status = "processing" => e = records[d].event
        BY <2>1 DEF Working
      <3>2. \A c \in 1 .. Len(deliveries') : ~Awaited(deliveries'[c])
        BY <3>1, <1>4, <1>7
      <3>3. \A e \in 1 .. Len(outbox') : outbox'[e].status # "processing"
        BY <3>1, <1>5, <2>1
      <3>4. current' = 0
        BY <1>2, <2>1
      <3> QED  BY <3>2, <3>3, <3>4 DEF ClaimsAgree
    <2>2. CASE records[d].origin # "outbox"
      <3>1. ClaimsAgree(entries, records, current) /\ current' = current
        BY <1>2, <2>2 DEF Working
      <3>2. current # d
        BY <3>1, <1>1, <2>2 DEF ClaimsAgree, Awaited
      <3>3. \A e \in 1 .. Len(entries) : outbox'[e] = entries[e]
        BY <1>5, <2>2
      <3>4. current # 0 => deliveries'[current] = records[current]
                           /\ records[current].event \in 1 .. Len(entries)
        BY <3>1, <3>2, <1>1, <1>4 DEF ClaimsAgree, RecordsFit, RecordFits, Sound
      <3>5. \A c \in 1 .. Len(deliveries') : Awaited(deliveries'[c]) => c = current
        BY <3>1, <1>4, <1>7 DEF ClaimsAgree
      <3> QED  BY <3>1, <3>3, <3>4, <3>5, <1>4, <1>5 DEF ClaimsAgree
    <2> QED  BY <2>1, <2>2
  <1> QED  BY <1>2, <1>4, <1>5, <1>6, <1>8 DEF Left

(* A delivery that goes on keeps its entry claimed.                        *)
LEMMA RunningKeeps ==
    ASSUME NEW entries, NEW records, NEW d, Working(entries, records, d),
           NEW r, Continues(records, d, r), RecordFits(entries, r), r.phase \in Running,
           deliveries' = Put(records, d, r), outbox' = entries,
           current' = IF records[d].origin = "outbox" THEN d ELSE current
    PROVE  /\ Left(entries, records)
           /\ outbox' = OutboxWith(entries, records[d], "processing")
  <1>1. /\ OutboxFits(entries) /\ RecordsFit(entries, records) /\ d \in 1 .. Len(records)
        /\ records[d].event \in 1 .. Len(entries)
    BY DEF Working, RecordsFit, RecordFits, Sound
  <1>4. /\ RecordsFit(entries, deliveries') /\ Len(deliveries') = Len(records)
        /\ deliveries'[d] = r
        /\ \A c \in 1 .. Len(records) : c # d => deliveries'[c] = records[c]
    <2>1. RecordFits(entries, r) /\ deliveries' = Put(records, d, r)
      OBVIOUS
    <2>2. /\ RecordsFit(entries, Put(records, d, r))
          /\ Len(Put(records, d, r)) = Len(records)
          /\ Put(records, d, r)[d] = r
          /\ \A c \in 1 .. Len(records) : c # d => Put(records, d, r)[c] = records[c]
      BY ONLY <1>1, <2>1, RecordSet
    <2> QED  BY <2>1, <2>2
  <1>5. r.origin = records[d].origin /\ r.event = records[d].event
    BY DEF Continues
  <1>8. ClaimsAgree(outbox', deliveries', current')
    <2>1. CASE records[d].origin = "outbox"
      <3>1. /\ \A c \in 1 .. Len(records) : Awaited(records[c]) => c = d
            /\ \A e \in 1 .. Len(entries) :
                 entries[e].status = "processing" <=> e = records[d].event
        BY <2>1 DEF Working
      <3>2. \A c \in 1 .. Len(deliveries') : Awaited(deliveries'[c]) => c = d
        BY <3>1, <1>4
      <3>3. Awaited(deliveries'[d])
        BY <1>4, <1>5, <2>1 DEF Awaited
      <3>4. current' = d /\ d # 0
        BY <1>1, <2>1
      <3> QED  BY <3>1, <3>2, <3>3, <3>4, <1>1, <1>4, <1>5 DEF ClaimsAgree
    <2>2. CASE records[d].origin # "outbox"
      <3>1. ClaimsAgree(entries, records, current) /\ current' = current
        BY <2>2 DEF Working
      <3>2. current # d
        BY <3>1, <1>1, <2>2 DEF ClaimsAgree, Awaited
      <3>4. current # 0 => deliveries'[current] = records[current]
        BY <3>1, <3>2, <1>4 DEF ClaimsAgree
      <3>5. \A c \in 1 .. Len(deliveries') : Awaited(deliveries'[c]) => c = current
        BY <3>1, <1>4, <1>5, <2>2 DEF ClaimsAgree, Awaited
      <3> QED  BY <3>1, <3>4, <3>5, <1>4 DEF ClaimsAgree
    <2> QED  BY <2>1, <2>2
  <1>9. outbox' = OutboxWith(entries, records[d], "processing")
    <2>1. CASE records[d].origin = "outbox"
      <3>1. entries[records[d].event].status = "processing"
        BY <1>1, <2>1 DEF Working
      <3> DEFINE e == records[d].event
      <3>2. entries \in Seq(EntriesOfOutbox) /\ entries[e] \in EntriesOfOutbox
        BY <1>1 DEF OutboxFits
      <3>3. [entries[e] EXCEPT !.status = "processing"] = entries[e]
        BY <3>1, <3>2 DEF EntriesOfOutbox
      <3>4. [entries EXCEPT ![e].status = "processing"] = entries
        BY <3>2, <3>3
      <3> QED  BY <3>4, <2>1 DEF OutboxWith
    <2> QED  BY <2>1 DEF OutboxWith
  <1> QED  BY <1>1, <1>4, <1>8, <1>9 DEF Left

LEMMA LettersKept ==
    ASSUME NEW records, NEW others, NEW letters, LettersFit(records, letters),
           Len(records) \in Nat, Len(others) \in Nat, Len(records) <= Len(others)
    PROVE  LettersFit(others, letters)
  BY DEF LettersFit

LEMMA LetterSet ==
    ASSUME NEW records, NEW letters, LettersFit(records, letters),
           NEW l \in 1 .. Len(letters), NEW d \in 1 .. Len(records), Len(records) \in Nat
    PROVE  LettersFit(records, [letters EXCEPT ![l].replayedBy = d])
  <1> DEFINE letter == [letters[l] EXCEPT !.replayedBy = d]
  <1>1. letters \in Seq(Letters) /\ letters[l] \in Letters
    BY DEF LettersFit
  <1>2. letter \in Letters /\ letter.replayedBy = d /\ letter.delivery = letters[l].delivery
    BY <1>1 DEF Letters
  <1>3. [letters EXCEPT ![l].replayedBy = d] = [letters EXCEPT ![l] = letter]
    BY <1>1
  <1> HIDE DEF letter
  <1>4. /\ [letters EXCEPT ![l] = letter] \in Seq(Letters)
        /\ Len([letters EXCEPT ![l] = letter]) = Len(letters)
        /\ \A j \in 1 .. Len(letters) :
             [letters EXCEPT ![l] = letter][j] = IF j = l THEN letter ELSE letters[j]
    BY <1>1, <1>2, ExceptSeq
  <1> QED  BY <1>2, <1>3, <1>4 DEF LettersFit

LEMMA LetteredFits ==
    ASSUME NEW records, NEW letters, LettersFit(records, letters),
           NEW d \in 1 .. Len(records), NEW r
    PROVE  LettersFit(records, Lettered(letters, r, d))
  <1> DEFINE letter == [delivery |-> d, replayedBy |-> 0]
  <1>1. letters \in Seq(Letters) /\ letter \in Letters
    BY DEF LettersFit, Letters
  <1>2. letter.delivery = d /\ letter.replayedBy = 0
    OBVIOUS
  <1>3. Lettered(letters, r, d) = letters \/ Lettered(letters, r, d) = Append(letters, letter)
    BY DEF Lettered
  <1> HIDE DEF letter
  <1>4. /\ Append(letters, letter) \in Seq(Letters)
        /\ Len(Append(letters, letter)) = Len(letters) + 1
        /\ \A j \in 1 .. Len(letters) : Append(letters, letter)[j] = letters[j]
        /\ Append(letters, letter)[Len(letters) + 1] = letter
    BY <1>1, AppendProperties
  <1>5. LettersFit(records, Append(letters, letter))
    BY <1>1, <1>2, <1>4 DEF LettersFit
  <1> QED  BY <1>3, <1>5

LEMMA DeadLetterKeeps ==
    ASSUME NEW entries, NEW records, NEW letters, NEW d, Working(entries, records, d),
           NEW r, Continues(records, d, r), Sound(entries, r),
           LettersFit(records, letters), DeadLettered(entries, records, letters, d, r)
    PROVE  /\ Left(entries, records)
           /\ LettersFit(deliveries', dlq')
           /\ outbox' = OutboxWith(entries, records[d], "dlq")
  <1> DEFINE s == [r EXCEPT !.status = DeadStatus(r)]
  <1>1. DeadStatus(r) \in {"pending", "delivered", "dlq"}
    BY DEF DeadStatus, Sound, HookRecords
  <1>2. Sound(entries, s) /\ Continues(records, d, s)
    BY <1>1 DEF Sound, HookRecords, Continues
  <1>3. Conclude(entries, records, d, s, "dlq") /\ dlq' = Lettered(letters, r, d)
    BY DEF DeadLettered
  <1> HIDE DEF s
  <1>4. Left(entries, records) /\ outbox' = OutboxWith(entries, records[d], "dlq")
    BY <1>2, <1>3, ConcludeKeeps
  <1>5. LettersFit(deliveries', dlq')
    <2>1. d \in 1 .. Len(records) /\ Len(records) \in Nat
      BY DEF Working, RecordsFit
    <2>2. LettersFit(records, Lettered(letters, r, d))
      BY <2>1, LetteredFits
    <2>3. Len(deliveries') = Len(records)
      BY <1>4 DEF Left
    <2> QED  BY <1>3, <2>1, <2>2, <2>3, LettersKept
  <1> QED  BY <1>4, <1>5

(* One turn of the attempt loop.                                           *)
LEMMA AttemptKeeps ==
    ASSUME NEW entries, NEW records, NEW letters, NEW d, Working(entries, records, d),
           LettersFit(records, letters), breaker \in Breakers,
           records[d].attempts < MaxAttempts,
           Attempt(entries, records, letters, d)
    PROVE  /\ Left(entries, records)
           /\ LettersFit(deliveries', dlq') /\ breaker' \in Breakers
           /\ \E status \in {"pending", "processing", "dlq"} :
                outbox' = OutboxWith(entries, records[d], status)
  <1>1. /\ d \in 1 .. Len(records) /\ records \in Seq(HookRecords)
        /\ records[d] \in HookRecords /\ Sound(entries, records[d])
        /\ Len(records) \in Nat
    BY DEF Working, RecordsFit, RecordFits, Sound
  <1>2. Continues(records, d, records[d])
    BY DEF Continues
  <1>3. CASE Held(entries, records, letters, d)
    <2>1. Conclude(entries, records, d, records[d], "pending") /\ dlq' = letters
          /\ breaker' = breaker
      BY <1>3 DEF Held
    <2>2. Left(entries, records) /\ outbox' = OutboxWith(entries, records[d], "pending")
      BY <1>1, <1>2, <2>1, ConcludeKeeps
    <2>3. Len(deliveries') = Len(records)
      BY <2>2 DEF Left
    <2> QED  BY <1>1, <2>1, <2>2, <2>3, LettersKept
  <1>4. CASE DeadLettered(entries, records, letters, d, records[d]) /\ UNCHANGED breaker
    BY <1>1, <1>2, <1>4, DeadLetterKeeps
  <1>5. CASE /\ deliveries' = [records EXCEPT ![d].phase = "fetch"]
             /\ outbox' = entries /\ dlq' = letters
             /\ current' = IF records[d].origin = "outbox" THEN d ELSE current
             /\ breaker' = CircuitChecked(records[d].endpoint)
    <2> DEFINE r == [records[d] EXCEPT !.phase = "fetch"]
    <2>1. RecordFits(entries, r) /\ Continues(records, d, r) /\ r.phase \in Running
      BY <1>1 DEF RecordFits, Sound, HookRecords, Running, Continues
    <2>2. deliveries' = Put(records, d, r)
      BY <1>1, <1>5 DEF Put
    <2> HIDE DEF r
    <2>3. Left(entries, records) /\ outbox' = OutboxWith(entries, records[d], "processing")
      BY <1>5, <2>1, <2>2, RunningKeeps
    <2>4. Len(deliveries') = Len(records)
      BY <2>3 DEF Left
    <2>5. breaker' \in Breakers
      BY <1>5 DEF CircuitChecked, Breakers, NoFailures
    <2>6. LettersFit(deliveries', dlq')
      <3>1. dlq' = letters
        BY <1>5
      <3> QED  BY <1>1, <2>4, <3>1, LettersKept
    <2> QED  BY <2>3, <2>5, <2>6
  <1> QED  BY <1>3, <1>4, <1>5 DEF Attempt

-----------------------------------------------------------------------------
(* What the outbox says of an event.                                       *)
FateIn(entries, e) ==
    IF e \notin 1 .. Len(entries) THEN "none"
    ELSE IF entries[e].status \in Unsettled THEN "waiting"
    ELSE IF entries[e].status = "delivered" THEN "delivered" ELSE "parked"

Fates == [e \in 1 .. MaxEvents |-> Fate(e)]

LEMMA FateIs ==
    ASSUME OutboxFits(outbox)
    PROVE  \A e : Fate(e) = FateIn(outbox, e)
  <1>1. DOMAIN outbox = 1 .. Len(outbox)
    BY DEF OutboxFits
  <1>2. \A e \in 1 .. Len(outbox) : outbox[e].status \in Statuses
    <2>1. \A e \in 1 .. Len(outbox) : outbox[e] \in EntriesOfOutbox
      BY DEF OutboxFits
    <2> QED  BY <2>1 DEF EntriesOfOutbox
  <1>3. ASSUME NEW e \in 1 .. Len(outbox)
        PROVE  Fate(e) = FateIn(outbox, e)
    <2>1. outbox[e].status \in Statuses
      BY <1>2
    <2>2. CASE outbox[e].status \in Unsettled
      BY <1>1, <2>2 DEF Fate, FateIn, Unsettled
    <2>3. CASE outbox[e].status = "delivered"
      BY <1>1, <2>3 DEF Fate, FateIn, Unsettled
    <2>4. CASE outbox[e].status = "dlq"
      BY <1>1, <2>4 DEF Fate, FateIn, Unsettled
    <2> QED  BY <2>1, <2>2, <2>3, <2>4 DEF Statuses, Unsettled
  <1>4. ASSUME NEW e, e \notin 1 .. Len(outbox)
        PROVE  Fate(e) = FateIn(outbox, e)
    BY <1>1, <1>4 DEF Fate, FateIn
  <1> QED  BY <1>3, <1>4

LEMMA FateWillBe ==
    ASSUME OutboxFits(outbox')
    PROVE  \A e : Fate(e)' = FateIn(outbox', e)
  <1>1. DOMAIN outbox' = 1 .. Len(outbox')
    BY DEF OutboxFits
  <1>2. \A e \in 1 .. Len(outbox') : outbox'[e].status \in Statuses
    <2>1. \A e \in 1 .. Len(outbox') : outbox'[e] \in EntriesOfOutbox
      BY DEF OutboxFits
    <2> QED  BY <2>1 DEF EntriesOfOutbox
  <1>3. ASSUME NEW e \in 1 .. Len(outbox')
        PROVE  Fate(e)' = FateIn(outbox', e)
    <2>1. outbox'[e].status \in Statuses
      BY <1>2
    <2>2. CASE outbox'[e].status \in Unsettled
      BY <1>1, <2>2 DEF Fate, FateIn, Unsettled
    <2>3. CASE outbox'[e].status = "delivered"
      BY <1>1, <2>3 DEF Fate, FateIn, Unsettled
    <2>4. CASE outbox'[e].status = "dlq"
      BY <1>1, <2>4 DEF Fate, FateIn, Unsettled
    <2> QED  BY <2>1, <2>2, <2>3, <2>4 DEF Statuses, Unsettled
  <1>4. ASSUME NEW e, e \notin 1 .. Len(outbox')
        PROVE  Fate(e)' = FateIn(outbox', e)
    BY <1>1, <1>4 DEF Fate, FateIn
  <1> QED  BY <1>3, <1>4

(* A turn that leaves entry r.event in the state given, seen from outside. *)
LEMMA TurnKeepsPromise ==
    ASSUME OutboxFits(outbox), OutboxFits(outbox'),
           NEW entries, OutboxFits(entries), Len(entries) = Len(outbox),
           \A e \in 1 .. Len(entries) : FateIn(entries, e) = FateIn(outbox, e),
           NEW r, r.event \in 1 .. Len(entries),
           r.origin = "outbox" => entries[r.event].status = "processing",
           NEW status \in Statuses, outbox' = OutboxWith(entries, r, status),
           received' = received \/ received' = received \cup {r.event},
           status = "delivered" /\ r.origin = "outbox" => received' = received \cup {r.event}
    PROVE  [Promise!Next]_<<Fates, received>>
  <1> DEFINE x == r.event
  <1>1. x \in 1 .. MaxEvents /\ x \in 1 .. Len(outbox) /\ Len(outbox) \in Nat
    BY WebhookAssumption DEF OutboxFits
  <1>2. /\ Len(outbox') = Len(entries)
        /\ r.origin = "outbox" => outbox'[x].status = status
        /\ \A e \in 1 .. Len(entries) :
             r.origin # "outbox" \/ e # x => outbox'[e] = entries[e]
    BY OutboxTurned
  <1>3. \A e : e # x \/ r.origin # "outbox" => FateIn(outbox', e) = FateIn(outbox, e)
    BY <1>2 DEF FateIn
  <1>4. r.origin = "outbox" => FateIn(outbox, x) = "waiting"
    BY DEF FateIn, Unsettled
  <1>5. r.origin = "outbox" =>
          FateIn(outbox', x) = IF status \in Unsettled THEN "waiting"
                               ELSE IF status = "delivered" THEN "delivered" ELSE "parked"
    BY <1>2 DEF FateIn
  <1>6. FateIn(outbox, x) # "none"
    BY <1>1 DEF FateIn
  <1>7. \A e : Fate(e) = FateIn(outbox, e) /\ Fate(e)' = FateIn(outbox', e)
    BY FateIs, FateWillBe
  <1> HIDE DEF x
  <1>8. /\ Fates = [e \in 1 .. MaxEvents |-> FateIn(outbox, e)]
        /\ Fates' = [e \in 1 .. MaxEvents |-> FateIn(outbox', e)]
    BY <1>7 DEF Fates
  <1>9. CASE Fates' = Fates
    <2>1. Fates[x] # "none"
      BY <1>1, <1>6, <1>8
    <2>2. received' = received \/ Promise!Arrive(x)
      BY <1>9, <2>1 DEF Promise!Arrive, Fates, x
    <2> QED  BY <1>1, <1>9, <2>2 DEF Promise!Next, Promise!Events
  <1>10. CASE Fates' # Fates
    <2>1. r.origin = "outbox" /\ status \notin Unsettled
      BY <1>3, <1>4, <1>5, <1>8, <1>10
    <2>2. Fates[x] = "waiting"
      BY <1>1, <1>4, <1>8, <2>1
    <2>3. CASE status = "delivered"
      <3>1. Fates' = [Fates EXCEPT ![x] = "delivered"]
        BY <1>1, <1>3, <1>5, <1>8, <2>1, <2>3
      <3>2. received' = received \cup {x}
        BY <2>1, <2>3 DEF x
      <3>3. Promise!Deliver(x)
        BY <2>2, <3>1, <3>2 DEF Promise!Deliver, Fates
      <3> QED  BY <1>1, <3>3 DEF Promise!Next, Promise!Events
    <2>4. CASE status # "delivered"
      <3>1. Fates' = [Fates EXCEPT ![x] = "parked"]
        BY <1>1, <1>3, <1>5, <1>8, <2>1, <2>4
      <3>2. received' \in {received, received \cup {x}}
        BY DEF x
      <3>3. Promise!Park(x)
        BY <2>2, <3>1, <3>2 DEF Promise!Park, Fates
      <3> QED  BY <1>1, <3>3 DEF Promise!Next, Promise!Events
    <2> QED  BY <2>3, <2>4
  <1> QED  BY <1>9, <1>10

-----------------------------------------------------------------------------
Outward == [Promise!Next]_<<Fates, received>>

(* A turn of delivery d has ended, the stores before it as given.          *)
LEMMA TurnDone ==
    ASSUME HookInv, NEW entries, NEW records, NEW d, Working(entries, records, d),
           Len(entries) = Len(outbox),
           \A e \in 1 .. Len(entries) : FateIn(entries, e) = FateIn(outbox, e),
           Left(entries, records), LettersFit(deliveries', dlq'), breaker' \in Breakers,
           Waits(entries, queue'), UNCHANGED <<halted, halts>>,
           NEW status \in Statuses, outbox' = OutboxWith(entries, records[d], status),
           received' = received \/ received' = received \cup {records[d].event},
           status = "delivered" /\ records[d].origin = "outbox" =>
             received' = received \cup {records[d].event}
    PROVE  HookInv' /\ Outward
  <1>1. /\ OutboxFits(entries) /\ records[d].event \in 1 .. Len(entries)
        /\ records[d].origin = "outbox" => entries[records[d].event].status = "processing"
    BY DEF Working, RecordsFit, RecordFits, Sound
  <1>2. /\ OutboxFits(outbox') /\ Len(outbox') = Len(entries)
        /\ RecordsFit(outbox', deliveries') /\ ClaimsAgree(outbox', deliveries', current')
    BY DEF Left
  <1>3. \A e \in 1 .. Len(entries) :
          records[d].origin # "outbox" \/ e # records[d].event => outbox'[e] = entries[e]
    BY <1>1, OutboxTurned
  <1>4. Waits(outbox', queue')
    BY <1>1, <1>2, <1>3 DEF Waits
  <1>5. received' \subseteq 1 .. Len(outbox')
    BY <1>1, <1>2 DEF HookInv
  <1>6. HookInv'
    BY <1>2, <1>4, <1>5 DEF HookInv
  <1>7. OutboxFits(outbox)
    BY DEF HookInv
  <1>8. Outward
    BY <1>1, <1>2, <1>7, TurnKeepsPromise DEF Outward
  <1> QED  BY <1>6, <1>8

LEMMA RunningWorks ==
    ASSUME HookInv, NEW d \in DOMAIN deliveries, deliveries[d].phase \in Running
    PROVE  /\ Working(outbox, deliveries, d)
           /\ Sound(outbox, deliveries[d]) /\ deliveries[d] \in HookRecords
           /\ deliveries[d].attempts < MaxAttempts
           /\ deliveries[d].origin = "outbox" => current = d
  <1>1. /\ OutboxFits(outbox) /\ RecordsFit(outbox, deliveries)
        /\ ClaimsAgree(outbox, deliveries, current)
    BY DEF HookInv
  <1>2. d \in 1 .. Len(deliveries) /\ RecordFits(outbox, deliveries[d])
    BY <1>1 DEF RecordsFit
  <1>3. deliveries[d].origin = "outbox" => current = d
    BY <1>1, <1>2 DEF ClaimsAgree, Awaited
  <1>4. deliveries[d].origin = "outbox" =>
          \A e \in 1 .. Len(outbox) :
             outbox[e].status = "processing" <=> e = deliveries[d].event
    BY <1>1, <1>2, <1>3 DEF ClaimsAgree
  <1>5. deliveries[d].origin = "outbox" =>
          \A c \in 1 .. Len(deliveries) : Awaited(deliveries[c]) => c = d
    BY <1>1, <1>3 DEF ClaimsAgree
  <1>6. Working(outbox, deliveries, d)
    BY <1>1, <1>2, <1>4, <1>5 DEF Working
  <1> QED  BY <1>2, <1>3, <1>6 DEF RecordFits, Sound

(* An attempt of a delivery that sleeps, or of one just created.           *)
LEMMA AttemptDone ==
    ASSUME HookInv, NEW entries, NEW records, NEW letters, NEW d,
           Working(entries, records, d), Len(entries) = Len(outbox),
           \A e \in 1 .. Len(entries) : FateIn(entries, e) = FateIn(outbox, e),
           LettersFit(records, letters), records[d].attempts < MaxAttempts,
           Attempt(entries, records, letters, d),
           Waits(entries, queue'), UNCHANGED <<halted, halts, received>>
    PROVE  HookInv' /\ Outward
  <1>1. breaker \in Breakers
    BY DEF HookInv
  <1>2. /\ Left(entries, records)
        /\ LettersFit(deliveries', dlq') /\ breaker' \in Breakers
        /\ \E status \in {"pending", "processing", "dlq"} :
             outbox' = OutboxWith(entries, records[d], status)
    BY <1>1, AttemptKeeps
  <1>3. PICK status \in {"pending", "processing", "dlq"} :
          outbox' = OutboxWith(entries, records[d], status)
    BY <1>2
  <1>4. status \in Statuses /\ status # "delivered"
    BY DEF Statuses
  <1>5. received' = received /\ UNCHANGED <<halted, halts>>
    OBVIOUS
  <1> QED  BY <1>2, <1>3, <1>4, <1>5, TurnDone

LEMMA RetryKeeps ==
    ASSUME HookInv, NEW d \in DOMAIN deliveries, Retry(d)
    PROVE  HookInv' /\ Outward
  <1>1. /\ deliveries[d].phase \in Running /\ Attempt(outbox, deliveries, dlq, d)
        /\ queue' = queue /\ UNCHANGED <<halted, halts, received>>
    BY DEF Retry, Running
  <1>2. Working(outbox, deliveries, d) /\ deliveries[d].attempts < MaxAttempts
    BY <1>1, RunningWorks
  <1>3. LettersFit(deliveries, dlq) /\ Waits(outbox, queue')
    BY <1>1 DEF HookInv
  <1> QED  BY <1>1, <1>2, <1>3, AttemptDone

(* What createDelivery makes.                                              *)
IsNew(r, origin) ==
    /\ r \in HookRecords /\ r.event \in 1 .. Len(outbox)
    /\ r.attempts = 0 /\ r.phase = "over" /\ r.origin = origin

(* A new record joins the others.                                          *)
LEMMA NewRecord ==
    ASSUME HookInv, NEW origin, NEW r, IsNew(r, origin), origin = "outbox" => r.full,
           NEW n, n = Len(deliveries) + 1
    PROVE  /\ RecordsFit(outbox, Append(deliveries, r))
           /\ Len(Append(deliveries, r)) = n /\ n \in 1 .. Len(Append(deliveries, r))
           /\ Append(deliveries, r)[n] = r
           /\ \A c \in 1 .. Len(deliveries) : Append(deliveries, r)[c] = deliveries[c]
           /\ r.attempts < MaxAttempts
           /\ LettersFit(Append(deliveries, r), dlq)
  <1>1. RecordFits(outbox, r) /\ r.attempts < MaxAttempts
    BY WebhookAssumption DEF RecordFits, Sound, Running, IsNew
  <1>2. RecordsFit(outbox, deliveries) /\ LettersFit(deliveries, dlq)
    BY DEF HookInv
  <1>3. /\ RecordsFit(outbox, Append(deliveries, r))
        /\ Len(Append(deliveries, r)) = Len(deliveries) + 1
        /\ Len(deliveries) \in Nat
        /\ Append(deliveries, r)[Len(deliveries) + 1] = r
        /\ \A c \in 1 .. Len(deliveries) : Append(deliveries, r)[c] = deliveries[c]
    BY <1>1, <1>2, RecordAdded
  <1> DEFINE after == Append(deliveries, r)
  <1>4. Len(after) \in Nat /\ Len(deliveries) <= Len(after)
    BY <1>3
  <1> HIDE DEF after
  <1>5. LettersFit(after, dlq)
    BY <1>2, <1>3, <1>4 DEF LettersFit
  <1>6. LettersFit(Append(deliveries, r), dlq)
    BY <1>5 DEF after
  <1> QED  BY <1>1, <1>3, <1>6

LEMMA ReplayRecord ==
    ASSUME HookInv, NEW l \in DOMAIN dlq, NEW r,
           r = Delivery(deliveries[dlq[l].delivery].endpoint,
                        deliveries[dlq[l].delivery].event, "replay", l, FALSE)
    PROVE  IsNew(r, "replay")
  <1> DEFINE failed == deliveries[dlq[l].delivery]
  <1>1. l \in 1 .. Len(dlq) /\ dlq[l].delivery \in 1 .. Len(deliveries) /\ l \in Nat
    BY DEF HookInv, LettersFit
  <1>2. RecordFits(outbox, failed)
    BY <1>1 DEF HookInv, RecordsFit
  <1>3. failed.endpoint \in Endpoints /\ failed.event \in 1 .. Len(outbox)
        /\ failed.event \in Nat
    BY <1>2 DEF RecordFits, Sound, HookRecords
  <1> HIDE DEF failed
  <1>4. r = Delivery(failed.endpoint, failed.event, "replay", l, FALSE)
    BY DEF failed
  <1> QED  BY <1>1, <1>3, <1>4 DEF Delivery, HookRecords, IsNew

LEMMA RedeliverRecord ==
    ASSUME HookInv, NEW d \in DOMAIN deliveries, NEW r,
           r = Delivery(deliveries[d].endpoint, deliveries[d].event, "redeliver",
                        d, deliveries[d].full)
    PROVE  IsNew(r, "redeliver")
  <1> DEFINE original == deliveries[d]
  <1>1. d \in 1 .. Len(deliveries) /\ d \in Nat
    BY DEF HookInv, RecordsFit
  <1>2. RecordFits(outbox, original)
    BY <1>1 DEF HookInv, RecordsFit
  <1>3. /\ original.endpoint \in Endpoints /\ original.event \in 1 .. Len(outbox)
        /\ original.event \in Nat /\ original.full \in BOOLEAN
    BY <1>2 DEF RecordFits, Sound, HookRecords
  <1> HIDE DEF original
  <1>4. r = Delivery(original.endpoint, original.event, "redeliver", d, original.full)
    BY DEF original
  <1> QED  BY <1>1, <1>3, <1>4 DEF Delivery, HookRecords, IsNew

LEMMA EntryRecord ==
    ASSUME HookInv, NEW e \in queue, NEW r,
           r = Delivery(outbox[e].endpoint, e, "outbox", e, TRUE)
    PROVE  IsNew(r, "outbox") /\ r.event = e /\ r.full
  <1>1. e \in 1 .. Len(outbox) /\ outbox \in Seq(EntriesOfOutbox) /\ e \in Nat
    BY DEF HookInv, Waits, OutboxFits
  <1>2. outbox[e] \in EntriesOfOutbox
    BY <1>1
  <1>3. outbox[e].endpoint \in Endpoints
    BY <1>2 DEF EntriesOfOutbox
  <1> QED  BY <1>1, <1>3 DEF Delivery, HookRecords, IsNew

(* Replay and redelivery leave the outbox's claims alone.                  *)
LEMMA ManualWorks ==
    ASSUME HookInv, NEW records, NEW n, n = Len(deliveries) + 1,
           RecordsFit(outbox, records), Len(records) = n, records[n].origin # "outbox",
           \A c \in 1 .. Len(deliveries) : records[c] = deliveries[c]
    PROVE  Working(outbox, records, n)
  <1>1. /\ OutboxFits(outbox) /\ ClaimsAgree(outbox, deliveries, current)
        /\ Len(deliveries) \in Nat
    BY DEF HookInv, RecordsFit
  <1>2. n \in 1 .. Len(records) /\ ~Awaited(records[n])
    BY <1>1 DEF Awaited
  <1>3. \A c \in 1 .. Len(records) : Awaited(records[c]) => c = current
    <2> SUFFICES ASSUME NEW c \in 1 .. Len(records), Awaited(records[c])
                 PROVE  c = current
      OBVIOUS
    <2>1. c \in 1 .. Len(deliveries)
      BY <1>1, <1>2
    <2> QED  BY <1>1, <2>1 DEF ClaimsAgree
  <1>4. current # 0 => current \in 1 .. Len(deliveries) /\ records[current] = deliveries[current]
    BY <1>1 DEF ClaimsAgree
  <1>5. ClaimsAgree(outbox, records, current)
    BY <1>1, <1>3, <1>4 DEF ClaimsAgree
  <1> QED  BY <1>1, <1>2, <1>5 DEF Working

LEMMA ReplayKeeps ==
    ASSUME HookInv, NEW l \in DOMAIN dlq, replayFromDLQ(l)
    PROVE  HookInv' /\ Outward
  <1> DEFINE failed == deliveries[dlq[l].delivery]
             n == Len(deliveries) + 1
             new == Delivery(failed.endpoint, failed.event, "replay", l, FALSE)
             letters == [dlq EXCEPT ![l].replayedBy = n]
  <1>1. /\ Attempt(outbox, Append(deliveries, new), letters, n)
        /\ queue' = queue /\ UNCHANGED <<halted, halts, received>>
    BY DEF replayFromDLQ, processDelivery
  <1>2. l \in 1 .. Len(dlq) /\ Len(deliveries) \in Nat /\ n = Len(deliveries) + 1
    BY DEF HookInv, LettersFit, RecordsFit
  <1>3. IsNew(new, "replay")
    BY ReplayRecord
  <1> HIDE DEF failed, new, n
  <1>4. /\ RecordsFit(outbox, Append(deliveries, new))
        /\ Len(Append(deliveries, new)) = n /\ n \in 1 .. Len(Append(deliveries, new))
        /\ Append(deliveries, new)[n] = new
        /\ \A c \in 1 .. Len(deliveries) : Append(deliveries, new)[c] = deliveries[c]
        /\ new.attempts < MaxAttempts
        /\ LettersFit(Append(deliveries, new), dlq)
    BY <1>2, <1>3, NewRecord
  <1> DEFINE records == Append(deliveries, new)
  <1>5. /\ RecordsFit(outbox, records) /\ Len(records) = n /\ n \in 1 .. Len(records)
        /\ records[n].origin = "replay" /\ records[n].attempts < MaxAttempts
        /\ \A c \in 1 .. Len(deliveries) : records[c] = deliveries[c]
        /\ LettersFit(records, dlq) /\ Len(records) \in Nat
    BY <1>2, <1>3, <1>4 DEF IsNew
  <1>6. Attempt(outbox, records, letters, n)
    BY <1>1
  <1> HIDE DEF records
  <1>7. LettersFit(records, letters)
    BY <1>2, <1>5, LetterSet
  <1> HIDE DEF letters
  <1>8. Working(outbox, records, n)
    BY <1>5, <1>2, ManualWorks
  <1>9. Waits(outbox, queue')
    BY <1>1 DEF HookInv
  <1> QED  BY <1>1, <1>5, <1>6, <1>7, <1>8, <1>9, AttemptDone

LEMMA RedeliverKeeps ==
    ASSUME HookInv, NEW d \in DOMAIN deliveries, reissueDelivery(d)
    PROVE  HookInv' /\ Outward
  <1> DEFINE original == deliveries[d]
             n == Len(deliveries) + 1
             new == Delivery(original.endpoint, original.event, "redeliver", d, original.full)
  <1>1. /\ Attempt(outbox, Append(deliveries, new), dlq, n)
        /\ queue' = queue /\ UNCHANGED <<halted, halts, received>>
    BY DEF reissueDelivery, processDelivery
  <1>2. Len(deliveries) \in Nat /\ n = Len(deliveries) + 1
    BY DEF HookInv, RecordsFit
  <1>3. IsNew(new, "redeliver")
    BY RedeliverRecord
  <1> HIDE DEF original, new, n
  <1>4. /\ RecordsFit(outbox, Append(deliveries, new))
        /\ Len(Append(deliveries, new)) = n /\ n \in 1 .. Len(Append(deliveries, new))
        /\ Append(deliveries, new)[n] = new
        /\ \A c \in 1 .. Len(deliveries) : Append(deliveries, new)[c] = deliveries[c]
        /\ new.attempts < MaxAttempts
        /\ LettersFit(Append(deliveries, new), dlq)
    BY <1>2, <1>3, NewRecord
  <1> DEFINE records == Append(deliveries, new)
  <1>5. /\ RecordsFit(outbox, records) /\ Len(records) = n /\ n \in 1 .. Len(records)
        /\ records[n].origin = "redeliver" /\ records[n].attempts < MaxAttempts
        /\ \A c \in 1 .. Len(deliveries) : records[c] = deliveries[c]
        /\ LettersFit(records, dlq)
    BY <1>3, <1>4 DEF IsNew
  <1>6. Attempt(outbox, records, dlq, n)
    BY <1>1
  <1> HIDE DEF records
  <1>7. Working(outbox, records, n)
    BY <1>5, <1>2, ManualWorks
  <1>8. Waits(outbox, queue')
    BY <1>1 DEF HookInv
  <1> QED  BY <1>1, <1>5, <1>6, <1>7, <1>8, AttemptDone

LEMMA EntryKeeps ==
    ASSUME HookInv, processOutboxEntry
    PROVE  HookInv' /\ Outward
  <1> DEFINE n == Len(deliveries) + 1
  <1>1. PICK e \in queue :
          /\ current = 0 /\ queue' = queue \ {e}
          /\ processDelivery([outbox EXCEPT ![e].status = "processing"], dlq,
                             Delivery(outbox[e].endpoint, e, "outbox", e, TRUE))
          /\ UNCHANGED <<halted, halts, received>>
    BY DEF processOutboxEntry
  <1> DEFINE new == Delivery(outbox[e].endpoint, e, "outbox", e, TRUE)
             entries == [outbox EXCEPT ![e].status = "processing"]
             records == Append(deliveries, new)
  <1>2. Attempt(entries, records, dlq, n) /\ queue' = queue \ {e}
        /\ UNCHANGED <<halted, halts, received>>
    BY <1>1 DEF processDelivery
  <1>3. /\ e \in 1 .. Len(outbox) /\ outbox[e].status = "pending"
        /\ OutboxFits(outbox) /\ Len(deliveries) \in Nat /\ Len(outbox) \in Nat
        /\ ClaimsAgree(outbox, deliveries, 0)
    BY <1>1 DEF HookInv, Waits, RecordsFit, OutboxFits
  <1>4. /\ OutboxFits(entries) /\ Len(entries) = Len(outbox)
        /\ entries[e].status = "processing"
        /\ \A j \in 1 .. Len(outbox) : j # e => entries[j] = outbox[j]
    <2>1. entries = Marked(outbox, e, "processing")
      BY DEF Marked
    <2> HIDE DEF entries
    <2>2. "processing" \in Statuses
      BY DEF Statuses
    <2> QED  BY <1>3, <2>1, <2>2, EntrySet
  <1>5. IsNew(new, "outbox") /\ new.event = e /\ new.full
    BY EntryRecord
  <1> HIDE DEF new
  <1>6. /\ RecordsFit(outbox, records) /\ Len(records) = n /\ n \in 1 .. Len(records)
        /\ records[n] = new
        /\ \A c \in 1 .. Len(deliveries) : records[c] = deliveries[c]
        /\ new.attempts < MaxAttempts
        /\ LettersFit(records, dlq)
    BY <1>3, <1>5, NewRecord
  <1>7. n = Len(deliveries) + 1
    OBVIOUS
  <1> HIDE DEF n, entries, records
  <1>8. RecordsFit(entries, records)
    BY <1>3, <1>4, <1>5, <1>6, RecordsKept
  <1>9. \A c \in 1 .. Len(records) : ~Awaited(records[c])
    <2> SUFFICES ASSUME NEW c \in 1 .. Len(records) PROVE ~Awaited(records[c])
      OBVIOUS
    <2>1. CASE c = n
      BY <1>5, <1>6, <2>1 DEF Awaited, Running, IsNew
    <2>2. CASE c # n
      <3>1. c \in 1 .. Len(deliveries)
        BY <1>3, <1>5, <1>6, <1>7, <2>2
      <3> QED  BY <1>3, <1>5, <1>6, <3>1 DEF ClaimsAgree
    <2> QED  BY <2>1, <2>2
  <1>10. \A j \in 1 .. Len(entries) : entries[j].status = "processing" <=> j = e
    BY <1>3, <1>4 DEF ClaimsAgree
  <1>11. Working(entries, records, n)
    BY <1>4, <1>5, <1>6, <1>8, <1>9, <1>10 DEF Working, IsNew
  <1>12. \A j \in 1 .. Len(entries) : FateIn(entries, j) = FateIn(outbox, j)
    BY <1>3, <1>4 DEF FateIn, Unsettled
  <1>13. Waits(entries, queue')
    BY <1>2, <1>4 DEF HookInv, Waits
  <1>14. /\ records[n].attempts < MaxAttempts /\ LettersFit(records, dlq)
         /\ Len(entries) = Len(outbox)
    BY <1>4, <1>6
  <1> QED  BY <1>2, <1>11, <1>12, <1>13, <1>14, AttemptDone

-----------------------------------------------------------------------------
LEMMA RecordedSound ==
    ASSUME HookInv, NEW d \in DOMAIN deliveries, deliveries[d].phase \in Running
    PROVE  /\ Sound(outbox, Recorded(d)) /\ Continues(deliveries, d, Recorded(d))
           /\ Recorded(d).attempts \in 1 .. MaxAttempts
  <1>1. /\ Sound(outbox, deliveries[d]) /\ deliveries[d] \in HookRecords
        /\ deliveries[d].attempts < MaxAttempts
    BY RunningWorks
  <1> QED  BY <1>1, WebhookAssumption DEF Recorded, Sound, HookRecords, Continues

(* A fetch is over: the breaker, and what the endpoint has.                *)
LEMMA AnswerTyped ==
    ASSUME HookInv, NEW d \in DOMAIN deliveries
    PROVE  /\ FailureRecorded(deliveries[d].endpoint) \in Breakers
           /\ [breaker EXCEPT ![deliveries[d].endpoint] = NoFailures] \in Breakers
           /\ \/ ReceivedBy(d) = received
              \/ ReceivedBy(d) = received \cup {deliveries[d].event}
           /\ deliveries[d].full => ReceivedBy(d) = received \cup {deliveries[d].event}
  <1>1. breaker \in Breakers
    BY DEF HookInv
  <1>2. FailureRecorded(deliveries[d].endpoint) \in Breakers
    <2> DEFINE ep == deliveries[d].endpoint
               b  == [breaker[ep] EXCEPT !.failures = @ + 1]
    <2>1. CASE ep \in Endpoints
      <3>1. breaker[ep] \in [failures : Nat, expired : BOOLEAN]
        BY <1>1, <2>1 DEF Breakers
      <3>2. b \in [failures : Nat, expired : BOOLEAN]
        BY <3>1
      <3>3. FailureRecorded(ep) = [breaker EXCEPT ![ep] = b]
        BY DEF FailureRecorded
      <3> HIDE DEF b, ep
      <3>4. FailureRecorded(ep) \in Breakers
        BY <1>1, <3>2, <3>3 DEF Breakers
      <3> QED  BY <3>4 DEF ep
    <2>2. CASE ep \notin Endpoints
      BY <1>1, <2>2 DEF FailureRecorded, Breakers
    <2> QED  BY <2>1, <2>2
  <1>3. [breaker EXCEPT ![deliveries[d].endpoint] = NoFailures] \in Breakers
    BY <1>1 DEF Breakers, NoFailures
  <1> QED  BY <1>2, <1>3 DEF ReceivedBy

LEMMA AcceptedKeeps ==
    ASSUME HookInv, NEW d \in DOMAIN deliveries, Accepted(d)
    PROVE  HookInv' /\ Outward
  <1>1. /\ deliveries[d].phase \in Running /\ received' = ReceivedBy(d)
        /\ breaker' = [breaker EXCEPT ![deliveries[d].endpoint] = NoFailures]
        /\ dlq' = dlq /\ queue' = queue /\ UNCHANGED <<halted, halts>>
    BY DEF Accepted, Running
  <1>2. /\ Working(outbox, deliveries, d) /\ Sound(outbox, deliveries[d])
        /\ Sound(outbox, Recorded(d)) /\ Continues(deliveries, d, Recorded(d))
    BY <1>1, RunningWorks, RecordedSound
  <1> DEFINE r == [Recorded(d) EXCEPT !.status = "delivered"]
  <1>3. Conclude(outbox, deliveries, d, r, "delivered")
    BY DEF Accepted
  <1>4. Sound(outbox, r) /\ Continues(deliveries, d, r)
    BY <1>2 DEF Sound, HookRecords, Continues
  <1> HIDE DEF r
  <1>5. Left(outbox, deliveries) /\ outbox' = OutboxWith(outbox, deliveries[d], "delivered")
    BY <1>2, <1>3, <1>4, ConcludeKeeps
  <1>6. LettersFit(deliveries', dlq')
    <2>1. LettersFit(deliveries, dlq) /\ Len(deliveries) \in Nat
      BY DEF HookInv, RecordsFit
    <2>2. Len(deliveries') = Len(deliveries) /\ dlq' = dlq
      BY <1>1, <1>5 DEF Left
    <2> QED  BY <2>1, <2>2 DEF LettersFit
  <1>7. Waits(outbox, queue') /\ breaker' \in Breakers
    BY <1>1, AnswerTyped DEF HookInv
  <1>8. /\ received' = received \/ received' = received \cup {deliveries[d].event}
        /\ deliveries[d].origin = "outbox" => received' = received \cup {deliveries[d].event}
    BY <1>1, <1>2, AnswerTyped DEF Sound
  <1>9. "delivered" \in Statuses
    BY DEF Statuses
  <1>10. UNCHANGED <<halted, halts>>
    BY <1>1
  <1> QED  BY <1>2, <1>5, <1>6, <1>7, <1>8, <1>9, <1>10, TurnDone

(* The last answer was a failure: the delivery is dead-lettered.           *)
LEMMA GivenUpKeeps ==
    ASSUME HookInv, NEW d \in DOMAIN deliveries, deliveries[d].phase \in Running,
           DeadLettered(outbox, deliveries, dlq, d, Recorded(d)),
           breaker' = FailureRecorded(deliveries[d].endpoint),
           received' \in {received, ReceivedBy(d)},
           UNCHANGED <<queue, halted, halts>>
    PROVE  HookInv' /\ Outward
  <1>1. /\ Working(outbox, deliveries, d)
        /\ Sound(outbox, Recorded(d)) /\ Continues(deliveries, d, Recorded(d))
        /\ LettersFit(deliveries, dlq)
    BY RunningWorks, RecordedSound DEF HookInv
  <1>2. /\ Left(outbox, deliveries) /\ LettersFit(deliveries', dlq')
        /\ outbox' = OutboxWith(outbox, deliveries[d], "dlq")
    BY <1>1, DeadLetterKeeps
  <1>3. /\ Waits(outbox, queue') /\ breaker' \in Breakers
        /\ received' = received \/ received' = received \cup {deliveries[d].event}
    BY AnswerTyped DEF HookInv
  <1>4. "dlq" \in Statuses
    BY DEF Statuses
  <1>5. UNCHANGED <<halted, halts>>
    OBVIOUS
  <1> QED  BY <1>1, <1>2, <1>3, <1>4, <1>5, TurnDone

LEMMA FailedKeeps ==
    ASSUME HookInv, NEW d \in DOMAIN deliveries, Failed(d)
    PROVE  HookInv' /\ Outward
  <1>1. /\ deliveries[d].phase \in Running
        /\ breaker' = FailureRecorded(deliveries[d].endpoint)
        /\ received' \in {received, ReceivedBy(d)}
        /\ queue' = queue /\ UNCHANGED <<halted, halts>>
    BY DEF Failed, Running
  <1>2. CASE /\ Recorded(d).attempts < MaxAttempts
             /\ deliveries' = [deliveries EXCEPT ![d] = [Recorded(d) EXCEPT !.phase = "backoff"]]
             /\ UNCHANGED <<outbox, dlq, current>>
    <2> DEFINE r == [Recorded(d) EXCEPT !.phase = "backoff"]
    <2>1. /\ Working(outbox, deliveries, d)
          /\ Sound(outbox, Recorded(d)) /\ Continues(deliveries, d, Recorded(d))
          /\ deliveries[d].origin = "outbox" => current = d
      BY <1>1, RunningWorks, RecordedSound
    <2>2. RecordFits(outbox, r) /\ Continues(deliveries, d, r) /\ r.phase \in Running
      BY <1>2, <2>1 DEF RecordFits, Sound, HookRecords, Running, Continues
    <2>3. deliveries' = Put(deliveries, d, r)
      BY <1>2 DEF Put
    <2>4. outbox' = outbox /\ dlq' = dlq
          /\ current' = IF deliveries[d].origin = "outbox" THEN d ELSE current
      BY <1>2, <2>1
    <2> HIDE DEF r
    <2>5. Left(outbox, deliveries) /\ outbox' = OutboxWith(outbox, deliveries[d], "processing")
      BY <2>1, <2>2, <2>3, <2>4, RunningKeeps
    <2>6. LettersFit(deliveries', dlq')
      <3>1. LettersFit(deliveries, dlq) /\ Len(deliveries) \in Nat
        BY DEF HookInv, RecordsFit
      <3>2. Len(deliveries') = Len(deliveries)
        BY <2>5 DEF Left
      <3> QED  BY <2>4, <3>1, <3>2 DEF LettersFit
    <2>7. /\ Waits(outbox, queue') /\ breaker' \in Breakers
          /\ received' = received \/ received' = received \cup {deliveries[d].event}
      BY <1>1, AnswerTyped DEF HookInv
    <2>8. "processing" \in Statuses
      BY DEF Statuses
    <2>9. UNCHANGED <<halted, halts>>
      BY <1>1
    <2> QED  BY <2>1, <2>5, <2>6, <2>7, <2>8, <2>9, TurnDone
  <1>3. CASE DeadLettered(outbox, deliveries, dlq, d, Recorded(d))
    BY <1>1, <1>3, GivenUpKeeps
  <1> QED  BY <1>2, <1>3 DEF Failed

LEMMA RefusedKeeps ==
    ASSUME HookInv, NEW d \in DOMAIN deliveries, Refused(d)
    PROVE  HookInv' /\ Outward
  <1>1. /\ deliveries[d].phase \in Running
        /\ breaker' = FailureRecorded(deliveries[d].endpoint)
        /\ received' \in {received, ReceivedBy(d)}
        /\ DeadLettered(outbox, deliveries, dlq, d, Recorded(d))
        /\ UNCHANGED <<queue, halted, halts>>
    BY DEF Refused, Running
  <1> QED  BY <1>1, GivenUpKeeps

LEMMA EnqueueKeeps ==
    ASSUME HookInv, NEW ep \in Endpoints, addToOutbox(ep)
    PROVE  HookInv' /\ Outward
  <1> DEFINE entry == [endpoint |-> ep, status |-> "pending"]
             n == Len(outbox) + 1
  <1>1. /\ Len(outbox) < MaxEvents /\ outbox' = Append(outbox, entry)
        /\ UNCHANGED <<deliveries, dlq, queue, current, breaker, halted, halts, received>>
    BY DEF addToOutbox
  <1>2. entry \in EntriesOfOutbox /\ entry.status = "pending"
    BY DEF EntriesOfOutbox, Statuses
  <1>3. outbox \in Seq(EntriesOfOutbox) /\ Len(outbox) \in Nat
    BY DEF HookInv, OutboxFits
  <1> HIDE DEF entry
  <1>4. /\ outbox' \in Seq(EntriesOfOutbox) /\ Len(outbox') = n
        /\ \A e \in 1 .. Len(outbox) : outbox'[e] = outbox[e]
        /\ outbox'[n] = entry
    BY <1>1, <1>2, <1>3, AppendProperties
  <1>5. OutboxFits(outbox') /\ OutboxFits(outbox)
    BY <1>1, <1>3, <1>4, WebhookAssumption DEF OutboxFits, HookInv
  <1>6. RecordsFit(outbox', deliveries')
    <2>1. RecordsFit(outbox, deliveries) /\ deliveries' = deliveries
      BY <1>1 DEF HookInv
    <2>2. Len(outbox') \in Nat /\ Len(outbox) <= Len(outbox')
      BY <1>3, <1>4
    <2> QED  BY <1>3, <2>1, <2>2, RecordsKept
  <1>7. ClaimsAgree(outbox', deliveries', current')
    <2>1. ClaimsAgree(outbox, deliveries, current) /\ RecordsFit(outbox, deliveries)
      BY DEF HookInv
    <2>2. current # 0 => deliveries[current].event \in 1 .. Len(outbox)
      BY <2>1 DEF ClaimsAgree, RecordsFit, RecordFits, Sound
    <2>3. \A e \in 1 .. Len(outbox') :
            outbox'[e].status = "processing" => e \in 1 .. Len(outbox) /\ outbox'[e] = outbox[e]
      <3> SUFFICES ASSUME NEW e \in 1 .. Len(outbox'), outbox'[e].status = "processing"
                   PROVE  e \in 1 .. Len(outbox) /\ outbox'[e] = outbox[e]
        OBVIOUS
      <3>1. e # n
        BY <1>2, <1>4
      <3>2. e \in 1 .. Len(outbox)
        BY <1>3, <1>4, <3>1
      <3> QED  BY <1>4, <3>2
    <2> QED  BY <1>1, <1>4, <2>1, <2>2, <2>3 DEF ClaimsAgree
  <1>8. Waits(outbox', queue')
    BY <1>1, <1>3, <1>4 DEF HookInv, Waits
  <1>9. received' \subseteq 1 .. Len(outbox')
    BY <1>1, <1>3, <1>4 DEF HookInv
  <1>10. LettersFit(deliveries', dlq') /\ breaker' \in Breakers
         /\ halted' \in BOOLEAN /\ halts' \in 0 .. MaxHalts
    BY <1>1 DEF HookInv
  <1>11. HookInv'
    BY <1>5, <1>6, <1>7, <1>8, <1>9, <1>10 DEF HookInv
  <1>12. Outward
    <2>1. \A e : Fate(e) = FateIn(outbox, e) /\ Fate(e)' = FateIn(outbox', e)
      BY <1>5, FateIs, FateWillBe
    <2>2. n \in 1 .. MaxEvents
      BY <1>1, <1>3, WebhookAssumption
    <2>3. FateIn(outbox, n) = "none" /\ FateIn(outbox', n) = "waiting"
      BY <1>2, <1>3, <1>4 DEF FateIn, Unsettled
    <2>4. \A e \in 1 .. MaxEvents : e # n => FateIn(outbox', e) = FateIn(outbox, e)
      <3> SUFFICES ASSUME NEW e \in 1 .. MaxEvents, e # n
                   PROVE  FateIn(outbox', e) = FateIn(outbox, e)
        OBVIOUS
      <3>1. e \in 1 .. Len(outbox') <=> e \in 1 .. Len(outbox)
        BY <1>3, <1>4
      <3> QED  BY <1>4, <3>1 DEF FateIn
    <2>5. Fates' = [Fates EXCEPT ![n] = "waiting"] /\ Fates[n] = "none"
      <3>1. /\ Fates = [e \in 1 .. MaxEvents |-> FateIn(outbox, e)]
            /\ Fates' = [e \in 1 .. MaxEvents |-> FateIn(outbox', e)]
        BY <2>1 DEF Fates
      <3> HIDE DEF n
      <3> QED  BY <2>2, <2>3, <2>4, <3>1
    <2> HIDE DEF n
    <2>6. Promise!Enqueue(n)
      BY <1>1, <2>5 DEF Promise!Enqueue, Fates
    <2> QED  BY <2>2, <2>6 DEF Outward, Promise!Next, Promise!Events
  <1> QED  BY <1>11, <1>12

(* Nothing is seen of a step that leaves the outbox and the endpoint alone. *)
LEMMA Unseen ==
    ASSUME UNCHANGED <<outbox, received>>
    PROVE  Outward
  <1>1. \A e : Fate(e)' = Fate(e)
    BY DEF Fate
  <1>2. Fates' = Fates
    BY <1>1 DEF Fates
  <1> QED  BY <1>2 DEF Outward

LEMMA DrainKeeps ==
    ASSUME HookInv, drainOutbox
    PROVE  HookInv' /\ Outward
  <1>1. /\ current = 0 /\ queue' = PendingEntries
        /\ UNCHANGED <<outbox, deliveries, dlq, current, breaker, halted, halts, received>>
    BY DEF drainOutbox
  <1>2. \A e \in 1 .. Len(outbox) : outbox[e].status # "processing"
    BY <1>1 DEF HookInv, ClaimsAgree
  <1>3. DOMAIN outbox = 1 .. Len(outbox)
    BY DEF HookInv, OutboxFits
  <1>4. Waits(outbox', queue')
    BY <1>1, <1>2, <1>3 DEF PendingEntries, Waits, Unsettled
  <1> QED  BY <1>1, <1>4, Unseen DEF HookInv

LEMMA SwitchesKeep ==
    ASSUME HookInv,
           (\E ep \in Endpoints : BreakerTimeout(ep))
             \/ (\E open \in BOOLEAN : setCircuitBreaker(open)) \/ UNCHANGED vars
    PROVE  HookInv' /\ Outward
  <1>1. /\ UNCHANGED <<outbox, deliveries, dlq, queue, current, received>>
        /\ breaker' \in Breakers /\ halted' \in BOOLEAN /\ halts' \in 0 .. MaxHalts
    <2>1. CASE \E ep \in Endpoints : BreakerTimeout(ep)
      <3>1. PICK ep \in Endpoints : BreakerTimeout(ep)
        BY <2>1
      <3>2. breaker \in Breakers /\ breaker' = [breaker EXCEPT ![ep].expired = TRUE]
        BY <3>1 DEF HookInv, BreakerTimeout
      <3>3. breaker' \in Breakers
        BY <3>2 DEF Breakers
      <3> QED  BY <3>1, <3>3 DEF HookInv, BreakerTimeout
    <2>2. CASE \E open \in BOOLEAN : setCircuitBreaker(open)
      <3>1. PICK open \in BOOLEAN : setCircuitBreaker(open)
        BY <2>2
      <3>2. halts \in 0 .. MaxHalts /\ MaxHalts \in Nat
        BY WebhookAssumption DEF HookInv
      <3>3. (halts' = halts + 1 /\ halts < MaxHalts) \/ halts' = halts
        BY <3>1 DEF setCircuitBreaker
      <3>4. halts' \in 0 .. MaxHalts
        BY <3>2, <3>3
      <3> QED  BY <3>1, <3>4 DEF HookInv, setCircuitBreaker
    <2>3. CASE UNCHANGED vars
      BY <2>3 DEF HookInv, vars
    <2> QED  BY <2>1, <2>2, <2>3
  <1> QED  BY <1>1, Unseen DEF HookInv

LEMMA HookNext ==
    ASSUME HookInv, [Next]_vars
    PROVE  HookInv' /\ Outward
  <1>1. CASE \E ep \in Endpoints : addToOutbox(ep)
    BY <1>1, EnqueueKeeps
  <1>2. CASE drainOutbox \/ processOutboxEntry
    BY <1>2, DrainKeeps, EntryKeeps
  <1>3. CASE \E d \in DOMAIN deliveries : Answered(d) \/ Retry(d) \/ reissueDelivery(d)
    BY <1>3, AcceptedKeeps, RefusedKeeps, FailedKeeps, RetryKeeps, RedeliverKeeps DEF Answered
  <1>4. CASE \E l \in DOMAIN dlq : replayFromDLQ(l)
    BY <1>4, ReplayKeeps
  <1>5. CASE \/ \E ep \in Endpoints : BreakerTimeout(ep)
             \/ \E open \in BOOLEAN : setCircuitBreaker(open)
             \/ UNCHANGED vars
    BY <1>5, SwitchesKeep
  <1> QED  BY <1>1, <1>2, <1>3, <1>4, <1>5 DEF Next

LEMMA HookInit ==
    ASSUME Init
    PROVE  HookInv /\ Promise!Init
  <1>1. /\ outbox = <<>> /\ deliveries = <<>> /\ dlq = <<>> /\ queue = {} /\ current = 0
        /\ breaker = [ep \in Endpoints |-> NoFailures]
        /\ halted = FALSE /\ halts = 0 /\ received = {}
    BY DEF Init
  <1>2. OutboxFits(outbox) /\ Len(outbox) = 0
    BY <1>1, WebhookAssumption DEF OutboxFits
  <1>3. RecordsFit(outbox, deliveries) /\ LettersFit(deliveries, dlq)
    BY <1>1 DEF RecordsFit, LettersFit
  <1>4. ClaimsAgree(outbox, deliveries, current) /\ Waits(outbox, queue)
    BY <1>1 DEF ClaimsAgree, Waits
  <1>5. breaker \in Breakers /\ halts \in 0 .. MaxHalts
    BY <1>1, WebhookAssumption DEF Breakers, NoFailures
  <1>6. HookInv
    BY <1>1, <1>2, <1>3, <1>4, <1>5 DEF HookInv
  <1>7. \A e : Fate(e) = "none"
    BY <1>2, FateIs DEF FateIn
  <1>8. Promise!Init
    BY <1>1, <1>7 DEF Promise!Init, Promise!Events
  <1> QED  BY <1>6, <1>8

(* Records, outbox, dead letters and the drain fit together between any    *)
(* two callbacks of the worker (webhook-delivery-worker.ts).               *)
THEOREM HookInvariant == Spec => []HookInv
  <1>1. Init => HookInv
    BY HookInit
  <1>2. HookInv /\ [Next]_vars => HookInv'
    BY HookNext
  <1> QED  BY <1>1, <1>2, PTL DEF Spec

(* Every component of the state has its type, no delivery is tried more    *)
(* than MaxAttempts times, and what the dead letters and the drain refer   *)
(* to exists.                                                              *)
THEOREM HookTypes == Spec => []TypeOK
  <1>1. HookInv => TypeOK
    <2> SUFFICES ASSUME HookInv PROVE TypeOK
      OBVIOUS
    <2>1. /\ outbox \in Seq(EntriesOfOutbox) /\ deliveries \in Seq(HookRecords)
          /\ dlq \in Seq(Letters)
      BY DEF HookInv, OutboxFits, RecordsFit, LettersFit
    <2>2. \A e \in DOMAIN outbox : IsEntry(outbox[e])
      <3>1. \A e \in DOMAIN outbox : outbox[e] \in EntriesOfOutbox
        BY <2>1
      <3> QED  BY <3>1 DEF EntriesOfOutbox, IsEntry, Statuses
    <2>3. \A d \in DOMAIN deliveries : IsDelivery(deliveries[d])
      <3> SUFFICES ASSUME NEW d \in DOMAIN deliveries PROVE IsDelivery(deliveries[d])
        OBVIOUS
      <3>1. Sound(outbox, deliveries[d])
        BY <2>1 DEF HookInv, RecordsFit, RecordFits
      <3>2. deliveries[d].attempts \in 0 .. MaxAttempts
        BY <3>1, WebhookAssumption DEF Sound, HookRecords
      <3> QED  BY <3>1, <3>2 DEF Sound, HookRecords, IsDelivery
    <2>4. /\ \A l \in DOMAIN dlq : /\ dlq[l].delivery \in DOMAIN deliveries
                                  /\ dlq[l].replayedBy \in {0} \cup DOMAIN deliveries
      BY <2>1 DEF HookInv, LettersFit
    <2>5. current \in {0} \cup DOMAIN deliveries
      BY <2>1 DEF HookInv, ClaimsAgree
    <2>6. queue \subseteq DOMAIN outbox /\ received \subseteq DOMAIN outbox
      BY <2>1 DEF HookInv, Waits
    <2> QED  BY <2>2, <2>3, <2>4, <2>5, <2>6 DEF HookInv, TypeOK, Breakers
  <1> QED  BY <1>1, HookInvariant, PTL

(* An entry of the outbox is processing exactly while one delivery of it   *)
(* is running, the one the drain waits for.                                *)
THEOREM ClaimsAreHeld == Spec => []ProcessingIsRunning
  <1>1. HookInv => ProcessingIsRunning
    <2> SUFFICES ASSUME HookInv, NEW e \in DOMAIN outbox
                 PROVE  LET running == {d \in DOMAIN deliveries :
                                          /\ deliveries[d].origin = "outbox"
                                          /\ deliveries[d].event = e
                                          /\ deliveries[d].phase \in Running}
                        IN  running = IF outbox[e].status = "processing"
                                      THEN {current} ELSE {}
      BY DEF ProcessingIsRunning
    <2>1. DOMAIN deliveries = 1 .. Len(deliveries) /\ e \in 1 .. Len(outbox)
          /\ ClaimsAgree(outbox, deliveries, current)
      BY DEF HookInv, OutboxFits, RecordsFit
    <2>2. ASSUME NEW d \in DOMAIN deliveries, deliveries[d].origin = "outbox",
                 deliveries[d].event = e, deliveries[d].phase \in Running
          PROVE  d = current /\ outbox[e].status = "processing"
      BY <2>1, <2>2 DEF ClaimsAgree, Awaited
    <2>3. ASSUME outbox[e].status = "processing"
          PROVE  /\ current \in DOMAIN deliveries /\ deliveries[current].origin = "outbox"
                 /\ deliveries[current].event = e /\ deliveries[current].phase \in Running
      BY <2>1, <2>3 DEF ClaimsAgree, Awaited
    <2> QED  BY <2>2, <2>3
  <1> QED  BY <1>1, HookInvariant, PTL

(* The outbox implements its promise (WebhookPromise): no event is         *)
(* reported delivered that did not arrive in full, and no decision about   *)
(* an event is taken back, whatever fails, is halted or is sent again.     *)
THEOREM OutboxKeepsItsPromise == Spec => PromiseKept
  <1>1. Init => Promise!Init
    BY HookInit
  <1>2. HookInv /\ [Next]_vars => Outward
    BY HookNext
  <1> QED  BY <1>1, <1>2, HookInvariant, PTL DEF Spec, PromiseKept, Promise!Spec, Outward, Fates

-----------------------------------------------------------------------------
(* A request leaves only from an attempt that saw neither switch open.     *)
Allowed(c) ==
    /\ ~halted
    /\ breaker[deliveries'[c].endpoint].failures < Threshold
       \/ breaker[deliveries'[c].endpoint].expired

LEMMA ConcludeStartsNothing ==
    ASSUME NEW entries, NEW records, NEW d, NEW r, NEW status,
           records \in Seq(HookRecords), d \in 1 .. Len(records), r \in HookRecords,
           Conclude(entries, records, d, r, status)
    PROVE  /\ DOMAIN deliveries' = 1 .. Len(records)
           /\ \A c \in 1 .. Len(records) :
                deliveries'[c].phase = "fetch" => records[c].phase = "fetch"
  <1> DEFINE over == [r EXCEPT !.phase = "over"]
  <1>1. over.phase = "over"
    BY DEF HookRecords
  <1>2. deliveries' = [records EXCEPT ![d] = over]
    BY DEF Conclude
  <1> HIDE DEF over
  <1> QED  BY <1>1, <1>2

LEMMA AttemptStarts ==
    ASSUME HookInv, NEW entries, NEW records, NEW letters, NEW d,
           records \in Seq(HookRecords), d \in 1 .. Len(records),
           Attempt(entries, records, letters, d)
    PROVE  /\ DOMAIN deliveries' = 1 .. Len(records)
           /\ \A c \in 1 .. Len(records) : deliveries'[c].phase = "fetch" =>
                records[c].phase = "fetch" \/ Allowed(c)
  <1>1. records[d] \in HookRecords
    OBVIOUS
  <1>2. CASE Held(entries, records, letters, d)
    BY <1>1, <1>2, ConcludeStartsNothing DEF Held
  <1>3. CASE DeadLettered(entries, records, letters, d, records[d])
    <2> DEFINE r == [records[d] EXCEPT !.status = DeadStatus(records[d])]
    <2>1. r \in HookRecords
      BY <1>1 DEF HookRecords, DeadStatus
    <2>2. Conclude(entries, records, d, r, "dlq")
      BY <1>3 DEF DeadLettered
    <2> HIDE DEF r
    <2> QED  BY <2>1, <2>2, ConcludeStartsNothing
  <1>4. CASE /\ ~HaltSeen /\ ~CircuitOpen(records[d].endpoint)
             /\ deliveries' = [records EXCEPT ![d].phase = "fetch"]
    <2> DEFINE r == [records[d] EXCEPT !.phase = "fetch"]
    <2>1. r.endpoint = records[d].endpoint /\ r.endpoint \in Endpoints
      BY <1>1 DEF HookRecords
    <2>2. deliveries' = [records EXCEPT ![d] = r]
      BY <1>4
    <2> HIDE DEF r
    <2>3. /\ DOMAIN deliveries' = 1 .. Len(records) /\ deliveries'[d] = r
          /\ \A c \in 1 .. Len(records) : c # d => deliveries'[c] = records[c]
      BY <2>2
    <2>4. Allowed(d)
      <3>1. breaker[r.endpoint].failures \in Nat
        BY <2>1 DEF HookInv, Breakers
      <3>2. ~halted /\ (~(breaker[r.endpoint].failures >= Threshold)
                        \/ breaker[r.endpoint].expired)
        BY <1>4, <2>1 DEF HaltSeen, CircuitOpen
      <3> QED  BY <2>3, <3>1, <3>2, WebhookAssumption DEF Allowed
    <2> QED  BY <2>3, <2>4
  <1> QED  BY <1>2, <1>3, <1>4 DEF Attempt

LEMMA CreatedStarts ==
    ASSUME HookInv, NEW entries, NEW letters, NEW r, r \in HookRecords, r.phase = "over",
           processDelivery(entries, letters, r),
           NEW c \in DOMAIN deliveries', Starts(c)
    PROVE  Allowed(c)
  <1> DEFINE records == Append(deliveries, r)
             n == Len(deliveries) + 1
  <1>1. deliveries \in Seq(HookRecords) /\ Len(deliveries) \in Nat
    BY DEF HookInv, RecordsFit
  <1>2. /\ records \in Seq(HookRecords) /\ Len(records) = n /\ records[n] = r
        /\ \A j \in 1 .. Len(deliveries) : records[j] = deliveries[j]
    BY <1>1, AppendProperties
  <1>3. Attempt(entries, records, letters, n) /\ n \in 1 .. Len(records)
    BY <1>1, <1>2 DEF processDelivery
  <1> HIDE DEF records
  <1>4. /\ c \in 1 .. Len(records)
        /\ deliveries'[c].phase = "fetch" => records[c].phase = "fetch" \/ Allowed(c)
    BY <1>2, <1>3, AttemptStarts
  <1>5. CASE c = n
    BY <1>2, <1>4, <1>5 DEF Starts
  <1>6. CASE c # n
    <2>1. c \in 1 .. Len(deliveries)
      BY <1>1, <1>2, <1>4, <1>6
    <2> QED  BY <1>1, <1>2, <1>4, <2>1 DEF Starts
  <1> QED  BY <1>5, <1>6

(* Whatever step is taken, a request that leaves in it was allowed to.     *)
LEMMA StartsAllowed ==
    ASSUME HookInv, [Next]_vars, NEW c \in DOMAIN deliveries', Starts(c)
    PROVE  Allowed(c)
  <1>1. deliveries \in Seq(HookRecords)
    BY DEF HookInv, RecordsFit
  <1>2. CASE UNCHANGED deliveries
    BY <1>2 DEF Starts
  <1>3. CASE processOutboxEntry
    <2>1. PICK e \in queue :
            processDelivery([outbox EXCEPT ![e].status = "processing"], dlq,
                            Delivery(outbox[e].endpoint, e, "outbox", e, TRUE))
      BY <1>3 DEF processOutboxEntry
    <2> DEFINE r == Delivery(outbox[e].endpoint, e, "outbox", e, TRUE)
    <2>2. IsNew(r, "outbox")
      BY EntryRecord
    <2> HIDE DEF r
    <2>3. \E entries : processDelivery(entries, dlq, r)
      BY <2>1 DEF r
    <2> QED  BY <2>2, <2>3, CreatedStarts DEF IsNew
  <1>4. CASE \E l \in DOMAIN dlq : replayFromDLQ(l)
    <2>1. PICK l \in DOMAIN dlq : replayFromDLQ(l)
      BY <1>4
    <2> DEFINE r == Delivery(deliveries[dlq[l].delivery].endpoint,
                             deliveries[dlq[l].delivery].event, "replay", l, FALSE)
    <2>2. IsNew(r, "replay")
      BY ReplayRecord
    <2>3. \E letters : processDelivery(outbox, letters, r)
      BY <2>1 DEF replayFromDLQ
    <2> HIDE DEF r
    <2> QED  BY <2>2, <2>3, CreatedStarts DEF IsNew
  <1>5. CASE \E d \in DOMAIN deliveries : reissueDelivery(d)
    <2>1. PICK d \in DOMAIN deliveries : reissueDelivery(d)
      BY <1>5
    <2> DEFINE r == Delivery(deliveries[d].endpoint, deliveries[d].event, "redeliver",
                             d, deliveries[d].full)
    <2>2. IsNew(r, "redeliver")
      BY RedeliverRecord
    <2>3. processDelivery(outbox, dlq, r)
      BY <2>1 DEF reissueDelivery
    <2> HIDE DEF r
    <2> QED  BY <2>2, <2>3, CreatedStarts DEF IsNew
  <1>6. CASE \E d \in DOMAIN deliveries : Retry(d)
    <2>1. PICK d \in DOMAIN deliveries : Attempt(outbox, deliveries, dlq, d)
      BY <1>6 DEF Retry
    <2>2. /\ c \in 1 .. Len(deliveries)
          /\ deliveries'[c].phase = "fetch" => deliveries[c].phase = "fetch" \/ Allowed(c)
      BY <1>1, <2>1, AttemptStarts
    <2> QED  BY <1>1, <2>2 DEF Starts
  <1>7. CASE \E d \in DOMAIN deliveries : Answered(d)
    <2>1. PICK d \in DOMAIN deliveries : Answered(d)
      BY <1>7
    <2>2. Recorded(d) \in HookRecords
      <3>1. deliveries[d].phase \in Running
        BY <2>1 DEF Answered, Accepted, Refused, Failed, Running
      <3> QED  BY <3>1, RecordedSound DEF Sound
    <2>3. CASE \E r \in HookRecords, status \in Statuses :
                 Conclude(outbox, deliveries, d, r, status)
      BY <1>1, <2>3, ConcludeStartsNothing DEF Starts
    <2>4. CASE deliveries' = [deliveries EXCEPT ![d] = [Recorded(d) EXCEPT !.phase = "backoff"]]
      <3> DEFINE r == [Recorded(d) EXCEPT !.phase = "backoff"]
      <3>1. r.phase = "backoff"
        BY <2>2 DEF HookRecords
      <3>2. deliveries' = [deliveries EXCEPT ![d] = r]
        BY <2>4
      <3> HIDE DEF r
      <3> QED  BY <1>1, <3>1, <3>2 DEF Starts
    <2>5. CASE Accepted(d)
      <3> DEFINE r == [Recorded(d) EXCEPT !.status = "delivered"]
      <3>1. r \in HookRecords
        BY <2>2 DEF HookRecords
      <3>2. Conclude(outbox, deliveries, d, r, "delivered")
        BY <2>5 DEF Accepted
      <3> HIDE DEF r
      <3> QED  BY <2>3, <3>1, <3>2 DEF Statuses
    <2>6. CASE DeadLettered(outbox, deliveries, dlq, d, Recorded(d))
      <3> DEFINE r == [Recorded(d) EXCEPT !.status = DeadStatus(Recorded(d))]
      <3>1. r \in HookRecords
        BY <2>2 DEF HookRecords, DeadStatus
      <3>2. Conclude(outbox, deliveries, d, r, "dlq")
        BY <2>6 DEF DeadLettered
      <3> HIDE DEF r
      <3> QED  BY <2>3, <3>1, <3>2 DEF Statuses
    <2> QED  BY <2>1, <2>4, <2>5, <2>6 DEF Answered, Refused, Failed
  <1> QED
    <2>1. drainOutbox => UNCHANGED deliveries
      BY DEF drainOutbox
    <2>2. \A ep \in Endpoints : addToOutbox(ep) \/ BreakerTimeout(ep) => UNCHANGED deliveries
      BY DEF addToOutbox, BreakerTimeout
    <2>3. \A open \in BOOLEAN : setCircuitBreaker(open) => UNCHANGED deliveries
      BY DEF setCircuitBreaker
    <2>4. UNCHANGED vars => UNCHANGED deliveries
      BY DEF vars
    <2> QED  BY <1>2, <1>3, <1>4, <1>5, <1>6, <1>7, <2>1, <2>2, <2>3, <2>4 DEF Next

(* While the operator has halted dispatch no request leaves, from the      *)
(* drain, from a backoff or by hand.                                       *)
THEOREM HaltsAreObeyed == Spec => HaltStopsTraffic
  <1>1. HookInv /\ [Next]_vars => [halted => \A d \in DOMAIN deliveries' : ~Starts(d)]_vars
    BY StartsAllowed DEF Allowed
  <1> QED  BY <1>1, HookInvariant, PTL DEF Spec, HaltStopsTraffic

(* No request leaves for an endpoint whose breaker is open.                *)
THEOREM BreakersAreObeyed == Spec => BrokenEndpointRests
  <1>1. HookInv /\ [Next]_vars =>
          [ \A d \in DOMAIN deliveries' : Starts(d) =>
              LET b == breaker[deliveries'[d].endpoint]
              IN  b.failures < Threshold \/ b.expired ]_vars
    BY StartsAllowed DEF Allowed
  <1> QED  BY <1>1, HookInvariant, PTL DEF Spec, BrokenEndpointRests

-----------------------------------------------------------------------------
(***************************************************************************)
(* Live updates.  Every change of a connection is one of a few forms       *)
(* (opened, closed, written to, counted, client gone), so the invariant is *)
(* first shown for each form.                                              *)
(***************************************************************************)

Records ==
    [ state : {"unopened", "open", "closed"}, route : Routes \cup {"none"},
      listening : BOOLEAN, timed : BOOLEAN, client : {"there", "left", "vanished"},
      limit : HeartbeatLimits \cup {0}, beats : Nat, seen : 0 .. MaxWrites ]

(* A connection is as it should be when the newest announcement is p.      *)
Good(r, p) ==
    /\ r \in Records
    /\ r.listening \/ r.timed => r.state = "open"
    /\ r.state = "open" /\ r.route # "indexer" => r.listening /\ r.seen = p
    /\ r.listening => r.route # "indexer"

FeedInv ==
    /\ LiveTypeOK
    /\ \A c \in Conns : Good(conn[c], published)

LEMMA UnopenedGood ==
    ASSUME NEW p \in 0 .. MaxWrites
    PROVE  Good(Unopened, p)
  BY LiveEventsAssumption DEF Good, Records, Unopened

LEMMA ClosedGood ==
    ASSUME NEW r, NEW p \in 0 .. MaxWrites
    PROVE  Good(Closed(r), p)
  <1>1. /\ Unopened \in Records /\ ~Unopened.listening /\ ~Unopened.timed
    BY LiveEventsAssumption DEF Records, Unopened
  <1>2. /\ Closed(r) \in Records /\ Closed(r).state = "closed"
        /\ ~Closed(r).listening /\ ~Closed(r).timed
    BY <1>1 DEF Closed, Records
  <1> QED  BY <1>2 DEF Good

LEMMA WroteGood ==
    ASSUME NEW r, NEW s, NEW p \in 0 .. MaxWrites, Good(s, p)
    PROVE  Good(Wrote(r, s), p)
  BY ClosedGood DEF Wrote

LEMMA CountedGood ==
    ASSUME NEW r, NEW p, Good(r, p)
    PROVE  Good(Counted(r), p)
  BY DEF Good, Records, Counted

(* emit: every listener has heard the change, and nobody else had to.      *)
LEMMA HeardGood ==
    ASSUME NEW r, NEW p \in 0 .. MaxWrites, NEW q \in 0 .. MaxWrites, Good(r, p)
    PROVE  Good(IF r.listening THEN Wrote(r, [r EXCEPT !.seen = q]) ELSE r, q)
  <1>1. CASE r.listening
    <2>1. Good([r EXCEPT !.seen = q], q)
      BY <1>1 DEF Good, Records
    <2> QED  BY <1>1, <2>1, WroteGood
  <1>2. CASE ~r.listening
    BY <1>2 DEF Good, Records
  <1> QED  BY <1>1, <1>2 DEF Good, Records

(* Every connection is as it should be after a change was announced.       *)
LEMMA PublishGood ==
    ASSUME FeedInv, NEW change \in 0 .. MaxWrites, Publish(change)
    PROVE  /\ published' = change
           /\ conn' \in [Conns -> Records]
           /\ \A c \in Conns : Good(conn'[c], change)
  <1>1. /\ published \in 0 .. MaxWrites
        /\ \A c \in Conns : Good(conn[c], published)
    BY LiveEventsAssumption DEF FeedInv, LiveTypeOK
  <1>2. \A c \in Conns : conn'[c] = IF conn[c].listening
                                    THEN Wrote(conn[c], [conn[c] EXCEPT !.seen = change])
                                    ELSE conn[c]
    BY DEF Publish, Heard
  <1>3. \A c \in Conns : Good(conn'[c], change)
    BY <1>1, <1>2, HeardGood
  <1>4. conn' = [c \in Conns |-> conn'[c]]
    BY DEF Publish, Heard
  <1> QED  BY <1>3, <1>4 DEF Publish, Good

(* A step of one connection c that makes it r.                             *)
LEMMA SetGood ==
    ASSUME FeedInv, NEW c \in Conns, NEW r, Good(r, published),
           conn' = [conn EXCEPT ![c] = r], UNCHANGED <<feed, breakerOpen>>
    PROVE  FeedInv'
  <1>1. conn \in [Conns -> Records]
    BY DEF FeedInv, LiveTypeOK, Records
  <1>2. conn' \in [Conns -> Records] /\ \A d \in Conns : Good(conn'[d], published)
    BY <1>1 DEF FeedInv, Good
  <1>3. LiveTypeOK'
    BY <1>2 DEF FeedInv, LiveTypeOK, Records, feed
  <1> QED  BY <1>2, <1>3 DEF FeedInv, feed

-----------------------------------------------------------------------------
LEMMA FeedInit ==
    LiveInit => FeedInv
  <1> SUFFICES ASSUME LiveInit PROVE FeedInv
    OBVIOUS
  <1>1. 0 \in 0 .. MaxWrites /\ MaxWrites \in Nat
    BY LiveEventsAssumption
  <1>2. Good(Unopened, 0)
    BY <1>1, UnopenedGood
  <1>3. conn \in [Conns -> Records] /\ \A c \in Conns : Good(conn[c], published)
    BY <1>2 DEF LiveInit, Good
  <1>4. patch \in [Patches -> -1 .. writes]
    <2>1. writes = 0 /\ -1 \in -1 .. 0 /\ patch = [p \in Patches |-> -1]
      BY DEF LiveInit
    <2> QED  BY <2>1
  <1>5. LiveTypeOK
    <2>1. row = 0 /\ writes = 0 /\ locked = 0 /\ published = 0 /\ breakerOpen = FALSE
      BY DEF LiveInit
    <2>2. writes \in 0 .. MaxWrites /\ 0 \in 0 .. writes
      BY <1>1, <2>1
    <2> QED  BY <1>3, <1>4, <2>1, <2>2 DEF LiveTypeOK, Records
  <1> QED  BY <1>3, <1>5 DEF FeedInv

(* What the writers do to the row.                                         *)
LEMMA WritesTyped ==
    ASSUME LiveTypeOK, NewWrite
    PROVE  /\ writes + 1 \in 0 .. MaxWrites
           /\ writes' = writes + 1 /\ row' \in 0 .. writes'
  BY LiveEventsAssumption DEF LiveTypeOK, NewWrite

(* An announced step of the writers.                                       *)
LEMMA AnnouncedGood ==
    ASSUME FeedInv, NEW change \in 0 .. writes', Publish(change),
           writes' \in {writes, writes + 1}, writes' <= MaxWrites,
           row' \in 0 .. writes', locked' \in {0, locked},
           patch' \in [Patches -> -1 .. writes'], UNCHANGED breakerOpen
    PROVE  FeedInv'
  <1>1. writes \in Nat /\ writes' \in Nat /\ MaxWrites \in Nat /\ change \in 0 .. MaxWrites
    BY LiveEventsAssumption DEF FeedInv, LiveTypeOK
  <1>2. /\ published' = change
        /\ conn' \in [Conns -> Records]
        /\ \A c \in Conns : Good(conn'[c], change)
    BY <1>1, PublishGood
  <1>3. locked' \in 0 .. writes'
    BY <1>1 DEF FeedInv, LiveTypeOK
  <1>4. LiveTypeOK'
    BY <1>1, <1>2, <1>3 DEF FeedInv, LiveTypeOK, Records
  <1> QED  BY <1>2, <1>4 DEF FeedInv

(* A step of the writers that announces nothing.                           *)
LEMMA SilentGood ==
    ASSUME FeedInv, writes' \in 0 .. MaxWrites, row' \in 0 .. writes',
           locked' \in 0 .. writes', published \in 0 .. writes',
           patch' \in [Patches -> -1 .. writes'],
           UNCHANGED <<published, breakerOpen, conn>>
    PROVE  FeedInv'
  BY DEF FeedInv, LiveTypeOK, Records

LEMMA WriterStep ==
    ASSUME FeedInv,
           \/ ShortChange \/ PauseBySender \/ GroupAction \/ LongChangeBegins
           \/ SettleEnds \/ SettleFails \/ WithdrawEnds
           \/ \E p \in Patches : PatchReads(p) \/ PatchLifecycle(p) \/ PatchLabel(p)
    PROVE  FeedInv'
  <1>1. /\ writes \in 0 .. MaxWrites /\ row \in 0 .. writes /\ locked \in 0 .. writes
        /\ published \in 0 .. writes /\ patch \in [Patches -> -1 .. writes]
        /\ MaxWrites \in Nat /\ LiveTypeOK
    BY LiveEventsAssumption DEF FeedInv, LiveTypeOK
  <1>2. CASE ShortChange \/ PauseBySender \/ WithdrawEnds
    <2>1. /\ NewWrite /\ Publish(writes + 1)
          /\ locked' \in {0, locked} /\ UNCHANGED <<patch, breakerOpen>>
      BY <1>2 DEF ShortChange, PauseBySender, WithdrawEnds
    <2>2. /\ writes + 1 \in 0 .. writes' /\ writes' = writes + 1 /\ writes' <= MaxWrites
          /\ row' \in 0 .. writes'
      BY <1>1, <2>1, WritesTyped
    <2> QED  BY <1>1, <2>1, <2>2, AnnouncedGood
  <1>3. CASE GroupAction \/ LongChangeBegins
    <2>1. /\ NewWrite /\ locked' \in {locked, writes + 1}
          /\ UNCHANGED <<patch, published, breakerOpen, conn>>
      BY <1>3 DEF GroupAction, LongChangeBegins
    <2>2. writes' = writes + 1 /\ writes' \in 0 .. MaxWrites /\ row' \in 0 .. writes'
      BY <1>1, <2>1, WritesTyped
    <2>3. locked' \in 0 .. writes' /\ published \in 0 .. writes'
      BY <1>1, <2>1, <2>2
    <2> QED  BY <1>1, <2>1, <2>2, <2>3, SilentGood
  <1>4. CASE SettleEnds
    <2>1. /\ Publish(locked) /\ row' = locked /\ locked' = 0
          /\ UNCHANGED <<writes, patch, breakerOpen>>
      BY <1>4 DEF SettleEnds
    <2> QED  BY <1>1, <2>1, AnnouncedGood
  <1>5. CASE SettleFails
    BY <1>1, <1>5, SilentGood DEF SettleFails
  <1>6. ASSUME NEW p \in Patches, PatchReads(p)
        PROVE  FeedInv'
    <2>1. patch' = [patch EXCEPT ![p] = row]
          /\ UNCHANGED <<row, writes, locked, published, breakerOpen, conn>>
      BY <1>6 DEF PatchReads
    <2>2. patch' \in [Patches -> -1 .. writes']
      BY <1>1, <2>1
    <2> QED  BY <1>1, <2>1, <2>2, SilentGood
  <1>7. ASSUME NEW p \in Patches, PatchLifecycle(p)
        PROVE  FeedInv'
    <2>1. /\ NewWrite /\ Publish(writes + 1) /\ patch' = [patch EXCEPT ![p] = -1]
          /\ UNCHANGED <<locked, breakerOpen>>
      BY <1>7 DEF PatchLifecycle
    <2>2. /\ writes + 1 \in 0 .. writes' /\ writes' = writes + 1 /\ writes' <= MaxWrites
          /\ row' \in 0 .. writes'
      BY <1>1, <2>1, WritesTyped
    <2>3. patch' \in [Patches -> -1 .. writes']
      <3>1. -1 .. writes \subseteq -1 .. writes' /\ -1 \in -1 .. writes'
        BY <1>1, <2>2
      <3> QED  BY <1>1, <2>1, <3>1
    <2> QED  BY <1>1, <2>1, <2>2, <2>3, AnnouncedGood
  <1>8. ASSUME NEW p \in Patches, PatchLabel(p)
        PROVE  FeedInv'
    <2>1. /\ patch[p] # -1 /\ row' = patch[p] /\ patch' = [patch EXCEPT ![p] = -1]
          /\ UNCHANGED <<writes, locked, published, breakerOpen, conn>>
      BY <1>8 DEF PatchLabel
    <2>2. row' \in 0 .. writes' /\ patch' \in [Patches -> -1 .. writes']
      BY <1>1, <2>1
    <2> QED  BY <1>1, <2>1, <2>2, SilentGood
  <1> QED  BY <1>2, <1>3, <1>4, <1>5, <1>6, <1>7, <1>8

-----------------------------------------------------------------------------
(* Opening a connection, whichever route and limit.                        *)
LEMMA ConnectGood ==
    ASSUME FeedInv, NEW c \in Conns, NEW route \in Routes, NEW limit \in HeartbeatLimits,
           Connect(c, route, limit)
    PROVE  FeedInv'
  <1> DEFINE open == [Unopened EXCEPT !.state = "open", !.route = route, !.timed = TRUE,
                        !.limit = IF route = "events" THEN limit ELSE 0,
                        !.listening = route # "indexer", !.seen = published]
             r == IF route # "indexer" THEN open
                  ELSE IF breakerOpen \/ SSE_MAX_EVENTS = 1 THEN Closed(open)
                  ELSE [open EXCEPT !.beats = 1]
  <1>1. published \in 0 .. MaxWrites
    BY LiveEventsAssumption DEF FeedInv, LiveTypeOK
  <1>2. open \in Records /\ open.state = "open" /\ open.route = route
        /\ open.listening = (route # "indexer") /\ open.seen = published
    BY <1>1 DEF Unopened, Records
  <1>3. Good(open, published)
    BY <1>2 DEF Good
  <1>0. conn' = [conn EXCEPT ![c] = r] /\ UNCHANGED <<feed, breakerOpen>>
    BY DEF Connect
  <1> HIDE DEF open
  <1>4. Good([open EXCEPT !.beats = 1], published)
    BY <1>3 DEF Good, Records
  <1>5. Good(r, published)
    BY <1>1, <1>3, <1>4, ClosedGood
  <1> HIDE DEF r
  <1> QED  BY <1>0, <1>5, SetGood

(* What an open connection or its client does.                             *)
LEMMA ConnectionStep ==
    ASSUME FeedInv, NEW c \in Conns,
           \/ ClientLeaves(c) \/ ClientVanishes(c) \/ AbortOrCancel(c)
           \/ Heartbeat(c) \/ IdleDeadline(c) \/ Ping(c) \/ Snapshot(c)
    PROVE  FeedInv'
  <1>1. published \in 0 .. MaxWrites /\ Good(conn[c], published)
    BY LiveEventsAssumption DEF FeedInv, LiveTypeOK
  <1>2. /\ Good(Closed(conn[c]), published)
        /\ Good(Counted(conn[c]), published)
        /\ Good(Closed(Counted(conn[c])), published)
    BY <1>1, ClosedGood, CountedGood
  <1>3. CASE ClientLeaves(c) \/ ClientVanishes(c)
    <2>1. \A gone \in {"left", "vanished"} : Good([conn[c] EXCEPT !.client = gone], published)
      BY <1>1 DEF Good, Records
    <2> QED  BY <1>3, <2>1, SetGood DEF ClientLeaves, ClientVanishes, Set
  <1>4. CASE AbortOrCancel(c) \/ IdleDeadline(c)
    BY <1>2, <1>4, SetGood DEF AbortOrCancel, IdleDeadline, Set
  <1>5. CASE Heartbeat(c)
    <2>1. Good(IF conn[c].beats >= conn[c].limit THEN Closed(conn[c])
               ELSE Wrote(conn[c], Counted(conn[c])), published)
      BY <1>1, <1>2, WroteGood
    <2> QED  BY <1>5, <2>1, SetGood DEF Heartbeat, Set
  <1>6. CASE Ping(c)
    <2>1. Good(Wrote(conn[c], conn[c]), published)
      BY <1>1, WroteGood
    <2> QED  BY <1>6, <2>1, SetGood DEF Ping, Set
  <1>7. CASE Snapshot(c)
    <2> DEFINE r == IF breakerOpen \/ Counted(conn[c]).beats >= SSE_MAX_EVENTS
                    THEN Closed(Counted(conn[c])) ELSE Counted(conn[c])
    <2>1. Good(r, published)
      BY <1>2
    <2>2. conn' = [conn EXCEPT ![c] = Wrote(conn[c], r)] /\ UNCHANGED <<feed, breakerOpen>>
      BY <1>7 DEF Snapshot, Set
    <2> HIDE DEF r
    <2>3. Good(Wrote(conn[c], r), published)
      BY <1>1, <2>1, WroteGood
    <2> QED  BY <2>2, <2>3, SetGood
  <1> QED  BY <1>3, <1>4, <1>5, <1>6, <1>7

LEMMA FeedStep ==
    FeedInv /\ [LiveNext]_liveVars => FeedInv'
  <1> SUFFICES ASSUME FeedInv, [LiveNext]_liveVars PROVE FeedInv'
    OBVIOUS
  <1>1. ASSUME NEW c \in Conns, NEW route \in Routes, NEW limit \in HeartbeatLimits,
               Connect(c, route, limit)
        PROVE  FeedInv'
    BY <1>1, ConnectGood
  <1>2. CASE Breaker
    BY <1>2 DEF Breaker, feed, FeedInv, LiveTypeOK
  <1>3. CASE UNCHANGED liveVars
    BY <1>3 DEF liveVars, feed, FeedInv, LiveTypeOK
  <1> QED  BY <1>1, <1>2, <1>3, WriterStep, ConnectionStep DEF LiveNext

(* The three facts together: the feed of every open subscription and the   *)
(* bookkeeping of every connection are as they should be.                  *)
THEOREM FeedInvariant == LiveSpec => []FeedInv
  <1> QED  BY FeedInit, FeedStep, PTL DEF LiveSpec

(* Every variable of the live updates keeps its type, whatever the number  *)
(* of connections, writers and changes.                                    *)
THEOREM LiveEventsTyped == LiveSpec => []LiveTypeOK
  <1>1. FeedInv => LiveTypeOK
    BY DEF FeedInv
  <1> QED  BY <1>1, FeedInvariant, PTL

(* No open subscription misses an announcement (stream-publish.ts:147).    *)
THEOREM FeedsAreCurrent == LiveSpec => []FeedIsCurrent
  <1>1. FeedInv => FeedIsCurrent
    BY DEF FeedInv, FeedIsCurrent, Good, Open
  <1> QED  BY <1>1, FeedInvariant, PTL

(* No listener and no timer outlives its connection (sse.ts:191-207).      *)
THEOREM ConnectionsCleanUp == LiveSpec => []NothingOutlives
  <1>1. FeedInv => NothingOutlives
    BY DEF FeedInv, NothingOutlives, Good, Open
  <1> QED  BY <1>1, FeedInvariant, PTL
=============================================================================
