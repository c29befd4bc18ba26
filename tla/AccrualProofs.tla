---------------------------- MODULE AccrualProofs ----------------------------
(***************************************************************************)
(* What the release schedule of release.rs guarantees for every amount,    *)
(* time and duration: a portion lies between nothing and the whole amount, *)
(* and grows with the elapsed time; and what a sum over numbered rows does *)
(* when one of them changes.                                               *)
(***************************************************************************)
EXTENDS Accrual, Sums, WellFoundedInduction, TLAPS

(* Integer division rounds down to the quotient's floor. *)
LEMMA DivisionBounds ==
    ASSUME NEW p \in Nat, NEW d \in Nat \ {0}
    PROVE  /\ p \div d \in Nat
           /\ (p \div d) * d <= p
           /\ p < (p \div d) * d + d
  BY SMTT(30)

LEMMA ProductMonotone ==
    ASSUME NEW a \in Nat, NEW x \in Nat, NEW y \in Nat, x <= y
    PROVE  a * x <= a * y
  <1> DEFINE k == y - x
  <1>1. k \in Nat /\ y = x + k  OBVIOUS
  <1>2. a * y = a * x + a * k   BY <1>1, SMTT(30)
  <1>3. a * k \in Nat           BY <1>1, SMTT(30)
  <1> QED  BY <1>2, <1>3, SMTT(30)

LEMMA QuotientMonotone ==
    ASSUME NEW p \in Nat, NEW q \in Nat, NEW d \in Nat \ {0}, p <= q
    PROVE  p \div d <= q \div d
  <1> DEFINE u == p \div d
             v == q \div d
  <1>1. /\ u \in Nat /\ u * d <= p
        /\ v \in Nat /\ q < v * d + d
    BY DivisionBounds
  <1>2. SUFFICES ASSUME v + 1 <= u PROVE FALSE
    BY <1>1
  <1>3. d * (v + 1) <= d * u
    BY <1>1, <1>2, ProductMonotone
  <1>4. d * (v + 1) = v * d + d /\ d * u = u * d
    BY <1>1, SMTT(30)
  <1> QED  BY <1>1, <1>3, <1>4, SMTT(30)

(* release.rs: "the vested amount, always in [0, total_amount]". *)
LEMMA PortionBounds ==
    ASSUME NEW a \in Nat, NEW e \in Nat, NEW d \in Nat
    PROVE  Portion(a, e, d) \in 0..a
  <1>1. CASE e >= d
    BY <1>1 DEF Portion
  <1>2. CASE e < d
    <2> DEFINE q == (a * e) \div d
    <2>1. a * e \in Nat /\ a * d \in Nat /\ d \in Nat \ {0}
      BY <1>2, SMTT(30)
    <2>2. a * e <= a * d
      BY <1>2, ProductMonotone
    <2>3. q <= (a * d) \div d /\ q \in Nat
      BY <2>1, <2>2, QuotientMonotone, DivisionBounds
    <2>4. (a * d) \div d = a
      BY <2>1, SMTT(30)
    <2> QED  BY <1>2, <2>3, <2>4 DEF Portion
  <1> QED  BY <1>1, <1>2

LEMMA PortionMonotone ==
    ASSUME NEW a \in Nat, NEW x \in Nat, NEW y \in Nat, NEW d \in Nat, x <= y
    PROVE  Portion(a, x, d) <= Portion(a, y, d)
  <1>1. CASE y >= d
    <2>1. Portion(a, y, d) = a
      BY <1>1 DEF Portion
    <2> QED  BY <2>1, PortionBounds
  <1>2. CASE y < d
    <2>1. a * x \in Nat /\ a * y \in Nat /\ d \in Nat \ {0}
      BY <1>2, SMTT(30)
    <2>2. (a * x) \div d <= (a * y) \div d
      BY <2>1, ProductMonotone, QuotientMonotone
    <2> QED  BY <1>2, <2>2 DEF Portion
  <1> QED  BY <1>1, <1>2

(* apply_fee never charges more than the amount it is charged on. *)
LEMMA FeeBounds ==
    ASSUME NEW a \in Nat, NEW bps \in 0..MAX_FEE_BPS
    PROVE  FeeAmount(a, bps) \in 0..a
  <1>1. a * bps \in Nat /\ a * 10000 \in Nat
    BY SMTT(30) DEF MAX_FEE_BPS
  <1>2. a * bps <= a * 10000
    BY ProductMonotone DEF MAX_FEE_BPS
  <1>3. (a * bps) \div 10000 \in Nat /\ (a * bps) \div 10000 <= (a * 10000) \div 10000
    BY <1>1, <1>2, DivisionBounds, QuotientMonotone
  <1>4. (a * 10000) \div 10000 = a
    BY SMTT(30)
  <1> QED  BY <1>3, <1>4 DEF FeeAmount, MAX_FEE_BPS

-----------------------------------------------------------------------------
(* The fields the schedule reads are natural numbers. *)
ScheduleOK(s) ==
    /\ s.total_amount \in Nat
    /\ s.start_time \in Nat /\ s.end_time \in Nat /\ s.duration \in Nat
    /\ s.paused_at \in Nat /\ s.total_paused_duration \in Nat

LEMMA ElapsedType ==
    ASSUME NEW s, ScheduleOK(s), NEW t \in Nat
    PROVE  Elapsed(s, t) \in Nat
  BY DEF ScheduleOK, Elapsed, EffectiveNow, SaturatingSub, Larger, Smaller

(* vested_amount stays within [0, total_amount]. *)
LEMMA VestedBounds ==
    ASSUME NEW s, ScheduleOK(s), NEW t \in Nat
    PROVE  vested_amount(s, t) \in 0..s.total_amount
  <1>1. Portion(s.total_amount, Elapsed(s, t), s.duration) \in 0..s.total_amount
    BY ElapsedType, PortionBounds DEF ScheduleOK
  <1> QED  BY <1>1 DEF vested_amount, ScheduleOK

LEMMA ElapsedMonotone ==
    ASSUME NEW s, ScheduleOK(s), NEW t \in Nat, NEW u \in Nat, t <= u
    PROVE  Elapsed(s, t) <= Elapsed(s, u)
  BY DEF ScheduleOK, Elapsed, EffectiveNow, SaturatingSub, Larger, Smaller

(* Two schedules of one amount over one duration: the one that has run     *)
(* longer has released at least as much.                                   *)
LEMMA VestedFollowsElapsed ==
    ASSUME NEW s, NEW r, ScheduleOK(s), ScheduleOK(r),
           NEW t \in Nat, NEW u \in Nat,
           s.status # "Draft" => r.status # "Draft",
           r.total_amount = s.total_amount, r.duration = s.duration,
           Elapsed(s, t) <= Elapsed(r, u)
    PROVE  vested_amount(s, t) <= vested_amount(r, u)
  <1>1. Portion(s.total_amount, Elapsed(s, t), s.duration)
          <= Portion(r.total_amount, Elapsed(r, u), r.duration)
    BY ElapsedType, PortionMonotone DEF ScheduleOK
  <1>2. vested_amount(r, u) \in 0..r.total_amount
    BY VestedBounds
  <1>3. 0 <= vested_amount(r, u)
    BY <1>2 DEF ScheduleOK
  <1> QED  BY <1>1, <1>3 DEF vested_amount

(* As time passes nothing already vested is lost. *)
LEMMA VestedMonotone ==
    ASSUME NEW s, ScheduleOK(s), NEW t \in Nat, NEW u \in Nat, t <= u
    PROVE  vested_amount(s, t) <= vested_amount(s, u)
  BY ElapsedMonotone, VestedFollowsElapsed

-----------------------------------------------------------------------------
(* Sums over numbered rows.  The module's recursive function is shown to   *)
(* exist and to be unique by induction on the set of indices that satisfy  *)
(* a property.                                                             *)

(* A set of natural numbers with a member has a least one (the orders of   *)
(* WellFoundedInduction, whose minimality is a first-order fact).          *)
LEMMA NatHasLeast ==
    ASSUME NEW T, T \subseteq Nat, T # {}
    PROVE  \E m \in T : \A n \in T : m <= n
  <1> DEFINE R == OpToRel(<, Nat)
  <1>1. IsWellFoundedOn(R, Nat)
    BY Zenon, NatLessThanWellFounded
  <1>2. \E x \in T : \A y \in T : ~ (<<y, x>> \in R)
    <2> HIDE DEF R
    <2> QED BY <1>1, WFMin
  <1>3. \A x, y \in Nat : <<y, x>> \in R <=> y < x
    BY Zenon DEF OpToRel
  <1> HIDE DEF R
  <1>4. PICK m \in T : \A n \in T : ~ (<<n, m>> \in R)
    BY <1>2
  <1>5. \A n \in T : ~ (n < m) /\ n \in Nat /\ m \in Nat
    BY <1>3, <1>4
  <1> QED  BY <1>5

(* Induction on the natural numbers, for the set of those that satisfy a   *)
(* property.                                                               *)
LEMMA SetInduction ==
    ASSUME NEW S, 0 \in S, \A n \in Nat : n \in S => n + 1 \in S
    PROVE  Nat \subseteq S
  <1> SUFFICES ASSUME Nat \ S # {}
               PROVE FALSE
    OBVIOUS
  <1>1. PICK m \in Nat \ S : \A n \in Nat \ S : m <= n
    BY NatHasLeast
  <1>2. m - 1 \in Nat /\ ~(m <= m - 1)
    OBVIOUS
  <1>3. m - 1 \in S
    BY <1>1, <1>2
  <1>4. (m - 1) + 1 \in S
    BY <1>2, <1>3
  <1> QED BY <1>4

(* g[i] is v[1] + ... + v[i]: what the function inside SumUpTo satisfies.  *)
PartialSums(g, v, n) ==
    g = [i \in 0..n |-> IF i = 0 THEN 0 ELSE g[i - 1] + v[i]]

LEMMA PartialSumsExist ==
    ASSUME NEW v, NEW n \in Nat
    PROVE  \E g : PartialSums(g, v, n)
  <1> DEFINE S == {k \in Nat : \E g : PartialSums(g, v, k)}
  <1>1. 0 \in S
    <2>1. PartialSums([i \in 0..0 |-> 0], v, 0)
      BY DEF PartialSums
    <2> QED BY <2>1
  <1>2. ASSUME NEW k \in Nat, k \in S
        PROVE  k + 1 \in S
    <2>1. PICK g : PartialSums(g, v, k)
      BY <1>2
    <2> DEFINE h == [i \in 0..(k + 1) |-> IF i = k + 1 THEN g[k] + v[k + 1] ELSE g[i]]
    <2>2. h[0] = 0
      BY <2>1 DEF PartialSums
    <2>3. ASSUME NEW i \in 1..(k + 1)
          PROVE  h[i] = h[i - 1] + v[i]
      <3>1. i - 1 \in 0..k /\ i - 1 # k + 1 /\ h[i - 1] = g[i - 1]
        OBVIOUS
      <3>2. CASE i = k + 1
        BY <3>1, <3>2
      <3>3. CASE i # k + 1
        <4>1. i \in 0..k /\ i # 0
          BY <3>3
        <4>2. g[i] = g[i - 1] + v[i]
          BY <2>1, <4>1 DEF PartialSums
        <4> QED BY <3>1, <3>3, <4>2
      <3> QED BY <3>2, <3>3
    <2>4. PartialSums(h, v, k + 1)
      <3>1. \A i \in 0..(k + 1) : i # 0 => i \in 1..(k + 1)
        OBVIOUS
      <3>2. h = [i \in 0..(k + 1) |-> h[i]]
        OBVIOUS
      <3> HIDE DEF h
      <3>3. \A i \in 0..(k + 1) : h[i] = IF i = 0 THEN 0 ELSE h[i - 1] + v[i]
        BY <2>2, <2>3, <3>1
      <3> QED BY <3>2, <3>3, Zenon DEF PartialSums
    <2> QED BY <2>4
  <1> HIDE DEF S
  <1>3. Nat \subseteq S
    BY <1>1, <1>2, SetInduction
  <1> QED BY <1>3 DEF S

(* Two tables of partial sums agree wherever both are defined.             *)
LEMMA PartialSumsAgree ==
    ASSUME NEW v, NEW n \in Nat, NEW m \in Nat, NEW g, NEW h,
           PartialSums(g, v, n), PartialSums(h, v, m),
           NEW i \in Nat, i <= n, i <= m
    PROVE  g[i] = h[i]
  <1> DEFINE S == {k \in Nat : k <= n /\ k <= m => g[k] = h[k]}
  <1>1. 0 \in S
    BY DEF PartialSums
  <1>2. ASSUME NEW k \in Nat, k \in S
        PROVE  k + 1 \in S
    <2> SUFFICES ASSUME k + 1 <= n, k + 1 <= m
                 PROVE  g[k + 1] = h[k + 1]
      OBVIOUS
    <2>1. k + 1 \in 0..n /\ k + 1 \in 0..m /\ k + 1 # 0 /\ (k + 1) - 1 = k
      OBVIOUS
    <2>2. g[k + 1] = g[k] + v[k + 1] /\ h[k + 1] = h[k] + v[k + 1]
      BY <2>1 DEF PartialSums
    <2> QED BY <1>2, <2>2
  <1> HIDE DEF S
  <1>3. Nat \subseteq S
    BY <1>1, <1>2, SetInduction
  <1> QED BY <1>3 DEF S

LEMMA SumIsLastPartial ==
    ASSUME NEW v, NEW n \in Nat
    PROVE  \E g : PartialSums(g, v, n) /\ SumUpTo(v, n) = g[n]
  <1> DEFINE c == CHOOSE g : PartialSums(g, v, n)
  <1>1. PartialSums(c, v, n)
    BY PartialSumsExist
  <1>2. SumUpTo(v, n) = c[n]
    BY Zenon DEF SumUpTo, PartialSums
  <1> QED BY <1>1, <1>2

(* The recurrence, from which everything below follows by induction.       *)
LEMMA SumOfNone ==
    ASSUME NEW v
    PROVE  SumUpTo(v, 0) = 0
  BY SumIsLastPartial DEF PartialSums

LEMMA SumOfOneMore ==
    ASSUME NEW v, NEW n \in Nat
    PROVE  SumUpTo(v, n + 1) = SumUpTo(v, n) + v[n + 1]
  <1>1. PICK g : PartialSums(g, v, n) /\ SumUpTo(v, n) = g[n]
    BY SumIsLastPartial
  <1>2. PICK h : PartialSums(h, v, n + 1) /\ SumUpTo(v, n + 1) = h[n + 1]
    BY SumIsLastPartial
  <1>3. h[n] = g[n]
    BY <1>1, <1>2, PartialSumsAgree
  <1>4. n + 1 \in 0..(n + 1) /\ n + 1 # 0 /\ (n + 1) - 1 = n
    OBVIOUS
  <1>5. h[n + 1] = h[n] + v[n + 1]
    BY <1>2, <1>4 DEF PartialSums
  <1> QED BY <1>1, <1>2, <1>3, <1>5

LEMMA SumType ==
    ASSUME NEW v, NEW n \in Nat, \A i \in 1..n : v[i] \in Int
    PROVE  SumUpTo(v, n) \in Int
  <1> DEFINE S == {k \in Nat : k <= n => SumUpTo(v, k) \in Int}
  <1>1. 0 \in S
    BY SumOfNone
  <1>2. ASSUME NEW k \in Nat, k \in S
        PROVE  k + 1 \in S
    BY <1>2, SumOfOneMore
  <1> HIDE DEF S
  <1>3. Nat \subseteq S
    BY <1>1, <1>2, SetInduction
  <1> QED BY <1>3 DEF S

LEMMA SumSame ==
    ASSUME NEW v, NEW w, NEW n \in Nat, \A i \in 1..n : v[i] = w[i]
    PROVE  SumUpTo(v, n) = SumUpTo(w, n)
  <1> DEFINE S == {k \in Nat : k <= n => SumUpTo(v, k) = SumUpTo(w, k)}
  <1>1. 0 \in S
    BY SumOfNone
  <1>2. ASSUME NEW k \in Nat, k \in S
        PROVE  k + 1 \in S
    BY <1>2, SumOfOneMore
  <1> HIDE DEF S
  <1>3. Nat \subseteq S
    BY <1>1, <1>2, SetInduction
  <1> QED BY <1>3 DEF S

(* Changing one term changes the sum by the difference.                    *)
LEMMA SumChanged ==
    ASSUME NEW v, NEW w, NEW n \in Nat, NEW j \in 1..n,
           \A i \in 1..n : v[i] \in Int /\ w[i] \in Int,
           \A i \in 1..n : i # j => v[i] = w[i]
    PROVE  SumUpTo(w, n) = SumUpTo(v, n) - v[j] + w[j]
  <1> DEFINE S == {k \in Nat : k <= n =>
                     SumUpTo(w, k) = SumUpTo(v, k) + (IF k < j THEN 0 ELSE w[j] - v[j])}
  <1>1. 0 \in S
    BY SumOfNone
  <1>2. ASSUME NEW k \in Nat, k \in S
        PROVE  k + 1 \in S
    <2> SUFFICES ASSUME k + 1 <= n
                 PROVE  SumUpTo(w, k + 1) = SumUpTo(v, k + 1)
                          + (IF k + 1 < j THEN 0 ELSE w[j] - v[j])
      OBVIOUS
    <2>1. SumUpTo(v, k) \in Int
      BY SumType
    <2>2. SumUpTo(w, k) = SumUpTo(v, k) + (IF k < j THEN 0 ELSE w[j] - v[j])
      BY <1>2
    <2>3. k + 1 \in 1..n
      OBVIOUS
    <2> HIDE DEF S
    <2> QED BY <2>1, <2>2, <2>3, SumOfOneMore
  <1> HIDE DEF S
  <1>3. Nat \subseteq S
    BY <1>1, <1>2, SetInduction
  <1>4. SumUpTo(w, n) = SumUpTo(v, n) + (w[j] - v[j])
    BY <1>3 DEF S
  <1>5. SumUpTo(v, n) \in Int
    BY SumType
  <1> QED BY <1>4, <1>5

LEMMA SumAtMost ==
    ASSUME NEW v, NEW w, NEW n \in Nat,
           \A i \in 1..n : v[i] \in Int /\ w[i] \in Int /\ v[i] <= w[i]
    PROVE  SumUpTo(v, n) <= SumUpTo(w, n)
  <1> DEFINE S == {k \in Nat : k <= n => SumUpTo(v, k) <= SumUpTo(w, k)}
  <1>1. 0 \in S
    BY SumOfNone
  <1>2. ASSUME NEW k \in Nat, k \in S
        PROVE  k + 1 \in S
    <2> SUFFICES ASSUME k + 1 <= n
                 PROVE  SumUpTo(v, k + 1) <= SumUpTo(w, k + 1)
      OBVIOUS
    <2>1. SumUpTo(v, k) \in Int /\ SumUpTo(w, k) \in Int
      BY SumType
    <2>2. SumUpTo(v, k) <= SumUpTo(w, k)
      BY <1>2
    <2>3. k + 1 \in 1..n
      OBVIOUS
    <2> HIDE DEF S
    <2> QED BY <2>1, <2>2, <2>3, SumOfOneMore
  <1> HIDE DEF S
  <1>3. Nat \subseteq S
    BY <1>1, <1>2, SetInduction
  <1> QED BY <1>3 DEF S

LEMMA SumOfZeros ==
    ASSUME NEW v, NEW n \in Nat, \A i \in 1..n : v[i] = 0
    PROVE  SumUpTo(v, n) = 0
  <1> DEFINE S == {k \in Nat : k <= n => SumUpTo(v, k) = 0}
  <1>1. 0 \in S
    BY SumOfNone
  <1>2. ASSUME NEW k \in Nat, k \in S
        PROVE  k + 1 \in S
    BY <1>2, SumOfOneMore
  <1> HIDE DEF S
  <1>3. Nat \subseteq S
    BY <1>1, <1>2, SetInduction
  <1> QED BY <1>3 DEF S

(* Sums of a linear combination, term by term.                             *)
LEMMA SumCombined ==
    ASSUME NEW v, NEW w, NEW u, NEW n \in Nat, NEW c \in Int,
           \A i \in 1..n : v[i] \in Int /\ w[i] \in Int /\ u[i] = v[i] + c * w[i]
    PROVE  SumUpTo(u, n) = SumUpTo(v, n) + c * SumUpTo(w, n)
  <1> DEFINE S == {k \in Nat : k <= n =>
                     SumUpTo(u, k) = SumUpTo(v, k) + c * SumUpTo(w, k)}
  <1>1. 0 \in S
    BY SumOfNone
  <1>2. ASSUME NEW k \in Nat, k \in S
        PROVE  k + 1 \in S
    <2> SUFFICES ASSUME k + 1 <= n
                 PROVE  SumUpTo(u, k + 1) = SumUpTo(v, k + 1) + c * SumUpTo(w, k + 1)
      OBVIOUS
    <2>1. SumUpTo(v, k) \in Int /\ SumUpTo(w, k) \in Int
      BY SumType
    <2>2. SumUpTo(u, k) = SumUpTo(v, k) + c * SumUpTo(w, k)
      BY <1>2
    <2>3. k + 1 \in 1..n
      OBVIOUS
    <2>4. /\ SumUpTo(u, k + 1) = SumUpTo(u, k) + u[k + 1]
          /\ SumUpTo(v, k + 1) = SumUpTo(v, k) + v[k + 1]
          /\ SumUpTo(w, k + 1) = SumUpTo(w, k) + w[k + 1]
      BY SumOfOneMore
    <2>5. /\ v[k + 1] \in Int /\ w[k + 1] \in Int
          /\ u[k + 1] = v[k + 1] + c * w[k + 1]
      BY <2>3
    <2> HIDE DEF S
    <2> QED BY <2>1, <2>2, <2>4, <2>5, SMTT(30)
  <1> HIDE DEF S
  <1>3. Nat \subseteq S
    BY <1>1, <1>2, SetInduction
  <1> QED BY <1>3 DEF S

(* Natural terms: the sum is natural, and no term exceeds it.              *)
LEMMA SumOfNaturals ==
    ASSUME NEW v, NEW n \in Nat, \A i \in 1..n : v[i] \in Nat
    PROVE  /\ SumUpTo(v, n) \in Nat
           /\ \A i \in 1..n : v[i] <= SumUpTo(v, n)
  <1>1. ASSUME NEW w, \A i \in 1..n : w[i] \in Nat
        PROVE  SumUpTo(w, n) \in Nat
    <2> DEFINE zeros == [i \in 1..n |-> 0]
    <2>1. SumUpTo(zeros, n) = 0
      BY SumOfZeros
    <2>2. \A i \in 1..n : zeros[i] \in Int /\ w[i] \in Int /\ zeros[i] <= w[i]
      BY <1>1
    <2> HIDE DEF zeros
    <2>3. SumUpTo(zeros, n) <= SumUpTo(w, n) /\ SumUpTo(w, n) \in Int
      BY <2>2, SumAtMost, SumType
    <2> QED  BY <2>1, <2>3
  <1>2. ASSUME NEW i \in 1..n
        PROVE  v[i] <= SumUpTo(v, n)
    <2> DEFINE rest == [k \in 1..n |-> IF k = i THEN 0 ELSE v[k]]
    <2>1. /\ \A k \in 1..n : rest[k] \in Nat
          /\ rest[i] = 0
      OBVIOUS
    <2>2. \A k \in 1..n : v[k] \in Int /\ rest[k] \in Int /\ (k # i => v[k] = rest[k])
      OBVIOUS
    <2> HIDE DEF rest
    <2>3. SumUpTo(rest, n) \in Nat /\ SumUpTo(v, n) \in Nat
      BY <1>1, <2>1
    <2>4. SumUpTo(rest, n) = SumUpTo(v, n) - v[i] + rest[i]
      BY <2>2, SumChanged
    <2> QED  BY <2>1, <2>3, <2>4
  <1> QED  BY <1>1, <1>2

(* One more row, the others as they were.                                  *)
LEMMA SumAppended ==
    ASSUME NEW v, NEW w, NEW n \in Nat, \A i \in 1..n : v[i] = w[i]
    PROVE  SumUpTo(w, n + 1) = SumUpTo(v, n) + w[n + 1]
  BY SumSame, SumOfOneMore
=============================================================================
