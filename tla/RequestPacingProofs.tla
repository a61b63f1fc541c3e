------------------------ MODULE RequestPacingProofs -------------------------
(***************************************************************************)
(* Proofs about RequestPacing, for every set of callers, every interval    *)
(* and every horizon, with sleeps that end as late as they please.         *)
(***************************************************************************)
EXTENDS RequestPacing, TLAPS

(* k intervals; kept folded so that the provers see linear arithmetic.     *)
Span(k) == k * Interval

LEMMA SpanGrows ==
  /\ Span(0) = 0
  /\ \A k \in Int : Span(k) \in Int /\ Span(k + 1) = Span(k) + Interval
  <1>1. Interval \in Int
    BY IntervalIsNat
  <1> QED
    BY <1>1, SMT DEF Span

IInv == TypeOK /\ PacingInv /\ RateIsKept

LEMMA InitIInv == Init => IInv
  BY NobodyIsNoCaller DEF Init, IInv, TypeOK, PacingInv, RateIsKept

LEMMA NextTypeOK == TypeOK /\ [Next]_vars => TypeOK'
  <1> SUFFICES ASSUME TypeOK, [Next]_vars PROVE TypeOK'
    OBVIOUS
  <1> USE IntervalIsNat, NobodyIsNoCaller DEF TypeOK
  <1>1. ASSUME NEW c \in Callers, Call(c) PROVE TypeOK'
    BY <1>1 DEF Call, Waits
  <1>2. CASE Pass
    BY <1>2 DEF Pass, NewSlot
  <1>3. CASE Sleep
    BY <1>3 DEF Sleep, NewSlot
  <1>4. CASE Wake
    BY <1>4 DEF Wake
  <1>5. CASE Tick
    BY <1>5 DEF Tick
  <1>6. CASE UNCHANGED vars
    BY <1>6 DEF vars
  <1> QED
    BY <1>1, <1>2, <1>3, <1>4, <1>5, <1>6 DEF Next

(* A request that starts now keeps the rate with every start before it,    *)
(* if the slot it was given keeps it.                                      *)
LEMMA OneMoreStart ==
  ASSUME TypeOK, PacingInv, RateIsKept, NEW s \in Nat, s <= now,
         starts' = Append(starts, now),
         \A i \in 1 .. (Len(starts) - 1) : s >= starts[i] + Span(Len(starts) - i)
  PROVE  RateIsKept'
  <1> SUFFICES ASSUME NEW i \in 1 .. Len(starts'), NEW j \in 1 .. Len(starts'),
                      j >= i + 2
               PROVE  starts'[j] - starts'[i] >= Span(j - i - 1)
    BY DEF RateIsKept, Span
  <1>1. /\ Len(starts') = Len(starts) + 1
        /\ \A k \in 1 .. Len(starts) : starts'[k] = starts[k]
        /\ starts'[Len(starts) + 1] = now
        /\ Len(starts) \in Nat
    BY DEF TypeOK
  <1>0. i \in 1 .. (Len(starts) + 1) /\ j \in 1 .. (Len(starts) + 1)
    BY <1>1
  <1>2. CASE j <= Len(starts)
    <2>1. \A a, b \in 1 .. Len(starts) : b >= a + 2 => starts[b] - starts[a] >= Span(b - a - 1)
      BY DEF RateIsKept, Span
    <2>2. i \in 1 .. Len(starts) /\ j \in 1 .. Len(starts)
      BY <1>0, <1>1, <1>2
    <2>3. starts[j] - starts[i] >= Span(j - i - 1)
      BY <2>1, <2>2
    <2> QED
      BY <1>1, <2>2, <2>3
  <1>3. CASE j = Len(starts) + 1
    <2>1. i \in 1 .. (Len(starts) - 1) /\ j - i - 1 = Len(starts) - i
      BY <1>0, <1>1, <1>3
    <2>2. s >= starts[i] + Span(j - i - 1)
      BY <2>1
    <2>3. Span(j - i - 1) \in Int
      BY <1>1, <1>3, SpanGrows
    <2>4. starts[i] \in Nat /\ now \in Nat
      BY <2>1, <1>1 DEF TypeOK
    <2> QED
      BY <1>1, <1>3, <2>1, <2>2, <2>3, <2>4
  <1>4. j <= Len(starts) \/ j = Len(starts) + 1
    <2> DEFINE n == Len(starts)
    <2>1. n \in Nat /\ j \in 1 .. (n + 1)
      BY <1>0, <1>1
    <2> HIDE DEF n
    <2>2. j <= n \/ j = n + 1
      BY <2>1
    <2> QED
      BY <2>2 DEF n
  <1> QED
    BY <1>2, <1>3, <1>4

(* The slot that is next after s leaves one more interval behind.          *)
LEMMA OneMoreSlot ==
  ASSUME TypeOK, NEW s \in Nat,
         NEW i \in 1 .. Len(starts), s >= starts[i] + Span(Len(starts) - i)
  PROVE  s + Interval >= starts[i] + Span(Len(starts) + 1 - i)
  <1>1. Len(starts) - i \in Int /\ Len(starts) + 1 - i = (Len(starts) - i) + 1
    BY DEF TypeOK
  <1>2. /\ Span(Len(starts) + 1 - i) = Span(Len(starts) - i) + Interval
        /\ Span(Len(starts) - i) \in Int
    BY <1>1, SpanGrows
  <1>3. starts[i] \in Nat /\ Interval \in Nat
    BY IntervalIsNat DEF TypeOK
  <1> QED
    BY <1>2, <1>3

LEMMA NextPacing == IInv /\ [Next]_vars => PacingInv' /\ RateIsKept'
  <1> SUFFICES ASSUME IInv, [Next]_vars PROVE PacingInv' /\ RateIsKept'
    OBVIOUS
  <1>0. TypeOK /\ PacingInv /\ RateIsKept
    BY DEF IInv
  <1>1. ASSUME NEW c \in Callers, Call(c) PROVE PacingInv' /\ RateIsKept'
    BY <1>0, <1>1 DEF Call, PacingInv, RateIsKept
  <1>2. CASE Pass
    <2> DEFINE n == Len(starts)
    <2>1. /\ holder = Nobody /\ holder' = Nobody /\ now' = now
          /\ starts' = Append(starts, now)
          /\ nextSlot' = now + Interval
          /\ now >= nextSlot
      BY <1>0, <1>2 DEF Pass, NewSlot, TypeOK
    <2>2. \A i \in 1 .. (n - 1) : nextSlot >= starts[i] + Span(n - i)
      BY <1>0, <2>1 DEF PacingInv, Span
    <2>3. n \in Nat /\ now \in Nat /\ nextSlot \in Nat /\ starts \in Seq(Nat)
      BY <1>0 DEF TypeOK
    <2>4. \A i \in 1 .. n : now >= starts[i] + Span(n - i)
      <3> TAKE i \in 1 .. n
      <3>1. CASE i = n
        BY <3>1, <1>0, <2>3, SpanGrows DEF PacingInv
      <3>2. CASE i \in 1 .. (n - 1)
        <4>1. nextSlot >= starts[i] + Span(n - i)
          BY <3>2, <2>2
        <4>2. starts[i] \in Nat /\ n - i \in Int
          BY <3>2, <2>3
        <4>3. Span(n - i) \in Int
          BY <4>2, SpanGrows
        <4> HIDE DEF n
        <4> QED
          BY <4>1, <4>2, <4>3, <2>1, <2>3
      <3> QED
        BY <3>1, <3>2, <2>3
    <2>5. RateIsKept'
      BY <1>0, <2>1, <2>3, <2>4, OneMoreStart
    <2>6. \A i \in 1 .. n : now + Interval >= starts[i] + Span(n + 1 - i)
      BY <1>0, <2>3, <2>4, OneMoreSlot
    <2>7. /\ Len(starts') = n + 1
          /\ \A i \in 1 .. n : starts'[i] = starts[i]
          /\ starts'[n + 1] = now
      BY <2>1, <2>3
    <2>8. \A i \in 1 .. Len(starts') : starts'[i] <= now'
      BY <1>0, <2>1, <2>3, <2>7 DEF PacingInv
    <2>9. \A i \in 1 .. (Len(starts') - 1) :
             nextSlot' >= starts'[i] + (Len(starts') - i) * Interval
      BY <2>1, <2>3, <2>6, <2>7 DEF Span
    <2> QED
      BY <2>1, <2>5, <2>8, <2>9 DEF PacingInv
  <1>3. CASE Sleep
    <2> DEFINE n == Len(starts)
    <2>1. /\ holder = Nobody /\ holder' # Nobody
          /\ UNCHANGED <<now, starts>>
          /\ slot' = nextSlot /\ nextSlot > now
          /\ nextSlot' = slot' + Interval
      BY <1>0, <1>3, NobodyIsNoCaller DEF Sleep, NewSlot, TypeOK
    <2>2. \A i \in 1 .. (n - 1) : nextSlot >= starts[i] + (n - i) * Interval
      BY <1>0, <2>1 DEF PacingInv
    <2>3. n \in Nat /\ now \in Nat /\ nextSlot \in Nat /\ starts \in Seq(Nat)
      BY <1>0 DEF TypeOK
    <2>4. ASSUME n \in 1 .. n PROVE nextSlot >= starts[n] + (n - n) * Interval
      <3>1. starts[n] <= now /\ starts[n] \in Nat
        BY <1>0, <2>3, <2>4 DEF PacingInv
      <3>2. (n - n) * Interval = 0
        BY <2>3, IntervalIsNat
      <3> QED
        BY <2>1, <2>3, <3>1, <3>2
    <2>5. \A i \in 1 .. n : nextSlot >= starts[i] + (n - i) * Interval
      BY <2>2, <2>3, <2>4
    <2> QED
      BY <1>0, <2>1, <2>5 DEF PacingInv, RateIsKept
  <1>4. CASE Wake
    <2> DEFINE n == Len(starts)
    <2>1. /\ holder # Nobody /\ holder' = Nobody
          /\ starts' = Append(starts, now)
          /\ UNCHANGED <<now, nextSlot>>
          /\ slot <= now
      BY <1>0, <1>4 DEF Wake, TypeOK
    <2>2. n \in Nat /\ now \in Nat /\ slot \in Nat /\ starts \in Seq(Nat)
      BY <1>0 DEF TypeOK
    <2>3. /\ nextSlot = slot + Interval
          /\ \A i \in 1 .. n : slot >= starts[i] + Span(n - i)
      BY <1>0, <2>1 DEF PacingInv, Span
    <2>4. RateIsKept'
      BY <1>0, <2>1, <2>2, <2>3, OneMoreStart
    <2>5. \A i \in 1 .. n : nextSlot >= starts[i] + Span(n + 1 - i)
      BY <1>0, <2>2, <2>3, OneMoreSlot
    <2>6. /\ Len(starts') = n + 1
          /\ \A i \in 1 .. n : starts'[i] = starts[i]
          /\ starts'[n + 1] = now
      BY <2>1, <2>2
    <2>7. \A i \in 1 .. Len(starts') : starts'[i] <= now'
      BY <1>0, <2>1, <2>2, <2>6 DEF PacingInv
    <2>8. \A i \in 1 .. (Len(starts') - 1) :
             nextSlot' >= starts'[i] + (Len(starts') - i) * Interval
      BY <2>1, <2>2, <2>5, <2>6 DEF Span
    <2> QED
      BY <2>1, <2>4, <2>7, <2>8 DEF PacingInv
  <1>5. CASE Tick
    <2>1. \A i \in 1 .. Len(starts) : starts[i] <= now + 1
      BY <1>0 DEF PacingInv, TypeOK
    <2> QED
      BY <1>0, <1>5, <2>1 DEF Tick, PacingInv, RateIsKept
  <1>6. CASE UNCHANGED vars
    BY <1>0, <1>6 DEF vars, PacingInv, RateIsKept
  <1> QED
    BY <1>1, <1>2, <1>3, <1>4, <1>5, <1>6 DEF Next, IInv

LEMMA PacingInductive == Spec => []IInv
  <1>1. IInv /\ [Next]_vars => IInv'
    BY NextTypeOK, NextPacing DEF IInv
  <1> QED
    BY InitIInv, <1>1, PTL DEF Spec

(* The lock's state keeps its shape: no caller waits twice, nor while it    *)
(* holds the lock.                                                         *)
THEOREM PacingTypeOK == Spec => []TypeOK
  <1>1. IInv => TypeOK
    BY DEF IInv
  <1> QED
    BY PacingInductive, <1>1, PTL

(* At any rate and with any number of callers, however late the sleeps of  *)
(* MinIntervalRateLimiter.acquire end: n + 2 requests in a row span at      *)
(* least n intervals.                                                      *)
THEOREM RateHolds == Spec => []RateIsKept
  <1>1. IInv => RateIsKept
    BY DEF IInv
  <1> QED
    BY PacingInductive, <1>1, PTL
=============================================================================
