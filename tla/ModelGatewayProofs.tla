------------------------- MODULE ModelGatewayProofs -------------------------
(***************************************************************************)
(* Proofs about ModelGateway, for every set of calls, limit, number of     *)
(* attempts, clock and calendar.                                           *)
(***************************************************************************)
EXTENDS ModelGateway, Foundations

(* Days are numbered no faster than ticks, so the day of an instant of the *)
(* model is one of its days.                                               *)
LEMMA UtcDayInDays == ASSUME NEW t \in Start .. Horizon PROVE UtcDay(t) \in Days
  <1>1. TicksPerDay \in Nat /\ TicksPerDay >= 1 /\ Horizon \in Nat /\ t \in Nat
    BY ClockShape
  <1>2. t \div TicksPerDay \in Int /\ 0 <= t \div TicksPerDay
    BY <1>1
  <1>3. t \div TicksPerDay <= t
    BY <1>1, <1>2
  <1> QED
    BY <1>1, <1>2, <1>3 DEF UtcDay, Days

(* The calendar as the proofs use it: instants for every date and the one  *)
(* after it, in order.                                                     *)
LEMMA MidnightsInOrder ==
  ASSUME NEW d \in Dates
  PROVE  /\ d \in Nat /\ d >= 1 /\ d + 1 <= Len(Midnights)
         /\ Midnights[d] \in Nat /\ Midnights[d + 1] \in Nat
         /\ Midnights[d] < Midnights[d + 1]
  BY CalendarShape DEF Dates

(* Every instant of the clock has a date in Los Angeles...                 *)
LEMMA HasDate ==
  ASSUME NEW t \in Start .. Horizon
  PROVE  /\ PacificDate(t) \in Dates
         /\ Midnights[PacificDate(t)] <= t
         /\ t < Midnights[PacificDate(t) + 1]
  <1> DEFINE n == Len(Midnights) - 1
             T == {d \in 1 .. n : Midnights[d] <= t}
             On(d) == Midnights[d] <= t /\ t < Midnights[d + 1]
  <1>1. n \in Nat /\ n >= 1 /\ Start \in Nat /\ Horizon \in Nat
    BY CalendarShape, ClockShape
  <1>2. T \in SUBSET (1 .. n) /\ T # {}
    BY <1>1, CalendarShape
  <1>3. PICK g \in T : \A d \in T : d <= g
    <2> HIDE DEF n, T
    <2> QED
      BY <1>1, <1>2, GreatestExists
  <1>4. g \in Dates /\ Midnights[g] <= t
    BY DEF Dates
  <1>5. t < Midnights[g + 1]
    <2>1. CASE g = n
      BY <2>1, <1>1, CalendarShape
    <2>2. CASE g # n
      <3>1. g + 1 \in 1 .. n /\ g + 1 \notin T
        BY <1>1, <1>3, <2>2
      <3>2. Midnights[g + 1] \in Nat
        BY <1>4, MidnightsInOrder
      <3> QED
        BY <1>1, <3>1, <3>2
    <2> QED
      BY <2>1, <2>2
  <1>6. On(g)
    BY <1>4, <1>5
  <1>7. PacificDate(t) = CHOOSE d \in Dates : On(d)
    BY DEF PacificDate
  <1> HIDE DEF On
  <1>8. PacificDate(t) \in Dates /\ On(PacificDate(t))
    BY <1>4, <1>6, <1>7
  <1> QED
    BY <1>8 DEF On

(* ... and only one.                                                       *)
LEMMA OneDate ==
  ASSUME NEW t \in Start .. Horizon, NEW d \in Dates,
         Midnights[d] <= t, t < Midnights[d + 1]
  PROVE  PacificDate(t) = d
  <1> DEFINE e == PacificDate(t)
  <1>1. e \in Dates /\ Midnights[e] <= t /\ t < Midnights[e + 1]
    BY HasDate
  <1> HIDE DEF e
  <1>2. /\ \A x \in {d, e} : /\ x \in Nat /\ x >= 1 /\ x + 1 <= Len(Midnights)
                             /\ Midnights[x] \in Nat /\ Midnights[x + 1] \in Nat
        /\ t \in Nat
    BY <1>1, MidnightsInOrder, ClockShape
  <1>3. ASSUME NEW x \in {d, e}, NEW y \in {d, e}, x < y
        PROVE  Midnights[x + 1] <= Midnights[y]
    <2>1. x + 1 = y \/ x + 1 < y
      BY <1>2, <1>3
    <2>2. ASSUME x + 1 < y PROVE Midnights[x + 1] < Midnights[y]
      <3> DEFINE z == x + 1
      <3>1. z \in 1 .. Len(Midnights) /\ y \in 1 .. Len(Midnights) /\ z < y
        <4>1. Len(Midnights) \in Nat
          BY CalendarShape
        <4>2. x \in Nat /\ x >= 1 /\ y \in Nat /\ y >= 1 /\ y + 1 <= Len(Midnights)
          BY <1>2
        <4> QED
          BY <2>2, <4>1, <4>2
      <3> HIDE DEF z
      <3>2. Midnights[z] < Midnights[y]
        BY <3>1, CalendarShape
      <3> QED
        BY <3>2 DEF z
    <2> QED
      BY <1>2, <2>1, <2>2
  <1>4. ~(d < e) /\ ~(e < d)
    BY <1>1, <1>2, <1>3
  <1>5. d = e
    BY <1>2, <1>4
  <1> QED
    BY <1>5 DEF e

(* The next quota reset is an instant, later than the present one.         *)
LEMMA NextQuotaResetLater ==
  ASSUME NEW t \in Start .. Horizon
  PROVE  NextQuotaReset(t) \in Nat /\ NextQuotaReset(t) > t
  BY HasDate, MidnightsInOrder, ClockShape DEF NextQuotaReset

(* A tick keeps the date, or reaches the midnight that begins the next.    *)
LEMMA DateAfterTick ==
  ASSUME NEW t \in Start .. Horizon, t < Horizon
  PROVE  LET d == PacificDate(t)
         IN  \/ PacificDate(t + 1) = d /\ t + 1 < Midnights[d + 1]
             \/ PacificDate(t + 1) = d + 1 /\ t + 1 = Midnights[d + 1]
  <1> DEFINE d == PacificDate(t)
  <1>1. d \in Dates /\ Midnights[d] <= t /\ t < Midnights[d + 1]
    BY HasDate
  <1>2. t + 1 \in Start .. Horizon /\ t \in Nat
    BY ClockShape
  <1>3. /\ d \in Nat /\ d >= 1 /\ d + 1 <= Len(Midnights)
        /\ Midnights[d] \in Nat /\ Midnights[d + 1] \in Nat
    BY <1>1, MidnightsInOrder
  <1> HIDE DEF d
  <1>4. CASE t + 1 < Midnights[d + 1]
    <2>1. Midnights[d] <= t + 1
      BY <1>1, <1>2, <1>3
    <2>2. PacificDate(t + 1) = d
      BY <1>1, <1>2, <1>4, <2>1, OneDate
    <2> QED
      BY <1>4, <2>2 DEF d
  <1>5. CASE t + 1 = Midnights[d + 1]
    <2> DEFINE e == d + 1
    <2>1. d + 1 # Len(Midnights)
      BY <1>2, <1>3, <1>5, CalendarShape, ClockShape
    <2>2. e \in Dates
      BY <1>3, <2>1, CalendarShape DEF Dates
    <2>3. Midnights[e] <= t + 1 /\ t + 1 < Midnights[e + 1]
      BY <1>2, <1>3, <1>5, <2>2, MidnightsInOrder
    <2>4. PacificDate(t + 1) = e
      <3> HIDE DEF e
      <3> QED
        BY <1>2, <2>2, <2>3, OneDate
    <2> QED
      BY <1>5, <2>4 DEF d
  <1> QED
    BY <1>1, <1>2, <1>3, <1>4, <1>5

-----------------------------------------------------------------------------
(* Type correctness: the clock stays within its horizon, every call keeps  *)
(* a day, a ticket and an attempt number within max_attempts.  The attempt *)
(* bound needs what LoopInv says of the retry loop's counter.               *)
LEMMA InitTypeOK == Init => TypeOK /\ LoopInv
  <1> SUFFICES ASSUME Init PROVE TypeOK /\ LoopInv
    OBVIOUS
  <1>1. 0 \in Days /\ Start \in Start .. Horizon /\ 0 \in 0 .. MaxCrashes
    BY ClockShape DEF Days
  <1> QED
    BY <1>1, LimitsAreNat DEF Init, TypeOK, LoopInv, Waiting

LEMMA NextTypeOK == TypeOK /\ LoopInv /\ [Next]_vars => TypeOK' /\ LoopInv'
  <1> SUFFICES ASSUME TypeOK, LoopInv, [Next]_vars PROVE TypeOK' /\ LoopInv'
    OBVIOUS
  <1> USE LimitsAreNat DEF TypeOK, LoopInv, Waiting
  <1>1. ASSUME NEW c \in Calls, Begin(c) PROVE TypeOK' /\ LoopInv'
    <2>1. UtcDay(now) \in Days
      BY UtcDayInDays
    <2> QED
      BY <1>1, <2>1 DEF Begin
  <1>2. ASSUME NEW c \in Calls, Count(c) PROVE TypeOK' /\ LoopInv'
    BY <1>2 DEF Count
  <1>3. ASSUME NEW c \in Calls, CountFails(c) PROVE TypeOK' /\ LoopInv'
    BY <1>3 DEF CountFails, End
  <1>4. ASSUME NEW c \in Calls, Refuse(c) PROVE TypeOK' /\ LoopInv'
    BY <1>4 DEF Refuse, End
  <1>5. ASSUME NEW c \in Calls, FailFast(c) PROVE TypeOK' /\ LoopInv'
    BY <1>5 DEF FailFast, End
  <1>6. ASSUME NEW c \in Calls, EnterLoop(c) PROVE TypeOK' /\ LoopInv'
    BY <1>6 DEF EnterLoop
  <1>7. ASSUME NEW c \in Calls, Send(c) PROVE TypeOK' /\ LoopInv'
    <2>1. UtcDay(now) \in Days
      BY UtcDayInDays
    <2>2. [call |-> c, attempt |-> attempt[c], on |-> UtcDay(now)] \in Requests
      BY <1>7, <2>1 DEF Send, Requests
    <2> QED
      BY <1>7, <2>2 DEF Send
  <1>8. ASSUME NEW c \in Calls, Settle(c) PROVE TypeOK' /\ LoopInv'
    BY <1>8 DEF Settle, End
  <1>9. ASSUME NEW c \in Calls, DailyQuotaSpent(c) PROVE TypeOK' /\ LoopInv'
    <2>1. NextQuotaReset(now) \in Nat /\ PacificDate(now) \in Dates
      BY NextQuotaResetLater, HasDate
    <2> QED
      BY <1>9, <2>1 DEF DailyQuotaSpent, End
  <1>10. ASSUME NEW c \in Calls, RetryLater(c) PROVE TypeOK' /\ LoopInv'
    BY <1>10 DEF RetryLater
  <1>11. ASSUME NEW c \in Calls, GiveUp(c) PROVE TypeOK' /\ LoopInv'
    BY <1>11 DEF GiveUp, End
  <1>12. ASSUME NEW c \in Calls, Resume(c) PROVE TypeOK' /\ LoopInv'
    BY <1>12 DEF Resume
  <1>13. ASSUME Tick PROVE TypeOK' /\ LoopInv'
    BY <1>13, ClockShape DEF Tick
  <1>14. ASSUME Restart PROVE TypeOK' /\ LoopInv'
    <2>1. usage' \in [Days -> Nat]
      BY <1>14 DEF Restart
    <2>2. crashes' \in 0 .. MaxCrashes /\ born' \in [Calls -> 0 .. crashes']
      BY <1>14, ClockShape DEF Restart
    <2> QED
      BY <1>14, <2>1, <2>2 DEF Restart
  <1>15. ASSUME UNCHANGED vars PROVE TypeOK' /\ LoopInv'
    BY <1>15 DEF vars
  <1> QED
    BY <1>1, <1>2, <1>3, <1>4, <1>5, <1>6, <1>7, <1>8, <1>9, <1>10, <1>11,
       <1>12, <1>13, <1>14, <1>15 DEF Next, CallStep

(* The gateway's variables keep their types.                               *)
THEOREM GatewayTypeOK == Spec => []TypeOK
  <1>1. Spec => [](TypeOK /\ LoopInv)
    BY InitTypeOK, NextTypeOK, PTL DEF Spec
  <1> QED
    BY <1>1, PTL

-----------------------------------------------------------------------------
(* The ledger: what the counter has shown each call, and which calls got   *)
(* past the limit.  A restart begins a new one unless the counter is       *)
(* durable.                                                                *)
IInv == TypeOK /\ LoopInv /\ LedgerInv

LEMMA InitLedger == Init => LedgerInv
  <1>1. 0 \in Days
    BY ClockShape DEF Days
  <1> QED
    BY <1>1, LimitsAreNat DEF Init, LedgerInv

LEMMA NextLedger == IInv /\ [Next]_vars => LedgerInv'
  <1> SUFFICES ASSUME IInv, [Next]_vars PROVE LedgerInv'
    OBVIOUS
  <1> USE LimitsAreNat DEF IInv, TypeOK, LoopInv, LedgerInv, Requests
  <1>1. ASSUME NEW c \in Calls, Begin(c) PROVE LedgerInv'
    <2>1. UtcDay(now) \in Days
      BY UtcDayInDays
    <2>2. /\ ticket[c] = 0
          /\ \A x \in Calls : x # c => day'[x] = day[x] /\ born'[x] = born[x]
      BY <1>1 DEF Begin
    <2>3. \A x \in Calls : durable' \/ born'[x] = crashes' => ticket'[x] <= usage'[day'[x]]
      BY <1>1, <2>1, <2>2 DEF Begin
    <2>4. \A x, e \in Calls :
             x # e /\ SameCounter(x, e)' /\ ticket'[x] # 0 => ticket'[x] # ticket'[e]
      BY <1>1, <2>2 DEF Begin, SameCounter
    <2>5. \A x \in Calls : pc'[x] \in Waiting => born'[x] = crashes'
      BY <1>1, <2>2 DEF Begin, Waiting
    <2> QED
      BY <1>1, <2>3, <2>4, <2>5 DEF Begin
  <1>2. ASSUME NEW c \in Calls, Count(c) PROVE LedgerInv'
    <2>1. /\ ticket[c] = 0 /\ ticket'[c] = usage[day[c]] + 1
          /\ \A x \in Calls : x # c => ticket'[x] = ticket[x]
          /\ \A x \in Calls : usage'[day[x]] >= usage[day[x]]
          /\ usage'[day[c]] = usage[day[c]] + 1
          /\ \A x \in Calls : day[x] \in Days
          /\ \A x \in Calls : usage[day[x]] \in Nat /\ usage'[day[x]] \in Nat
      BY <1>2 DEF Count
    <2>2. attempt[c] = 0 /\ born[c] = crashes
      BY <1>2 DEF Count, Waiting
    <2>3. \A x \in Calls : durable \/ born[x] = crashes => ticket'[x] <= usage'[day[x]]
      BY <2>1
    <2>4. \A x, e \in Calls :
             x # e /\ SameCounter(x, e) /\ ticket'[x] # 0 => ticket'[x] # ticket'[e]
      BY <2>1, <2>2 DEF SameCounter
    <2>5. \A x \in Calls : attempt[x] # 0 => ticket'[x] # 0 /\ ticket'[x] <= DailyLimit
      BY <2>1, <2>2
    <2>6. \A x \in Calls : pc'[x] \in Waiting => born[x] = crashes
      BY <1>2, <2>2 DEF Count, Waiting
    <2> QED
      BY <1>2, <2>1, <2>3, <2>4, <2>5, <2>6 DEF Count, SameCounter
  <1>3. ASSUME NEW c \in Calls, CountFails(c) PROVE LedgerInv'
    <2>1. \A x \in Calls : usage'[day[x]] >= usage[day[x]] /\ usage'[day[x]] \in Nat
      BY <1>3 DEF CountFails
    <2>2. \A x \in Calls : durable \/ born[x] = crashes => ticket[x] <= usage'[day[x]]
      BY <2>1
    <2> QED
      BY <1>3, <2>2 DEF CountFails, End, Waiting, SameCounter
  <1>4. ASSUME NEW c \in Calls, Refuse(c) PROVE LedgerInv'
    BY <1>4 DEF Refuse, End, Waiting, SameCounter
  <1>5. ASSUME NEW c \in Calls, FailFast(c) PROVE LedgerInv'
    BY <1>5 DEF FailFast, End, Waiting, SameCounter
  <1>6. ASSUME NEW c \in Calls, EnterLoop(c) PROVE LedgerInv'
    <2>1. ticket[c] # 0 /\ ticket[c] <= DailyLimit
      BY <1>6 DEF EnterLoop
    <2>2. \A r \in sent : r.call # c
      BY <1>6 DEF EnterLoop
    <2> QED
      BY <1>6, <2>1, <2>2 DEF EnterLoop, Waiting, SameCounter
  <1>7. ASSUME NEW c \in Calls, Send(c) PROVE LedgerInv'
    BY <1>7 DEF Send, Waiting, SameCounter
  <1>8. ASSUME NEW c \in Calls, Settle(c) PROVE LedgerInv'
    BY <1>8 DEF Settle, End, Waiting, SameCounter
  <1>9. ASSUME NEW c \in Calls, DailyQuotaSpent(c) PROVE LedgerInv'
    BY <1>9 DEF DailyQuotaSpent, End, Waiting, SameCounter
  <1>10. ASSUME NEW c \in Calls, RetryLater(c) PROVE LedgerInv'
    BY <1>10 DEF RetryLater, Waiting, SameCounter
  <1>11. ASSUME NEW c \in Calls, GiveUp(c) PROVE LedgerInv'
    BY <1>11 DEF GiveUp, End, Waiting, SameCounter
  <1>12. ASSUME NEW c \in Calls, Resume(c) PROVE LedgerInv'
    BY <1>12 DEF Resume, Waiting, SameCounter
  <1>13. ASSUME Tick PROVE LedgerInv'
    BY <1>13 DEF Tick, Waiting, SameCounter
  <1>14. ASSUME Restart PROVE LedgerInv'
    BY <1>14 DEF Restart, Waiting, SameCounter
  <1>15. ASSUME UNCHANGED vars PROVE LedgerInv'
    BY <1>15 DEF vars, SameCounter
  <1> QED
    BY <1>1, <1>2, <1>3, <1>4, <1>5, <1>6, <1>7, <1>8, <1>9, <1>10, <1>11,
       <1>12, <1>13, <1>14, <1>15 DEF Next, CallStep

LEMMA LedgerInvariant == Spec => []IInv
  <1>1. Init => IInv
    BY InitTypeOK, InitLedger DEF IInv
  <1>2. IInv /\ [Next]_vars => IInv'
    BY NextTypeOK, NextLedger DEF IInv
  <1> QED
    BY <1>1, <1>2, PTL DEF Spec

-----------------------------------------------------------------------------
(* Counting.  A set whose members take distinct values in 1 .. n has at    *)
(* most n of them.                                                         *)
LEMMA DistinctTickets ==
  ASSUME NEW S, NEW n \in Nat, NEW f \in [S -> 1 .. n],
         \A x, y \in S : x # y => f[x] # f[y]
  PROVE  IsFiniteSet(S) /\ Cardinality(S) <= n
  <1>1. f \in Injection(S, 1 .. n)
    BY DEF Injection, IsInjective
  <1>2. IsFiniteSet(1 .. n) /\ Cardinality(1 .. n) = n
    BY FS_Interval
  <1> QED
    BY <1>1, <1>2, FS_Injection

(* The counters of a day are as many as the restarts make them.            *)
LEMMA CountersNat == ASSUME TypeOK PROVE Counters \in Nat /\ Counters >= 1
  BY ClockShape DEF TypeOK, Counters

(* A call admitted is told apart from the others of its day by the counter *)
(* that gave it its ticket and the ticket.                                 *)
LEMMA AdmittedBounded ==
  ASSUME IInv, NEW d \in Days
  PROVE  /\ IsFiniteSet(Admitted(d))
         /\ Cardinality(Admitted(d)) <= DailyLimit * Counters
  <1> DEFINE S == Admitted(d)
             counter(c) == IF durable THEN 0 ELSE born[c]
             f == [c \in S |-> <<ticket[c], counter(c)>>]
             A == 1 .. DailyLimit
             B == 0 .. (Counters - 1)
             T == A \X B
  <1>1. DailyLimit \in Nat /\ Counters \in Nat /\ Counters >= 1
    BY LimitsAreNat, CountersNat DEF IInv
  <1>2. \A c \in S : /\ c \in Calls /\ day[c] = d
                     /\ ticket[c] \in 1 .. DailyLimit
    BY LimitsAreNat DEF Admitted, IInv, TypeOK, LedgerInv, Requests
  <1>3. \A c \in S : counter(c) \in 0 .. (Counters - 1)
    BY <1>2, ClockShape DEF IInv, TypeOK, Counters
  <1>4. \A x, y \in S : x # y => f[x] # f[y]
    <2> SUFFICES ASSUME NEW x \in S, NEW y \in S, f[x] = f[y], x # y PROVE FALSE
      OBVIOUS
    <2>1. ticket[x] = ticket[y] /\ counter(x) = counter(y)
      OBVIOUS
    <2>2. SameCounter(x, y) /\ ticket[x] # 0
      BY <1>2, <2>1 DEF SameCounter
    <2> HIDE DEF S, f, counter
    <2> QED
      BY <1>2, <2>1, <2>2 DEF IInv, LedgerInv
  <1>5. f \in [S -> T]
    BY <1>2, <1>3
  <1>6. IsFiniteSet(T) /\ Cardinality(T) = DailyLimit * Counters
    <2>1. IsFiniteSet(A) /\ Cardinality(A) = DailyLimit
      BY <1>1, FS_Interval
    <2>2. IsFiniteSet(B) /\ Cardinality(B) = Counters
      BY <1>1, FS_Interval
    <2> HIDE DEF A, B
    <2>3. IsFiniteSet(T) /\ Cardinality(T) = Cardinality(A) * Cardinality(B)
      BY <2>1, <2>2, FS_Product
    <2> QED
      BY <2>1, <2>2, <2>3
  <1>7. f \in Injection(S, T)
    <2> HIDE DEF f, S, T
    <2> QED
      BY <1>4, <1>5 DEF Injection, IsInjective
  <1> QED
    <2>1. IsFiniteSet(S) /\ Cardinality(S) <= Cardinality(T)
      <3> HIDE DEF f, S, T
      <3> QED
        BY <1>6, <1>7, FS_Injection
    <2> QED
      BY <1>6, <2>1

LEMMA CurrentCounted ==
  ASSUME IInv, NEW d \in Days
  PROVE  Cardinality({c \in Admitted(d) : durable \/ born[c] = crashes}) <= usage[d]
  <1> DEFINE S == {c \in Admitted(d) : durable \/ born[c] = crashes}
             f == [c \in S |-> ticket[c]]
  <1>1. \A c \in S : /\ c \in Calls /\ day[c] = d
                     /\ ticket[c] # 0 /\ ticket[c] \in 1 .. usage[d]
    BY LimitsAreNat DEF Admitted, IInv, TypeOK, LedgerInv, Requests
  <1>2. \A x, y \in S : x # y => f[x] # f[y]
    <2> SUFFICES ASSUME NEW x \in S, NEW y \in S, x # y PROVE ticket[x] # ticket[y]
      OBVIOUS
    <2>1. SameCounter(x, y)
      BY <1>1 DEF SameCounter
    <2> HIDE DEF S, f
    <2> QED
      BY <1>1, <2>1 DEF IInv, LedgerInv
  <1>3. f \in [S -> 1 .. usage[d]] /\ usage[d] \in Nat
    BY <1>1 DEF IInv, TypeOK
  <1> HIDE DEF S, f
  <1>4. Cardinality(S) <= usage[d]
    BY <1>2, <1>3, DistinctTickets
  <1> QED
    BY <1>4 DEF S

(* Every counter admits at most the limit of calls a day, over any number  *)
(* of concurrent calls, retries and restarts; with the database there is   *)
(* one counter, and without it one per life of the process.                *)
THEOREM BudgetHolds == Spec => []AdmittedWithinLimit
  <1>1. IInv => AdmittedWithinLimit
    BY AdmittedBounded DEF AdmittedWithinLimit
  <1> QED
    BY <1>1, LedgerInvariant, PTL

(* The budget fails closed: the counter never shows fewer calls of a day   *)
(* than have reached the provider in its time.                             *)
THEOREM BudgetFailsClosed == Spec => []NeverSpentUncounted
  <1>1. IInv => NeverSpentUncounted
    BY CurrentCounted DEF NeverSpentUncounted
  <1> QED
    BY <1>1, LedgerInvariant, PTL

(* A call makes its requests one per attempt, so the requests of a day are *)
(* no more than the pairs of an admitted call and an attempt.              *)
LEMMA RequestsBounded ==
  ASSUME IInv, NEW d \in Days
  PROVE  Cardinality(RequestsCharged(d)) <= (DailyLimit * Counters) * MaxAttempts
  <1> DEFINE L == DailyLimit * Counters
             R == RequestsCharged(d)
             A == Admitted(d)
             P == A \X (1 .. MaxAttempts)
             f == [r \in R |-> <<r.call, r.attempt>>]
  <1>1. /\ IsFiniteSet(A)
        /\ Cardinality(A) \in Nat
        /\ Cardinality(A) <= L
        /\ L \in Nat
    BY AdmittedBounded, FS_CardinalityType, CountersNat, LimitsAreNat DEF IInv
  <1>2. IsFiniteSet(1 .. MaxAttempts) /\ Cardinality(1 .. MaxAttempts) = MaxAttempts
    BY FS_Interval, LimitsAreNat
  <1>3. IsFiniteSet(P) /\ Cardinality(P) = Cardinality(A) * MaxAttempts
    <2> HIDE DEF A
    <2> QED
      BY <1>1, <1>2, FS_Product
  <1>4. \A r \in R : r \in sent /\ r.call \in A /\ r.attempt \in 1 .. MaxAttempts
    BY DEF RequestsCharged, Admitted, IInv, TypeOK, Requests
  <1>5. \A r, q \in R : f[r] = f[q] => r = q
    BY <1>4 DEF IInv, LedgerInv
  <1>6. f \in Injection(R, P)
    <2>1. f \in [R -> P]
      BY <1>4
    <2> HIDE DEF f, R, P
    <2> QED
      BY <2>1, <1>5 DEF Injection, IsInjective
  <1>7. Cardinality(R) <= Cardinality(P)
    <2> HIDE DEF f, R, P
    <2> QED
      BY <1>3, <1>6, FS_Injection
  <1>8. IsFiniteSet(R) /\ Cardinality(R) \in Nat
    <2> HIDE DEF f, R, P
    <2> QED
      BY <1>3, <1>6, FS_Injection, FS_CardinalityType
  <1>9. ASSUME NEW a \in Nat, NEW b \in Nat, a <= b
        PROVE  a * MaxAttempts <= b * MaxAttempts
    BY <1>9, LimitsAreNat
  <1>10. Cardinality(A) * MaxAttempts <= L * MaxAttempts
    <2> HIDE DEF A, L
    <2> QED
      BY <1>1, <1>9, LimitsAreNat
  <1> HIDE DEF R, A, P, L
  <1>11. Cardinality(R) <= L * MaxAttempts
    BY <1>1, <1>3, <1>7, <1>8, <1>10, LimitsAreNat
  <1> QED
    BY <1>11 DEF R, L

(* The requests charged to a day never exceed limit * max_attempts for     *)
(* each counter: what the budget bounds, which is not the limit itself.    *)
THEOREM RequestsHold == Spec => []RequestsWithinBudget
  <1>1. IInv => RequestsWithinBudget
    BY RequestsBounded DEF RequestsWithinBudget
  <1> QED
    BY <1>1, LedgerInvariant, PTL

-----------------------------------------------------------------------------
(* The block and the calendar.  While it lasts it ends at the end of the   *)
(* present date, and no date that is still to come is known to be spent:   *)
(* so a tick that does not end the date leaves both sides alone, and one   *)
(* that does ends the block and begins a date of which nothing is known.   *)
BlockInv ==
    /\ BlockedOnSpentDays
    /\ Blocked => blockedUntil = Midnights[PacificDate(now) + 1]
    /\ \A d \in spent : d <= PacificDate(now)

LEMMA InitBlock == Init => BlockInv
  BY DEF Init, BlockInv, BlockedOnSpentDays, Blocked

LEMMA NextBlock == TypeOK /\ BlockInv /\ [Next]_vars => BlockInv'
  <1> SUFFICES ASSUME TypeOK, BlockInv, [Next]_vars PROVE BlockInv'
    OBVIOUS
  <1> USE DEF TypeOK, BlockInv, BlockedOnSpentDays, Blocked
  <1>0. now \in Start .. Horizon /\ now \in Nat /\ PacificDate(now) \in Nat
    BY HasDate, MidnightsInOrder, ClockShape
  <1>1. ASSUME NEW c \in Calls, EnterLoop(c) PROVE BlockInv'
    BY <1>1 DEF EnterLoop
  <1>2. ASSUME NEW c \in Calls, DailyQuotaSpent(c) PROVE BlockInv'
    <2>1. blockedUntil' = NextQuotaReset(now) /\ now' = now
          /\ spent' = spent \cup {PacificDate(now)}
      BY <1>2 DEF DailyQuotaSpent
    <2>2. NextQuotaReset(now) \in Nat /\ NextQuotaReset(now) > now
      BY <1>0, NextQuotaResetLater
    <2> QED
      BY <1>0, <2>1, <2>2 DEF NextQuotaReset
  <1>3. ASSUME Tick PROVE BlockInv'
    <2> DEFINE d == PacificDate(now)
               e == PacificDate(now + 1)
               m == Midnights[d + 1]
    <2>1. now < Horizon /\ now' = now + 1 /\ UNCHANGED <<blockedUntil, spent>>
      BY <1>3 DEF Tick
    <2>2. (e = d /\ now + 1 < m) \/ (e = d + 1 /\ now + 1 = m)
      BY <1>0, <2>1, DateAfterTick
    <2>3. d \in Nat /\ m \in Nat /\ now \in Nat /\ blockedUntil \in Nat
          /\ spent \subseteq Nat
      BY <1>0, HasDate, MidnightsInOrder DEF Dates
    <2>4. /\ (blockedUntil # 0 /\ now < blockedUntil) <=> d \in spent
          /\ (blockedUntil # 0 /\ now < blockedUntil) => blockedUntil = m
          /\ \A x \in spent : x <= d
      OBVIOUS
    <2>5. PacificDate(now)' = e
      BY <2>1
    <2> HIDE DEF d, e, m
    <2>6. CASE e = d /\ now + 1 < m
      <3>1. (blockedUntil # 0 /\ now + 1 < blockedUntil) <=> d \in spent
        BY <2>3, <2>4, <2>6
      <3> QED
        BY <2>1, <2>3, <2>4, <2>5, <2>6, <3>1 DEF d, m
    <2>7. CASE e = d + 1 /\ now + 1 = m
      <3>1. ~(blockedUntil # 0 /\ now + 1 < blockedUntil)
        BY <2>3, <2>4, <2>7
      <3>2. e \notin spent /\ \A x \in spent : x <= e
        BY <2>3, <2>4, <2>7
      <3> QED
        BY <2>1, <2>5, <3>1, <3>2
    <2> QED
      BY <2>2, <2>6, <2>7
  <1>4. ASSUME Restart PROVE BlockInv'
    BY <1>4 DEF Restart
  <1>5. ASSUME UNCHANGED <<now, blockedUntil, spent>> PROVE BlockInv'
    BY <1>5
  <1> QED
    BY <1>1, <1>2, <1>3, <1>4, <1>5 DEF Next, CallStep, vars, Begin, Count, CountFails,
       Refuse, FailFast, Send, Settle, RetryLater, GiveUp, Resume

LEMMA BlockInvariant == Spec => [](TypeOK /\ LoopInv /\ BlockInv)
  <1>1. Init => TypeOK /\ LoopInv /\ BlockInv
    BY InitTypeOK, InitBlock
  <1>2. (TypeOK /\ LoopInv /\ BlockInv) /\ [Next]_vars => (TypeOK /\ LoopInv /\ BlockInv)'
    BY NextTypeOK, NextBlock
  <1> QED
    BY <1>1, <1>2, PTL DEF Spec

(* The adapter is blocked on exactly the Pacific dates on which it was     *)
(* told that the quota is spent, whatever the length of the dates and      *)
(* however calls, late answers, midnights and restarts interleave.         *)
THEOREM BlockFollowsTheQuota == Spec => []BlockedOnSpentDays
  <1>1. BlockInv => BlockedOnSpentDays
    BY DEF BlockInv
  <1> QED
    BY <1>1, BlockInvariant, PTL

(* While the block lasts, a call outside the loop when it was set has *)
(* not entered the loop: the only way in looks at the block first.         *)
BarInv == Blocked => \A c \in barred : attempt[c] = 0

LEMMA NextBar == TypeOK /\ LoopInv /\ BarInv /\ [Next]_vars => BarInv'
  <1> SUFFICES ASSUME TypeOK, LoopInv, BarInv, [Next]_vars PROVE BarInv'
    OBVIOUS
  <1> USE DEF TypeOK, LoopInv, BarInv, Blocked
  <1>1. ASSUME NEW c \in Calls, EnterLoop(c) PROVE BarInv'
    BY <1>1 DEF EnterLoop
  <1>2. ASSUME NEW c \in Calls, DailyQuotaSpent(c) PROVE BarInv'
    BY <1>2 DEF DailyQuotaSpent
  <1>3. ASSUME NEW c \in Calls, Resume(c) PROVE BarInv'
    BY <1>3 DEF Resume
  <1>4. ASSUME NEW c \in Calls,
               \/ Begin(c) \/ Count(c) \/ CountFails(c) \/ Refuse(c) \/ FailFast(c)
               \/ Send(c) \/ Settle(c) \/ RetryLater(c) \/ GiveUp(c)
        PROVE  BarInv'
    BY <1>4 DEF Begin, Count, CountFails, Refuse, FailFast, Send, Settle,
                RetryLater, GiveUp
  <1>5. ASSUME Tick PROVE BarInv'
    BY <1>5 DEF Tick
  <1>6. ASSUME Restart PROVE BarInv'
    BY <1>6 DEF Restart
  <1>7. ASSUME UNCHANGED vars PROVE BarInv'
    BY <1>7 DEF vars
  <1> QED
    BY <1>1, <1>2, <1>3, <1>4, <1>5, <1>6, <1>7 DEF Next, CallStep

(* No call outside its retry loop when the provider reported the daily     *)
(* quota spent sends a request while the block lasts.                      *)
THEOREM BlockBarsNewCalls == Spec => NewCallsBarred
  <1> DEFINE I == TypeOK /\ LoopInv /\ BlockInv /\ BarInv
             A == \A r \in sent' \ sent :
                     PacificDate(now) \in spent => r.call \notin barred
  <1>1. Init => I
    BY InitTypeOK, InitBlock DEF Init, BarInv
  <1>2. I /\ [Next]_vars => I'
    BY NextTypeOK, NextBlock, NextBar
  <1>3. I /\ [Next]_vars => [A]_vars
    <2> SUFFICES ASSUME I, [Next]_vars, NEW r \in sent' \ sent, PacificDate(now) \in spent
                 PROVE  r.call \notin barred
      OBVIOUS
    <2>1. PICK c \in Calls : Send(c)
      BY DEF Next, CallStep, vars, Begin, Count, CountFails, Refuse, FailFast, EnterLoop,
             Settle, DailyQuotaSpent, RetryLater, GiveUp, Resume, Tick, Restart
    <2>2. r.call = c /\ attempt[c] # 0
      BY <2>1 DEF Send, LoopInv
    <2> QED
      BY <2>2 DEF BarInv, BlockInv, BlockedOnSpentDays
  <1> QED
    BY <1>1, <1>2, <1>3, PTL DEF Spec, NewCallsBarred

=============================================================================
