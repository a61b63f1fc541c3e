------------------------ MODULE ClientLimitsProofs --------------------------
(***************************************************************************)
(* Proofs about ClientLimits, for every set of clients, every limit and    *)
(* window, and a table swept as often as it may be.                        *)
(***************************************************************************)
EXTENDS ClientLimits, Foundations, SequenceTheorems, TLAPS

Times == 0 .. Horizon

IInv == TypeOK /\ LogInv /\ AtMostMaxPerWindow

(* What popleft leaves of a client's deque: the end of its log that is in  *)
(* the window.                                                             *)
LEMMA RecentIsTheWindow ==
  ASSUME NEW log \in Seq(Times), NEW tracked, NEW c,
         Hits(tracked, c) \in Seq(Times), LogOf(log, Hits(tracked, c)),
         now \in Times
  PROVE  /\ Recent(tracked, c) \in Seq(Times)
         /\ Len(Recent(tracked, c)) <= Len(Hits(tracked, c))
         /\ LogOf(log, Recent(tracked, c))
         /\ \A i \in 1 .. Len(Recent(tracked, c)) : InWindow(Recent(tracked, c)[i])
  <1> DEFINE h == Hits(tracked, c)
             n == Len(h)
             stays == {i \in 1 .. n + 1 : i <= n => InWindow(h[i])}
             oldest == CHOOSE i \in stays : \A j \in stays : i <= j
             r == SubSeq(h, oldest, n)
             A == Len(log)
  <1>0. Recent(tracked, c) = r
    BY DEF Recent
  <1>1. /\ n \in Nat /\ A \in Nat /\ n <= A
        /\ Horizon \in Nat /\ Window \in Nat /\ now \in Nat
        /\ \A i \in 1 .. n : h[i] \in Times /\ h[i] = log[A - n + i]
        /\ \A i \in 1 .. A : log[i] \in Nat /\ log[i] <= now
        /\ \A i, j \in 1 .. A : i <= j => log[i] <= log[j]
        /\ \A i \in 1 .. A - n : ~InWindow(log[i])
    BY PositiveLimits DEF LogOf, Times
  <1>2. \A i, j \in 1 .. n : i <= j => h[i] \in Nat /\ h[j] \in Nat /\ h[i] <= h[j]
    <2> TAKE i, j \in 1 .. n
    <2> HAVE i <= j
    <2> HIDE DEF h, n, A
    <2>1. A - n + i \in 1 .. A /\ A - n + j \in 1 .. A /\ A - n + i <= A - n + j
      BY <1>1
    <2> QED
      BY <1>1, <2>1
  <1>3. \E i \in stays : \A j \in stays : i <= j
    <2>1. n + 1 \in Nat /\ stays \in SUBSET (1 .. n + 1) /\ n + 1 \in stays
      BY <1>1
    <2>2. ASSUME NEW i \in stays, NEW j \in i .. (n + 1) PROVE j \in stays
      BY <2>2, <1>1, <1>2 DEF InWindow
    <2> HIDE DEF stays
    <2> QED
      BY <2>1, <2>2, LeastOfUpperSet
  <1>4. oldest \in stays /\ \A j \in stays : oldest <= j
    <2> HIDE DEF stays
    <2> QED
      BY <1>3
  <1>5. oldest \in 1 .. n + 1 /\ (oldest <= n => InWindow(h[oldest]))
    <2> HIDE DEF oldest
    <2> QED
      BY <1>4
  <1>6. \A i \in 1 .. oldest - 1 : i \in 1 .. n /\ ~InWindow(h[i])
    <2> HIDE DEF oldest
    <2> TAKE i \in 1 .. oldest - 1
    <2>1. i \in 1 .. n /\ i \in 1 .. n + 1 /\ ~(oldest <= i)
      BY <1>5, <1>1
    <2> QED
      BY <2>1, <1>4
  <1>7. oldest \in Int /\ oldest <= n + 1 /\ oldest >= 1
    <2> HIDE DEF oldest
    <2> QED
      BY <1>5, <1>1
  <1> HIDE DEF oldest
  <1>8. /\ r \in Seq(Times)
        /\ Len(r) = n - oldest + 1
        /\ \A i \in 1 .. n - oldest + 1 : r[i] = h[oldest + i - 1]
    <2>1. \A i \in oldest .. n : h[i] \in Times
      BY <1>1, <1>7
    <2> HIDE DEF h, n
    <2>2. n \in Int
      BY <1>1
    <2>3. /\ SubSeq(h, oldest, n) \in Seq(Times)
          /\ Len(SubSeq(h, oldest, n)) = IF oldest <= n THEN n - oldest + 1 ELSE 0
          /\ \A i \in 1 .. n - oldest + 1 : SubSeq(h, oldest, n)[i] = h[oldest + i - 1]
      BY <1>7, <2>1, <2>2, SubSeqProperties
    <2> QED
      BY <2>2, <2>3, <1>7
  <1> HIDE DEF r
  <1>9. \A i \in 1 .. n - oldest + 1 : InWindow(r[i])
    <2> TAKE i \in 1 .. n - oldest + 1
    <2> HIDE DEF h, n, A
    <2>1. oldest <= n /\ oldest \in 1 .. n /\ oldest + i - 1 \in 1 .. n /\ oldest <= oldest + i - 1
      BY <1>7, <1>1
    <2>2. InWindow(h[oldest])
      BY <2>1, <1>5
    <2>3. h[oldest] \in Nat /\ h[oldest + i - 1] \in Nat /\ h[oldest] <= h[oldest + i - 1]
      BY <2>1, <1>2
    <2> QED
      BY <2>2, <2>3, <1>1, <1>8 DEF InWindow
  <1>10. LogOf(log, r)
    <2>1. DOMAIN log = 1 .. A /\ DOMAIN r = 1 .. Len(r)
      BY <1>8
    <2>2. A - Len(r) = A - n + oldest - 1
      <3> HIDE DEF n, A
      <3> QED
        BY <1>1, <1>7, <1>8
    <2>3. Len(r) <= A
      <3> HIDE DEF n, A
      <3> QED
        BY <1>1, <1>7, <1>8
    <2>4. ASSUME NEW i \in 1 .. Len(r) PROVE r[i] = log[A - Len(r) + i]
      <3> HIDE DEF h, n, A
      <3>1. oldest + i - 1 \in 1 .. n /\ A - n + (oldest + i - 1) = A - Len(r) + i
        BY <1>1, <1>7, <1>8
      <3> QED
        BY <3>1, <1>1, <1>8
    <2>5. ASSUME NEW i \in 1 .. A - Len(r) PROVE ~InWindow(log[i])
      <3> HIDE DEF h, n, A
      <3>1. CASE i <= A - n
        BY <3>1, <1>1
      <3>2. CASE i > A - n
        <4>1. i - (A - n) \in 1 .. oldest - 1 /\ A - n + (i - (A - n)) = i
          BY <3>2, <2>2, <1>1, <1>7
        <4>2. i - (A - n) \in 1 .. n /\ ~InWindow(h[i - (A - n)])
          BY <4>1, <1>6
        <4> QED
          BY <4>1, <4>2, <1>1
      <3> QED
        BY <3>1, <3>2, <1>1
    <2> QED
      BY <2>1, <2>3, <2>4, <2>5, <1>1 DEF LogOf
  <1> QED
    <2> Len(r) <= n
      <3> HIDE DEF n
      <3> QED
        BY <1>1, <1>7, <1>8
    <2> QED
      BY <1>0, <1>8, <1>9, <1>10

(* A client the sweep forgets has no request in the window, so its empty   *)
(* deque is still the end of its log that is in the window.                *)
LEMMA SweptIsTheWindow ==
  ASSUME IInv, NEW c \in Clients
  PROVE  /\ DOMAIN Swept(hits) \subseteq DOMAIN hits
         /\ Hits(Swept(hits), c) \in Seq(Times)
         /\ Len(Hits(Swept(hits), c)) <= MaxRequests
         /\ LogOf(accepted[c], Hits(Swept(hits), c))
  <1> DEFINE log == accepted[c]
             h == Hits(hits, c)
             A == Len(log)
  <1>0. DOMAIN Swept(hits) \subseteq DOMAIN hits
    BY DEF Swept
  <1>1. /\ log \in Seq(Times)
        /\ h \in Seq(Times) /\ Len(h) <= MaxRequests
        /\ LogOf(log, h)
        /\ now \in Nat /\ Window \in Nat /\ A \in Nat
    <2>1. log \in Seq(Times) /\ now \in Nat /\ Window \in Nat
      BY PositiveLimits DEF IInv, TypeOK, Times
    <2>2. LogOf(log, h)
      BY DEF IInv, LogInv
    <2>3. CASE c \in DOMAIN hits
      <3>1. h = hits[c]
        BY <2>3 DEF Hits
      <3>2. hits[c] \in Seq(Times) /\ Len(hits[c]) <= MaxRequests
        BY <2>3 DEF IInv, TypeOK, Times
      <3> QED
        BY <2>1, <2>2, <3>1, <3>2, LenProperties
    <2>4. CASE c \notin DOMAIN hits
      <3>1. h = << >>
        BY <2>4 DEF Hits
      <3>2. << >> \in Seq(Times) /\ Len(<< >>) = 0
        OBVIOUS
      <3> QED
        BY <2>1, <2>2, <3>1, <3>2, LenProperties, PositiveLimits
    <2> QED
      BY <2>3, <2>4
  <1>2. CASE Hits(Swept(hits), c) = h
    BY <1>0, <1>1, <1>2
  <1>3. CASE Hits(Swept(hits), c) # h
    <2>1. c \in DOMAIN hits /\ ~Busy(hits[c]) /\ h = hits[c] /\ Hits(Swept(hits), c) = << >>
      BY <1>3 DEF Swept, Hits
    <2>2. CASE h = << >>
      BY <2>1, <2>2, <1>3
    <2>3. CASE h # << >>
      <3>1. Len(h) \in Nat \ {0}
        BY <2>3, <1>1, EmptySeq
      <3>2. ~InWindow(h[Len(h)])
        BY <2>1, <2>3 DEF Busy
      <3>3. h[Len(h)] = log[A] /\ A >= 1 /\ A >= Len(h)
        BY <3>1, <1>1 DEF LogOf
      <3>4. \A i \in 1 .. A : log[i] \in Nat /\ log[i] <= log[A]
        <4>1. DOMAIN log = 1 .. A
          BY <1>1
        <4>2. \A i \in 1 .. A : log[i] \in Nat
          BY <1>1, PositiveLimits DEF Times
        <4>3. \A i, j \in DOMAIN log : i <= j => log[i] <= log[j]
          BY <1>1 DEF LogOf
        <4> QED
          BY <4>1, <4>2, <4>3, <3>3, <1>1
      <3>5. \A i \in 1 .. A : ~InWindow(log[i])
        BY <3>2, <3>3, <3>4, <1>1 DEF InWindow
      <3>6. LogOf(log, << >>)
        BY <3>5, <1>1 DEF LogOf
      <3> QED
        BY <3>6, <2>1, <1>0, PositiveLimits, EmptySeq
    <2> QED
      BY <2>2, <2>3
  <1> QED
    BY <1>2, <1>3

(* What check() sees of a client, in a state the invariant describes.      *)
LEMMA SeenByCheck ==
  ASSUME IInv, NEW c \in Clients, NEW r, r = Recent(Swept(hits), c)
  PROVE  /\ accepted[c] \in Seq(Times)
         /\ r \in Seq(Times) /\ Len(r) <= MaxRequests
         /\ LogOf(accepted[c], r)
         /\ \A i \in 1 .. Len(r) : InWindow(r[i])
  <1>1. accepted[c] \in Seq(Times) /\ now \in Times
    BY DEF IInv, TypeOK, Times
  <1>2. /\ Hits(Swept(hits), c) \in Seq(Times)
        /\ Len(Hits(Swept(hits), c)) <= MaxRequests
        /\ LogOf(accepted[c], Hits(Swept(hits), c))
    BY SweptIsTheWindow
  <1>3. /\ r \in Seq(Times)
        /\ Len(r) <= Len(Hits(Swept(hits), c))
        /\ LogOf(accepted[c], r)
        /\ \A i \in 1 .. Len(r) : InWindow(r[i])
    BY <1>1, <1>2, RecentIsTheWindow
  <1> QED
    BY <1>1, <1>2, <1>3, LenProperties, PositiveLimits

(* The table after a call for c.                                           *)
LEMMA TableAfter ==
  ASSUME IInv, NEW c \in Clients, NEW h \in Seq(Times), Len(h) <= MaxRequests,
         hits' = Put(Swept(hits), c, h)
  PROVE  /\ DOMAIN hits' \subseteq Clients
         /\ \A x \in DOMAIN hits' : hits'[x] \in Seq(Times) /\ Len(hits'[x]) <= MaxRequests
         /\ Hits(hits', c) = h
         /\ \A x \in Clients \ {c} : Hits(hits', x) = Hits(Swept(hits), x)
  <1>1. /\ DOMAIN hits' = DOMAIN Swept(hits) \cup {c}
        /\ \A x \in DOMAIN hits' : hits'[x] = IF x = c THEN h ELSE Swept(hits)[x]
    BY DEF Put
  <1>2. DOMAIN Swept(hits) \subseteq DOMAIN hits /\ DOMAIN hits \subseteq Clients
    BY SweptIsTheWindow DEF IInv, TypeOK
  <1>3. \A x \in DOMAIN Swept(hits) : Swept(hits)[x] = Hits(Swept(hits), x)
    BY DEF Hits
  <1>4. \A x \in DOMAIN Swept(hits) :
           Swept(hits)[x] \in Seq(Times) /\ Len(Swept(hits)[x]) <= MaxRequests
    BY <1>2, <1>3, SweptIsTheWindow
  <1>5. \A x \in DOMAIN hits' : hits'[x] \in Seq(Times) /\ Len(hits'[x]) <= MaxRequests
    BY <1>1, <1>4
  <1>6. Hits(hits', c) = h
    BY <1>1 DEF Hits
  <1>7. \A x \in Clients \ {c} : Hits(hits', x) = Hits(Swept(hits), x)
    BY <1>1 DEF Hits
  <1> QED
    BY <1>1, <1>2, <1>5, <1>6, <1>7

(* The longest wait there is covers what is left, in whole seconds.        *)
LEMMA WaitIsEnough ==
  ASSUME NEW h \in Seq(Times), Len(h) >= 1, now \in Times
  PROVE  /\ WaitSeconds(h) \in Nat
         /\ Second * WaitSeconds(h) \in Nat
         /\ Second * WaitSeconds(h) >= Window - (now - h[1])
  <1> DEFINE x == Window - (now - h[1])
             q == (x + Second - 1) \div Second
  <1>1. x \in Int /\ Second \in Nat /\ Second >= 1
    BY PositiveLimits DEF Times
  <1> HIDE DEF x
  <1>2. q \in Int /\ Second * q >= x
    BY <1>1
  <1>3. WaitSeconds(h) = IF q > 1 THEN q ELSE 1
    BY DEF WaitSeconds, x
  <1> HIDE DEF q
  <1>4. CASE q > 1
    <2>1. Second * q \in Nat
      BY <1>1, <1>2, <1>4
    <2> QED
      BY <1>2, <1>3, <1>4, <2>1 DEF x
  <1>5. CASE ~(q > 1)
    <2>1. Second * q <= Second
      BY <1>1, <1>2, <1>5
    <2>2. Second * 1 = Second
      BY <1>1
    <2> QED
      BY <1>1, <1>2, <1>3, <1>5, <2>1, <2>2 DEF x
  <1> QED
    BY <1>4, <1>5

LEMMA InitIInv == Init => IInv
  <1> SUFFICES ASSUME Init PROVE IInv
    OBVIOUS
  <1>1. \A c \in Clients :
           accepted[c] = << >> /\ Hits(hits, c) = << >> /\ retryAt[c] = 0
    BY DEF Init, Hits
  <1>2. TypeOK
    BY PositiveLimits DEF Init, TypeOK
  <1>3. LogInv
    BY <1>1 DEF LogInv, LogOf, RetryOf
  <1>4. AtMostMaxPerWindow
    BY <1>1, PositiveLimits DEF AtMostMaxPerWindow
  <1> QED
    BY <1>2, <1>3, <1>4 DEF IInv

(* An accepted request: the one that lies max_requests back is not in the  *)
(* deque any more, so it left the window.                                  *)
LEMMA AllowKeeps == ASSUME IInv, NEW c \in Clients, Allow(c) PROVE IInv'
  <1> DEFINE r == Recent(Swept(hits), c)
             log == accepted[c]
             A == Len(log)
  <1>1. /\ Len(r) < MaxRequests
        /\ hits' = Put(Swept(hits), c, Append(r, now))
        /\ accepted' = [accepted EXCEPT ![c] = Append(log, now)]
        /\ retryAt' = [retryAt EXCEPT ![c] = 0]
        /\ now' = now
    BY DEF Allow
  <1>2. /\ log \in Seq(Times) /\ r \in Seq(Times)
        /\ LogOf(log, r)
        /\ \A i \in 1 .. Len(r) : InWindow(r[i])
    BY SeenByCheck
  <1> HIDE DEF r
  <1>3. /\ now \in Times /\ now \in Nat /\ MaxRequests \in Nat /\ MaxRequests >= 1
        /\ Window \in Nat /\ Window >= 1 /\ Horizon \in Nat
        /\ A \in Nat /\ Len(r) \in Nat
        /\ DOMAIN log = 1 .. A /\ DOMAIN r = 1 .. Len(r)
    BY <1>2, PositiveLimits DEF IInv, TypeOK, Times
  <1> DEFINE rr == Append(r, now)
             ll == Append(log, now)
  <1>4. /\ rr \in Seq(Times) /\ Len(rr) = Len(r) + 1 /\ DOMAIN rr = 1 .. Len(r) + 1
        /\ \A i \in 1 .. Len(r) : rr[i] = r[i]
        /\ rr[Len(r) + 1] = now
    BY <1>2, <1>3, AppendProperties
  <1>5. /\ ll \in Seq(Times) /\ Len(ll) = A + 1 /\ DOMAIN ll = 1 .. A + 1
        /\ \A i \in 1 .. A : ll[i] = log[i]
        /\ ll[A + 1] = now
    BY <1>2, <1>3, AppendProperties
  <1> HIDE DEF rr, ll
  <1>6. accepted'[c] = ll /\ retryAt'[c] = 0
    BY <1>1 DEF IInv, TypeOK, ll
  <1>7. \A x \in Clients \ {c} : accepted'[x] = accepted[x] /\ retryAt'[x] = retryAt[x]
    BY <1>1 DEF IInv, TypeOK
  <1>8. /\ DOMAIN hits' \subseteq Clients
        /\ \A x \in DOMAIN hits' : hits'[x] \in Seq(Times) /\ Len(hits'[x]) <= MaxRequests
        /\ Hits(hits', c) = rr
        /\ \A x \in Clients \ {c} : Hits(hits', x) = Hits(Swept(hits), x)
    <2>1. Len(rr) <= MaxRequests /\ hits' = Put(Swept(hits), c, rr)
      BY <1>1, <1>3, <1>4 DEF rr
    <2> QED
      BY <2>1, <1>4, TableAfter
  <1>9. TypeOK'
    <2>1. accepted' \in [Clients -> Seq(Times)]
      BY <1>1, <1>5 DEF IInv, TypeOK, Times, ll
    <2>2. retryAt' \in [Clients -> Nat]
      BY <1>1 DEF IInv, TypeOK
    <2> QED
      BY <1>1, <1>3, <1>8, <2>1, <2>2 DEF TypeOK, Times
  <1>10. LogOf(ll, rr)
    <2>1. /\ \A i, j \in 1 .. A : i <= j => log[i] <= log[j]
          /\ \A i \in 1 .. A : log[i] <= now
          /\ Len(r) <= A
          /\ \A i \in 1 .. Len(r) : r[i] = log[A - Len(r) + i]
          /\ \A i \in 1 .. A - Len(r) : ~InWindow(log[i])
      BY <1>2, <1>3 DEF LogOf
    <2> DEFINE n == Len(r)
    <2> HIDE DEF A, n
    <2>2. \A i, j \in 1 .. A + 1 : i <= j => ll[i] <= ll[j]
      <3> SUFFICES ASSUME NEW i \in 1 .. A + 1, NEW j \in 1 .. A + 1, i <= j
                   PROVE  ll[i] <= ll[j]
        OBVIOUS
      <3>1. CASE j = A + 1
        BY <3>1, <2>1, <1>3, <1>5
      <3>2. CASE j # A + 1
        BY <3>2, <2>1, <1>3, <1>5
      <3> QED
        BY <3>1, <3>2
    <2>3. \A i \in 1 .. A + 1 : ll[i] <= now
      <3> TAKE i \in 1 .. A + 1
      <3>1. CASE i = A + 1
        BY <3>1, <1>3, <1>5
      <3>2. CASE i \in 1 .. A
        BY <3>2, <2>1, <1>5
      <3> QED
        BY <3>1, <3>2, <1>3
    <2>4. \A i \in 1 .. n + 1 : rr[i] = ll[(A + 1) - (n + 1) + i]
      <3> TAKE i \in 1 .. n + 1
      <3>0. n \in Nat /\ n <= A /\ A \in Nat
        BY <2>1, <1>3 DEF n
      <3>1. CASE i = n + 1
        BY <3>0, <3>1, <1>4, <1>5 DEF n
      <3>2. CASE i \in 1 .. n
        <4>1. A - n + i \in 1 .. A /\ (A + 1) - (n + 1) + i = A - n + i
          BY <3>0, <3>2
        <4>2. rr[i] = log[A - n + i]
          BY <3>2, <2>1, <1>4 DEF n
        <4> QED
          BY <4>1, <4>2, <1>5
      <3> QED
        BY <3>0, <3>1, <3>2
    <2>5. \A i \in 1 .. (A + 1) - (n + 1) : ~InWindow(ll[i])
      <3> TAKE i \in 1 .. (A + 1) - (n + 1)
      <3>0. n \in Nat /\ n <= A /\ A \in Nat
        BY <2>1, <1>3 DEF n
      <3>1. i \in 1 .. A /\ i \in 1 .. A - n
        BY <3>0
      <3> QED
        BY <3>1, <2>1, <1>5 DEF n
    <2>6. /\ Len(ll) = A + 1 /\ Len(rr) = n + 1
          /\ DOMAIN ll = 1 .. A + 1 /\ DOMAIN rr = 1 .. n + 1
      BY <1>4, <1>5 DEF n
    <2>7. Len(rr) <= Len(ll)
      BY <2>1, <2>6, <1>3 DEF n
    <2> QED
      BY <2>2, <2>3, <2>4, <2>5, <2>6, <2>7 DEF LogOf
  <1>11. LogInv'
    <2> SUFFICES ASSUME NEW x \in Clients
                 PROVE  (LogOf(accepted[x], Hits(hits, x)) /\ RetryOf(accepted[x], retryAt[x]))'
      BY DEF LogInv
    <2>1. CASE x = c
      BY <2>1, <1>1, <1>6, <1>8, <1>10 DEF LogOf, RetryOf, InWindow
    <2>2. CASE x # c
      <3>1. LogOf(accepted[x], Hits(Swept(hits), x))
        BY SweptIsTheWindow
      <3>2. RetryOf(accepted[x], retryAt[x])
        BY DEF IInv, LogInv
      <3>3. accepted'[x] = accepted[x] /\ retryAt'[x] = retryAt[x]
            /\ Hits(hits', x) = Hits(Swept(hits), x)
        BY <2>2, <1>7, <1>8
      <3> QED
        BY <3>1, <3>2, <3>3, <1>1 DEF LogOf, RetryOf, InWindow
    <2> QED
      BY <2>1, <2>2
  <1>12. AtMostMaxPerWindow'
    <2> SUFFICES ASSUME NEW x \in Clients, NEW i \in 1 .. Len(accepted'[x]) - MaxRequests
                 PROVE  accepted'[x][i + MaxRequests] - accepted'[x][i] >= Window
      BY DEF AtMostMaxPerWindow
    <2>1. CASE x # c
      BY <2>1, <1>7 DEF IInv, AtMostMaxPerWindow
    <2>2. CASE x = c
      <3>0. accepted'[x] = ll
        BY <2>2, <1>6
      <3>1. i \in 1 .. A + 1 - MaxRequests
        <4>1. Len(accepted'[x]) = A + 1
          BY <3>0, <1>5
        <4> QED
          BY <4>1, <1>3
      <3>2. CASE i = A + 1 - MaxRequests
        <4>1. i \in 1 .. A - Len(r) /\ i \in 1 .. A /\ i + MaxRequests = A + 1
          <5> HIDE DEF A
          <5> QED
            BY <3>1, <3>2, <1>1, <1>3
        <4>2. ~InWindow(log[i]) /\ log[i] \in Nat
          BY <4>1, <1>2, <1>3 DEF LogOf, Times
        <4> QED
          BY <4>1, <4>2, <2>2, <1>3, <1>5, <1>6 DEF InWindow
      <3>3. CASE i # A + 1 - MaxRequests
        <4>1. i \in 1 .. A - MaxRequests /\ i \in 1 .. A /\ i + MaxRequests \in 1 .. A
          <5> HIDE DEF A
          <5> QED
            BY <3>1, <3>3, <1>3
        <4>2. log[i + MaxRequests] - log[i] >= Window
          BY <4>1 DEF IInv, AtMostMaxPerWindow
        <4> QED
          BY <4>1, <4>2, <2>2, <1>5, <1>6
      <3> QED
        BY <3>2, <3>3
    <2> QED
      BY <2>1, <2>2
  <1> QED
    BY <1>9, <1>11, <1>12 DEF IInv

(* A refusal: the oldest request in the deque is the last of max_requests, *)
(* and the wait lasts until it leaves the window.                          *)
LEMMA AtRefusal ==
  ASSUME IInv, NEW c \in Clients, NEW r, r = Recent(Swept(hits), c),
         Len(r) >= MaxRequests
  PROVE  /\ r \in Seq(Times) /\ Len(r) = MaxRequests
         /\ Len(accepted[c]) \in Nat /\ MaxRequests <= Len(accepted[c])
         /\ r[1] = accepted[c][Len(accepted[c]) - MaxRequests + 1]
         /\ InWindow(r[1])
         /\ \A i \in (Len(accepted[c]) - MaxRequests + 1) .. Len(accepted[c]) :
               InWindow(accepted[c][i])
  <1> DEFINE log == accepted[c]
             A == Len(log)
  <1>1. /\ log \in Seq(Times) /\ r \in Seq(Times) /\ Len(r) <= MaxRequests
        /\ LogOf(log, r)
        /\ \A i \in 1 .. Len(r) : InWindow(r[i])
    BY SeenByCheck
  <1>2. /\ Len(r) = MaxRequests /\ MaxRequests \in Nat /\ MaxRequests >= 1
        /\ A \in Nat /\ DOMAIN r = 1 .. Len(r)
    BY <1>1, PositiveLimits
  <1>3. MaxRequests <= A /\ \A i \in 1 .. MaxRequests : r[i] = log[A - MaxRequests + i]
    BY <1>1, <1>2 DEF LogOf
  <1>4. r[1] = log[A - MaxRequests + 1] /\ InWindow(r[1])
    BY <1>1, <1>2, <1>3
  <1>5. ASSUME NEW i \in (A - MaxRequests + 1) .. A PROVE InWindow(log[i])
    <2> HIDE DEF A
    <2>1. i - (A - MaxRequests) \in 1 .. MaxRequests
          /\ A - MaxRequests + (i - (A - MaxRequests)) = i
      BY <1>2, <1>3
    <2> QED
      BY <2>1, <1>1, <1>2, <1>3
  <1> QED
    BY <1>1, <1>2, <1>3, <1>4, <1>5

LEMMA RefuseKeeps == ASSUME IInv, NEW c \in Clients, Refuse(c) PROVE IInv'
  <1> DEFINE r == Recent(Swept(hits), c)
             A == Len(accepted[c])
  <1>1. /\ Len(r) >= MaxRequests
        /\ hits' = Put(Swept(hits), c, r)
        /\ retryAt' = [retryAt EXCEPT ![c] = now + Second * WaitSeconds(r)]
        /\ now' = now /\ accepted' = accepted
    BY DEF Refuse
  <1>2. LogOf(accepted[c], r) /\ accepted[c] \in Seq(Times)
    BY SeenByCheck
  <1>3. /\ r \in Seq(Times) /\ Len(r) = MaxRequests
        /\ A \in Nat /\ MaxRequests <= A
        /\ r[1] = accepted[c][A - MaxRequests + 1]
    BY <1>1, AtRefusal
  <1> HIDE DEF r
  <1>4. now \in Times /\ now \in Nat /\ Len(r) >= 1 /\ r[1] \in Nat /\ Window \in Nat
    BY <1>3, PositiveLimits DEF IInv, TypeOK, Times
  <1> DEFINE wait == Second * WaitSeconds(r)
  <1>5. wait \in Nat /\ wait >= Window - (now - r[1])
    BY <1>3, <1>4, WaitIsEnough
  <1>6. retryAt'[c] = now + wait
    BY <1>1 DEF IInv, TypeOK
  <1>7. \A x \in Clients \ {c} : retryAt'[x] = retryAt[x]
    BY <1>1 DEF IInv, TypeOK
  <1> HIDE DEF wait
  <1>8. retryAt'[c] \in Nat /\ retryAt'[c] >= r[1] + Window
    BY <1>4, <1>5, <1>6
  <1>9. /\ DOMAIN hits' \subseteq Clients
        /\ \A x \in DOMAIN hits' : hits'[x] \in Seq(Times) /\ Len(hits'[x]) <= MaxRequests
        /\ Hits(hits', c) = r
        /\ \A x \in Clients \ {c} : Hits(hits', x) = Hits(Swept(hits), x)
    <2>1. Len(r) <= MaxRequests
      BY <1>3, PositiveLimits
    <2> QED
      BY <2>1, <1>1, <1>3, TableAfter
  <1>10. TypeOK'
    <2>1. retryAt' \in [Clients -> Nat]
      BY <1>1, <1>6, <1>8 DEF IInv, TypeOK, wait
    <2> QED
      BY <1>1, <1>9, <2>1 DEF IInv, TypeOK, Times
  <1>11. LogInv'
    <2> SUFFICES ASSUME NEW x \in Clients
                 PROVE  (LogOf(accepted[x], Hits(hits, x)) /\ RetryOf(accepted[x], retryAt[x]))'
      BY DEF LogInv
    <2>1. CASE x = c
      <3>1. LogOf(accepted[c], Hits(hits, c))'
        BY <1>1, <1>2, <1>9 DEF LogOf, InWindow
      <3>2. RetryOf(accepted[c], retryAt[c])'
        BY <1>1, <1>3, <1>8 DEF RetryOf
      <3> QED
        BY <2>1, <3>1, <3>2
    <2>2. CASE x # c
      <3>1. LogOf(accepted[x], Hits(Swept(hits), x))
        BY SweptIsTheWindow
      <3>2. RetryOf(accepted[x], retryAt[x])
        BY DEF IInv, LogInv
      <3>3. retryAt'[x] = retryAt[x] /\ Hits(hits', x) = Hits(Swept(hits), x)
        BY <2>2, <1>7, <1>9
      <3> QED
        BY <3>1, <3>2, <3>3, <1>1 DEF LogOf, RetryOf, InWindow
    <2> QED
      BY <2>1, <2>2
  <1>12. AtMostMaxPerWindow'
    BY <1>1 DEF IInv, AtMostMaxPerWindow
  <1> QED
    BY <1>10, <1>11, <1>12 DEF IInv

LEMMA TickKeeps == IInv /\ Tick => IInv'
  <1> SUFFICES ASSUME IInv, Tick PROVE IInv'
    OBVIOUS
  <1>1. /\ now \in Nat /\ now' = now + 1 /\ now' \in Times
        /\ hits' = hits /\ accepted' = accepted /\ retryAt' = retryAt
        /\ Window \in Nat
    BY PositiveLimits DEF IInv, TypeOK, Tick, Times
  <1>2. TypeOK'
    BY <1>1 DEF IInv, TypeOK, Times
  <1>3. ASSUME NEW x \in Clients PROVE LogOf(accepted[x], Hits(hits, x))'
    <2>1. LogOf(accepted[x], Hits(hits, x)) /\ accepted[x] \in Seq(Times)
      BY DEF IInv, LogInv, TypeOK, Times
    <2>2. \A i \in DOMAIN accepted[x] : accepted[x][i] \in Nat
      BY <2>1, PositiveLimits DEF Times
    <2> DEFINE log == accepted[x]
               h == Hits(hits, x)
    <2>3. Len(log) \in Nat /\ DOMAIN log = 1 .. Len(log) /\ Len(h) \in Nat
      <3>1. h \in Seq(Times)
        BY EmptySeq DEF IInv, TypeOK, Times, Hits
      <3> QED
        BY <3>1, <2>1
    <2>4. \A i \in DOMAIN log : log[i] <= now + 1
      BY <2>1, <2>2, <1>1 DEF LogOf
    <2>5. \A i \in 1 .. Len(log) - Len(h) : now + 1 - log[i] >= Window
      <3> TAKE i \in 1 .. Len(log) - Len(h)
      <3>1. ~InWindow(log[i]) /\ i \in 1 .. Len(log)
        BY <2>1, <2>3 DEF LogOf
      <3>2. log[i] \in Nat
        BY <3>1, <2>2, <2>3
      <3> QED
        BY <3>1, <3>2, <1>1 DEF InWindow
    <2>6. \A i \in 1 .. Len(log) - Len(h) : log[i] \in Nat
      BY <2>2, <2>3
    <2> HIDE DEF log, h
    <2>7. /\ \A i \in DOMAIN log : log[i] <= now'
          /\ \A i \in 1 .. Len(log) - Len(h) : ~(now' - log[i] < Window)
      BY <2>4, <2>5, <2>6, <1>1
    <2> QED
      BY <2>1, <2>7, <1>1 DEF LogOf, InWindow, log, h
  <1>4. LogInv'
    BY <1>1, <1>3 DEF IInv, LogInv, RetryOf
  <1>5. AtMostMaxPerWindow'
    BY <1>1 DEF IInv, AtMostMaxPerWindow
  <1> QED
    BY <1>2, <1>4, <1>5 DEF IInv

LEMMA NextIInv == IInv /\ [Next]_vars => IInv'
  <1> SUFFICES ASSUME IInv, [Next]_vars PROVE IInv'
    OBVIOUS
  <1>1. CASE Tick
    BY <1>1, TickKeeps
  <1>2. ASSUME NEW c \in Clients, Allow(c) PROVE IInv'
    BY <1>2, AllowKeeps
  <1>3. ASSUME NEW c \in Clients, Refuse(c) PROVE IInv'
    BY <1>3, RefuseKeeps
  <1>4. CASE UNCHANGED vars
    BY <1>4 DEF vars, IInv, TypeOK, LogInv, LogOf, RetryOf, InWindow, AtMostMaxPerWindow
  <1> QED
    BY <1>1, <1>2, <1>3, <1>4 DEF Next

(* Everything the variables may hold: the deque of a client never outgrows *)
(* max_requests, whatever is swept and whenever.                           *)
THEOREM ClientsTypeCorrect == Spec => []TypeOK
  <1>1. IInv => TypeOK
    BY DEF IInv
  <1> QED
    BY <1>1, InitIInv, NextIInv, PTL DEF Spec

(* No client gets more than max_requests accepted in any window: forgetting *)
(* a client, and dropping old requests, never lets one more in.            *)
THEOREM LimitHolds == Spec => []AtMostMaxPerWindow
  <1>1. IInv => AtMostMaxPerWindow
    BY DEF IInv
  <1> QED
    BY <1>1, InitIInv, NextIInv, PTL DEF Spec

(* A client that comes back when Retry-After is over is not refused again. *)
THEOREM RetryAfterHonoured == Spec => RetryAfterSuffices
  <1> DEFINE P == \A c \in Clients : Refuse(c) /\ retryAt[c] # 0 => now < retryAt[c]
  <1>1. IInv /\ [Next]_vars => [P]_vars
    <2> SUFFICES ASSUME IInv, NEW c \in Clients, Refuse(c), retryAt[c] # 0
                 PROVE  now < retryAt[c]
      OBVIOUS
    <2> DEFINE A == Len(accepted[c])
               r == Recent(Swept(hits), c)
    <2>1. Len(r) >= MaxRequests
      BY DEF Refuse
    <2>2. r \in Seq(Times) /\ r[1] = accepted[c][A - MaxRequests + 1] /\ InWindow(r[1])
          /\ Len(r) = MaxRequests
      BY <2>1, AtRefusal
    <2>3. retryAt[c] >= accepted[c][A - MaxRequests + 1] + Window
      BY DEF IInv, LogInv, RetryOf
    <2> HIDE DEF r, A
    <2>4. r[1] \in Nat /\ now \in Nat /\ retryAt[c] \in Nat /\ Window \in Nat
      BY <2>2, PositiveLimits DEF IInv, TypeOK, Times
    <2> QED
      BY <2>2, <2>3, <2>4 DEF InWindow
  <1> QED
    BY <1>1, InitIInv, NextIInv, PTL DEF Spec, RetryAfterSuffices

(* At a refusal, max_requests accepted requests of that same client lie in *)
(* the window.                                                             *)
THEOREM RefusedWithCause == Spec => RefusedOnlyAtTheLimit
  <1> DEFINE P == \A c \in Clients : Refuse(c) =>
                     Cardinality({i \in DOMAIN accepted[c] : now - accepted[c][i] < Window})
                         >= MaxRequests
  <1>1. IInv /\ [Next]_vars => [P]_vars
    <2> SUFFICES ASSUME IInv, NEW c \in Clients, Refuse(c)
                 PROVE  Cardinality({i \in DOMAIN accepted[c] : now - accepted[c][i] < Window})
                            >= MaxRequests
      OBVIOUS
    <2> DEFINE A == Len(accepted[c])
               S == {i \in DOMAIN accepted[c] : now - accepted[c][i] < Window}
               T == (A - MaxRequests + 1) .. A
               r == Recent(Swept(hits), c)
    <2>1. Len(r) >= MaxRequests
      BY DEF Refuse
    <2>2. A \in Nat /\ MaxRequests <= A /\ \A i \in T : InWindow(accepted[c][i])
      BY <2>1, AtRefusal
    <2>3. DOMAIN accepted[c] = 1 .. A /\ MaxRequests \in Nat
      BY PositiveLimits DEF IInv, TypeOK
    <2> HIDE DEF A
    <2>4. T \in SUBSET S
      BY <2>2, <2>3 DEF InWindow
    <2>5. IsFiniteSet(1 .. A) /\ S \in SUBSET (1 .. A)
      BY <2>2, <2>3, FS_Interval
    <2>6. IsFiniteSet(T) /\ Cardinality(T) = MaxRequests
      <3> DEFINE a == A - MaxRequests + 1
      <3>1. a \in Int /\ A \in Int
        BY <2>2, <2>3
      <3>2. (IF a > A THEN 0 ELSE A - a + 1) = MaxRequests
        BY <2>2, <2>3
      <3> HIDE DEF a
      <3>3. IsFiniteSet(a .. A) /\ Cardinality(a .. A) = IF a > A THEN 0 ELSE A - a + 1
        BY <3>1, FS_Interval
      <3> QED
        BY <3>2, <3>3 DEF a
    <2> HIDE DEF S, T
    <2>7. IsFiniteSet(S)
      BY <2>5, FS_Subset
    <2>8. Cardinality(T) <= Cardinality(S)
      BY <2>4, <2>7, FS_Subset
    <2>9. Cardinality(S) >= MaxRequests
      BY <2>6, <2>7, <2>8, <2>3, FS_CardinalityType
    <2> QED
      BY <2>9 DEF S
  <1> QED
    BY <1>1, InitIInv, NextIInv, PTL DEF Spec, RefusedOnlyAtTheLimit

(* A sweep leaves in the table nobody but clients with an accepted request *)
(* in the window, and the client it serves.                                *)
THEOREM SweptTableIsBusy == Spec => SweepForgetsTheIdle
  <1> DEFINE P == \A c \in Clients :
                    (Allow(c) \/ Refuse(c)) /\ Cardinality(DOMAIN hits) > MaxTracked =>
                        \A x \in DOMAIN hits' \ {c} :
                            \E i \in DOMAIN accepted[x] : now - accepted[x][i] < Window
  <1>1. IInv /\ [Next]_vars => [P]_vars
    <2> SUFFICES ASSUME IInv, NEW c \in Clients, Allow(c) \/ Refuse(c),
                        Cardinality(DOMAIN hits) > MaxTracked,
                        NEW x \in DOMAIN hits' \ {c}
                 PROVE  \E i \in DOMAIN accepted[x] : now - accepted[x][i] < Window
      OBVIOUS
    <2>1. PICK h : hits' = Put(Swept(hits), c, h)
      BY DEF Allow, Refuse
    <2>2. x \in DOMAIN Swept(hits)
      BY <2>1 DEF Put
    <2>3. x \in DOMAIN hits /\ Busy(hits[x])
      BY <2>2 DEF Swept
    <2>4. x \in Clients /\ hits[x] = Hits(hits, x) /\ hits[x] \in Seq(Times)
          /\ accepted[x] \in Seq(Times)
      BY <2>3 DEF IInv, TypeOK, Times, Hits
    <2>5. LogOf(accepted[x], hits[x])
      BY <2>4 DEF IInv, LogInv
    <2> DEFINE n == Len(hits[x])
               A == Len(accepted[x])
    <2>6. n \in Nat /\ n # 0 /\ DOMAIN hits[x] = 1 .. n /\ A \in Nat
          /\ DOMAIN accepted[x] = 1 .. A
      BY <2>3, <2>4, EmptySeq DEF Busy
    <2>7. n <= A /\ hits[x][n] = accepted[x][A - n + n]
      <3>1. n \in DOMAIN hits[x]
        BY <2>6
      <3>2. \A i \in DOMAIN hits[x] : hits[x][i] = accepted[x][A - n + i]
        BY <2>5 DEF LogOf
      <3>3. n <= A
        BY <2>5 DEF LogOf
      <3> QED
        BY <3>1, <3>2, <3>3
    <2>8. InWindow(hits[x][n])
      BY <2>3 DEF Busy
    <2> HIDE DEF n, A
    <2>9. A \in 1 .. A /\ A - n + n = A
      BY <2>6, <2>7
    <2> QED
      BY <2>6, <2>7, <2>8, <2>9 DEF InWindow
  <1> QED
    BY <1>1, InitIInv, NextIInv, PTL DEF Spec, SweepForgetsTheIdle
=============================================================================
