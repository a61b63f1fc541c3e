----------------------------- MODULE Foundations -----------------------------
(***************************************************************************)
(* Facts about numbers and finite sets that the proofs share: extrema,     *)
(* induction and recursion, folds and sums, ranks.                         *)
(*                                                                         *)
(* Induction is stated over a set and recursion over a function, in place  *)
(* of operators, so that a proof can cite them for the set of the numbers  *)
(* it wants to reach and for the step it wants to repeat.                  *)
(***************************************************************************)
EXTENDS Integers, FiniteSets, FiniteSetTheorems, TLAPS

-----------------------------------------------------------------------------
(* Extrema: the least and the greatest place of a set of places in 1 .. n, *)
(* counted out with cardinalities.                                         *)

(* A set of places in 1 .. n that holds every place above one it holds has *)
(* a least one, if it is not empty.                                        *)
LEMMA LeastOfUpperSet ==
  ASSUME NEW n \in Nat, NEW S \in SUBSET (1 .. n), n \in S,
         \A i \in S : \A j \in i .. n : j \in S
  PROVE  \E i \in S : \A j \in S : i <= j
  <1> DEFINE k == Cardinality(S)
  <1>1. IsFiniteSet(1 .. n) /\ Cardinality(1 .. n) = n
    BY FS_Interval
  <1>2. IsFiniteSet(S) /\ k <= n /\ k \in Nat
    BY <1>1, FS_Subset, FS_CardinalityType
  <1>3. k >= 1
    <2>1. S # {}
      OBVIOUS
    <2>2. k # 0
      BY <1>2, <2>1, FS_EmptySet
    <2> QED
      BY <1>2, <2>2
  <1>4. n - k + 1 \in S
    <2> SUFFICES ASSUME n - k + 1 \notin S PROVE FALSE
      OBVIOUS
    <2>1. S \in SUBSET ((n - k + 2) .. n)
      <3> SUFFICES ASSUME NEW i \in S, i < n - k + 2 PROVE FALSE
        BY <1>2
      <3>1. n - k + 1 \in i .. n
        BY <1>2, <1>3
      <3> QED
        BY <3>1
    <2>2. /\ IsFiniteSet((n - k + 2) .. n)
          /\ Cardinality((n - k + 2) .. n) = k - 1
      <3> DEFINE a == n - k + 2
      <3>1. a \in Int /\ n \in Int
        BY <1>2
      <3> HIDE DEF a
      <3>2. /\ IsFiniteSet(a .. n)
            /\ Cardinality(a .. n) = IF a > n THEN 0 ELSE n - a + 1
        BY <3>1, FS_Interval
      <3>3. (IF a > n THEN 0 ELSE n - a + 1) = k - 1
        <4> HIDE DEF k
        <4> QED
          BY <1>2, <1>3 DEF a
      <3> QED
        BY <3>2, <3>3 DEF a
    <2> DEFINE B == (n - k + 2) .. n
    <2> HIDE DEF B
    <2>3. IsFiniteSet(B) /\ S \in SUBSET B /\ Cardinality(B) = k - 1
      BY <2>1, <2>2 DEF B
    <2>4. Cardinality(S) <= Cardinality(B)
      BY <2>3, FS_Subset
    <2> HIDE DEF k
    <2> QED
      BY <2>3, <2>4, <1>2 DEF k
  <1>5. ASSUME NEW j \in S, j < n - k + 1 PROVE FALSE
    <2>1. (j .. n) \in SUBSET S
      BY <1>5
    <2>2. Cardinality(j .. n) = n - j + 1
      BY FS_Interval
    <2>3. Cardinality(j .. n) <= k
      BY <2>1, <1>2, FS_Subset
    <2> HIDE DEF k
    <2> QED
      BY <2>2, <2>3, <1>2, <1>5
  <1> HIDE DEF k
  <1>6. \A j \in S : n - k + 1 <= j
    BY <1>5, <1>2
  <1> QED
    BY <1>4, <1>6

(* A set of places that is not empty has a first one.                      *)
LEMMA LeastExists ==
  ASSUME NEW n \in Nat, NEW T \in SUBSET (1 .. n), T # {}
  PROVE  \E i \in T : \A j \in T : i <= j
  <1> DEFINE S == {i \in 1 .. n : \E t \in T : t <= i}
  <1>1. PICK t \in T : TRUE
    OBVIOUS
  <1>2. t \in 1 .. n /\ n \in 1 .. n /\ t <= n
    BY <1>1
  <1>3. n \in S /\ S \in SUBSET (1 .. n)
    BY <1>1, <1>2
  <1>4. \A i \in S : \A j \in i .. n : j \in S
    <2> TAKE i \in S
    <2> TAKE j \in i .. n
    <2>1. PICK u \in T : u <= i
      OBVIOUS
    <2>2. i \in 1 .. n /\ u \in 1 .. n /\ j \in 1 .. n /\ u <= j
      BY <2>1
    <2> QED
      BY <2>1, <2>2
  <1>5. \A u \in T : u \in S
    OBVIOUS
  <1>6. PICK i \in S : \A j \in S : i <= j
    <2> HIDE DEF S
    <2> QED
      BY <1>3, <1>4, LeastOfUpperSet
  <1>7. PICK u \in T : u <= i
    BY <1>6
  <1>8. i <= u /\ i \in Int /\ u \in Int
    BY <1>5, <1>6, <1>7
  <1>9. u = i
    BY <1>7, <1>8
  <1> QED
    BY <1>5, <1>6, <1>7, <1>9

(* ... and a last one: the first of its mirror image.                      *)
LEMMA GreatestExists ==
  ASSUME NEW n \in Nat, NEW T \in SUBSET (1 .. n), T # {}
  PROVE  \E i \in T : \A j \in T : j <= i
  <1> DEFINE M == {n + 1 - t : t \in T}
  <1>1. M \in SUBSET (1 .. n) /\ M # {}
    <2>1. \A t \in T : t \in 1 .. n /\ n + 1 - t \in 1 .. n
      OBVIOUS
    <2>2. M # {}
      OBVIOUS
    <2> QED
      BY <2>1, <2>2
  <1>2. PICK m \in M : \A k \in M : m <= k
    <2> HIDE DEF M
    <2> QED
      BY <1>1, LeastExists
  <1>3. PICK i \in T : m = n + 1 - i
    BY <1>2
  <1>4. \A j \in T : m <= n + 1 - j
    BY <1>2
  <1>5. \A j \in T : j \in Int
    OBVIOUS
  <1>6. \A j \in T : j <= i
    BY <1>3, <1>4, <1>5
  <1> QED
    BY <1>3, <1>6

-----------------------------------------------------------------------------
(* Induction and recursion.                                                *)

(* Induction: the first number a set does not hold would come after one it *)
(* holds.                                                                  *)
LEMMA InductionOnSet ==
  ASSUME NEW S, 0 \in S, \A n \in Nat : n \in S => n + 1 \in S
  PROVE  \A n \in Nat : n \in S
  <1> SUFFICES ASSUME NEW n \in Nat, n \notin S PROVE FALSE
    OBVIOUS
  <1> DEFINE T == {i \in 1 .. (n + 1) : i - 1 \notin S}
  <1>1. n + 1 \in Nat /\ n + 1 \in T /\ T \in SUBSET (1 .. (n + 1)) /\ T # {}
    <2>1. (n + 1) - 1 = n /\ n + 1 \in 1 .. (n + 1)
      OBVIOUS
    <2>2. n + 1 \in T
      BY <2>1
    <2>3. T \in SUBSET (1 .. (n + 1)) /\ n + 1 \in Nat
      OBVIOUS
    <2> HIDE DEF T
    <2> QED
      BY <2>2, <2>3
  <1>2. PICK i \in T : \A j \in T : i <= j
    <2> HIDE DEF T
    <2> QED
      BY <1>1, LeastExists
  <1>3. i \in 1 .. (n + 1) /\ i - 1 \notin S
    OBVIOUS
  <1>4. i # 1
    BY <1>3
  <1>5. i - 1 \in 1 .. (n + 1) /\ (i - 1) - 1 \in Nat
    BY <1>3, <1>4
  <1>6. (i - 1) - 1 \in S
    BY <1>2, <1>5
  <1>7. ((i - 1) - 1) + 1 \in S
    BY <1>5, <1>6
  <1> QED
    BY <1>3, <1>5, <1>7

(* The functions on 0 .. n that start with base and take step after step.  *)
Unfoldings(V, base, step, n) ==
  {g \in [0 .. n -> V] :
     g[0] = base /\ \A i \in 0 .. (n - 1) : g[i + 1] = step[<<i, g[i]>>]}

LEMMA UnfoldingExtends ==
  ASSUME NEW V, NEW base, NEW step \in [Nat \X V -> V], NEW n \in Nat,
         NEW g \in Unfoldings(V, base, step, n)
  PROVE  [i \in 0 .. (n + 1) |-> IF i <= n THEN g[i] ELSE step[<<n, g[n]>>]]
             \in Unfoldings(V, base, step, n + 1)
  <1> DEFINE h == [i \in 0 .. (n + 1) |-> IF i <= n THEN g[i] ELSE step[<<n, g[n]>>]]
  <1>1. /\ g \in [0 .. n -> V] /\ g[0] = base
        /\ \A i \in 0 .. (n - 1) : g[i + 1] = step[<<i, g[i]>>]
    BY DEF Unfoldings
  <1>2. \A i \in 0 .. n : g[i] \in V
    BY <1>1
  <1>3. step[<<n, g[n]>>] \in V
    BY <1>2
  <1>4. h \in [0 .. (n + 1) -> V]
    BY <1>2, <1>3
  <1>5. h[0] = base
    BY <1>1
  <1>6. ASSUME NEW i \in 0 .. ((n + 1) - 1) PROVE h[i + 1] = step[<<i, h[i]>>]
    <2>1. i \in 0 .. n /\ h[i] = g[i]
      OBVIOUS
    <2>2. CASE i = n
      <3>1. h[n + 1] = step[<<n, g[n]>>]
        OBVIOUS
      <3> QED
        BY <2>1, <2>2, <3>1
    <2>3. CASE i # n
      <3>1. i \in 0 .. (n - 1) /\ h[i + 1] = g[i + 1]
        BY <2>1, <2>3
      <3> QED
        BY <1>1, <2>1, <3>1
    <2> QED
      BY <2>2, <2>3
  <1>7. h \in Unfoldings(V, base, step, n + 1)
    <2> HIDE DEF h
    <2> QED
      BY <1>4, <1>5, <1>6 DEF Unfoldings
  <1> QED
    BY <1>7

LEMMA UnfoldingsAgree ==
  ASSUME NEW V, NEW base, NEW step \in [Nat \X V -> V], NEW n \in Nat, NEW m \in Nat,
         NEW g \in Unfoldings(V, base, step, n), NEW h \in Unfoldings(V, base, step, m),
         n <= m
  PROVE  g[n] = h[n]
  <1> DEFINE S == {i \in Nat : i <= n => g[i] = h[i]}
  <1>1. 0 \in S
    BY DEF Unfoldings
  <1>2. ASSUME NEW i \in Nat, i \in S PROVE i + 1 \in S
    <2> SUFFICES ASSUME i + 1 <= n PROVE g[i + 1] = h[i + 1]
      OBVIOUS
    <2>1. i \in 0 .. (n - 1) /\ i \in 0 .. (m - 1) /\ i <= n
      OBVIOUS
    <2>2. g[i + 1] = step[<<i, g[i]>>] /\ h[i + 1] = step[<<i, h[i]>>]
      BY <2>1 DEF Unfoldings
    <2> QED
      BY <1>2, <2>1, <2>2
  <1> HIDE DEF S
  <1>3. n \in S
    BY <1>1, <1>2, InductionOnSet
  <1> QED
    BY <1>3 DEF S

(* Recursion: a base and a step determine a function on the naturals.      *)
Recurs(f, base, step) == f[0] = base /\ \A n \in Nat : f[n + 1] = step[<<n, f[n]>>]

LEMMA RecursionExists ==
  ASSUME NEW V, NEW base \in V, NEW step \in [Nat \X V -> V]
  PROVE  \E f \in [Nat -> V] : Recurs(f, base, step)
  <1> DEFINE U(n) == Unfoldings(V, base, step, n)
             S == {n \in Nat : U(n) # {}}
             G(n) == CHOOSE g \in U(n) : TRUE
             f == [n \in Nat |-> G(n)[n]]
  <1>1. 0 \in S
    <2>1. [i \in 0 .. 0 |-> base] \in U(0)
      BY DEF Unfoldings
    <2> QED
      BY <2>1
  <1>2. ASSUME NEW n \in Nat, n \in S PROVE n + 1 \in S
    <2>1. PICK g \in U(n) : TRUE
      BY <1>2
    <2>2. [i \in 0 .. (n + 1) |-> IF i <= n THEN g[i] ELSE step[<<n, g[n]>>]] \in U(n + 1)
      BY <2>1, UnfoldingExtends
    <2> QED
      BY <2>2
  <1>3. \A n \in Nat : n \in S
    <2> HIDE DEF S
    <2> QED
      BY <1>1, <1>2, InductionOnSet
  <1>4. \A n \in Nat : G(n) \in U(n)
    BY <1>3
  <1> HIDE DEF G
  <1>5. ASSUME NEW n \in Nat PROVE f[n] \in V
    <2>1. G(n) \in [0 .. n -> V] /\ n \in 0 .. n
      BY <1>4 DEF Unfoldings
    <2> QED
      BY <2>1
  <1>6. f[0] = base
    BY <1>4 DEF Unfoldings
  <1>7. ASSUME NEW n \in Nat PROVE f[n + 1] = step[<<n, f[n]>>]
    <2>1. G(n + 1) \in U(n + 1) /\ G(n) \in U(n)
      BY <1>4
    <2>2. G(n + 1)[n + 1] = step[<<n, G(n + 1)[n]>>]
      <3>1. n \in 0 .. ((n + 1) - 1)
        OBVIOUS
      <3> QED
        BY <2>1, <3>1 DEF Unfoldings
    <2>3. G(n)[n] = G(n + 1)[n]
      BY <2>1, UnfoldingsAgree
    <2> QED
      BY <2>2, <2>3
  <1>8. f \in [Nat -> V]
    BY <1>5
  <1> HIDE DEF f
  <1> QED
    BY <1>6, <1>7, <1>8 DEF Recurs

-----------------------------------------------------------------------------
(* Folds, sums and ranks over finite sets.                                 *)

LEMMA TakeOne ==
  ASSUME NEW T, IsFiniteSet(T), NEW x \in T
  PROVE  /\ Cardinality(T) \in Nat /\ Cardinality(T \ {x}) \in Nat
         /\ IsFiniteSet(T \ {x})
         /\ Cardinality(T) = Cardinality(T \ {x}) + 1
  <1>1. IsFiniteSet(T \ {x}) /\ Cardinality(T \ {x}) = Cardinality(T) - 1
    BY FS_RemoveElement
  <1>2. Cardinality(T) \in Nat /\ Cardinality(T \ {x}) \in Nat
    BY <1>1, FS_CardinalityType
  <1> QED
    BY <1>1, <1>2

LEMMA TwoParts ==
  ASSUME NEW A, IsFiniteSet(A), NEW B, IsFiniteSet(B), A \cap B = {}
  PROVE  /\ IsFiniteSet(A \cup B)
         /\ Cardinality(A) \in Nat /\ Cardinality(B) \in Nat
         /\ Cardinality(A \cup B) = Cardinality(A) + Cardinality(B)
  <1>1. /\ IsFiniteSet(A \cup B)
        /\ Cardinality(A \cup B) = Cardinality(A) + Cardinality(B) - Cardinality(A \cap B)
    BY FS_Union
  <1>2. Cardinality(A \cap B) = 0
    BY FS_EmptySet
  <1>3. Cardinality(A) \in Nat /\ Cardinality(B) \in Nat
    BY FS_CardinalityType
  <1> QED
    BY <1>1, <1>2, <1>3

(* A fold over a finite set is defined, in whatever order members are      *)
(* picked: the fold of the sets of n + 1 members takes those of n.         *)
Picks(pick, S) == \A T \in SUBSET S : T # {} => pick[T] \in T
Folds(it, S, base, step, pick) ==
  \A T \in SUBSET S :
     it[T] = IF T = {} THEN base ELSE step[<<pick[T], it[T \ {pick[T]}]>>]

LEMMA FoldExists ==
  ASSUME NEW S, IsFiniteSet(S), NEW V, NEW base \in V, NEW step \in [S \X V -> V],
         NEW pick, Picks(pick, S)
  PROVE  \E it \in [SUBSET S -> V] : Folds(it, S, base, step, pick)
  <1> USE DEF Picks
  <1> DEFINE W == [SUBSET S -> V]
             first == [T \in SUBSET S |-> base]
             Next1(w) == [T \in SUBSET S |->
                            IF T = {} THEN base ELSE step[<<pick[T], w[T \ {pick[T]}]>>]]
             level == [p \in Nat \X W |-> Next1(p[2])]
  <1>1. ASSUME NEW w \in W PROVE Next1(w) \in W
    <2>1. ASSUME NEW T \in SUBSET S, T # {} PROVE step[<<pick[T], w[T \ {pick[T]}]>>] \in V
      <3>1. pick[T] \in S /\ T \ {pick[T]} \in SUBSET S
        BY <2>1
      <3> QED
        BY <3>1
    <2> QED
      BY <2>1
  <1>2. first \in W
    OBVIOUS
  <1>3. level \in [Nat \X W -> W]
    BY <1>1
  <1>4. PICK F \in [Nat -> W] : \A n \in Nat : F[n + 1] = level[<<n, F[n]>>]
    <2> HIDE DEF W, level, first
    <2>1. \E F \in [Nat -> W] : Recurs(F, first, level)
      BY <1>2, <1>3, RecursionExists
    <2> QED
      BY <2>1 DEF Recurs
  <1>5. \A n \in Nat : F[n] \in W /\ F[n + 1] = Next1(F[n])
    BY <1>4
  <1>6. F \in [Nat -> W]
    BY <1>4
  <1> DEFINE it == [T \in SUBSET S |-> F[Cardinality(T) + 1][T]]
  <1>7. \A T \in SUBSET S : IsFiniteSet(T) /\ Cardinality(T) \in Nat
    BY FS_Subset, FS_CardinalityType
  <1>8. it \in W
    <2>1. \A T \in SUBSET S : Cardinality(T) + 1 \in Nat
      BY <1>7
    <2>2. \A T \in SUBSET S : F[Cardinality(T) + 1] \in W
      BY <1>5, <2>1
    <2>3. \A T \in SUBSET S : F[Cardinality(T) + 1][T] \in V
      BY <2>2
    <2> QED
      BY <2>3
  <1>9. ASSUME NEW T \in SUBSET S
        PROVE  it[T] = IF T = {} THEN base ELSE step[<<pick[T], it[T \ {pick[T]}]>>]
    <2>1. it[T] = Next1(F[Cardinality(T)])[T]
      BY <1>5, <1>7
    <2>2. CASE T = {}
      BY <2>1, <2>2
    <2>3. CASE T # {}
      <3> DEFINE R == T \ {pick[T]}
      <3>1. R \in SUBSET S /\ Cardinality(T) = Cardinality(R) + 1
        BY <1>7, <2>3, TakeOne
      <3>2. it[R] = F[Cardinality(T)][R]
        BY <3>1
      <3>3. Next1(F[Cardinality(T)])[T] = step[<<pick[T], F[Cardinality(T)][R]>>]
        BY <2>3
      <3> QED
        BY <2>1, <2>3, <3>2, <3>3
    <2> QED
      BY <2>2, <2>3
  <1> HIDE DEF it
  <1> QED
    BY <1>8, <1>9 DEF Folds

(* A sum of values between two bounds is between so many times the bounds. *)
Sums(it, S, val, pick) ==
  \A T \in SUBSET S : it[T] = IF T = {} THEN 0 ELSE val[pick[T]] + it[T \ {pick[T]}]
Within(val, S, low, high) == \A x \in S : low <= val[x] /\ val[x] <= high

LEMMA SumBetween ==
  ASSUME NEW S, IsFiniteSet(S), NEW val \in [S -> Int], NEW low \in Int, NEW high \in Int,
         Within(val, S, low, high), NEW it, NEW pick, Picks(pick, S), Sums(it, S, val, pick)
  PROVE  it[S] \in Int /\ low * Cardinality(S) <= it[S] /\ it[S] <= high * Cardinality(S)
  <1> USE DEF Within, Picks, Sums
  <1> DEFINE N == {n \in Nat : \A T \in SUBSET S : Cardinality(T) = n =>
                      it[T] \in Int /\ low * n <= it[T] /\ it[T] <= high * n}
  <1>1. \A T \in SUBSET S : IsFiniteSet(T) /\ Cardinality(T) \in Nat
    BY FS_Subset, FS_CardinalityType
  <1>2. 0 \in N
    <2> SUFFICES ASSUME NEW T \in SUBSET S, Cardinality(T) = 0 PROVE it[T] = 0
      OBVIOUS
    <2>1. T = {}
      BY <1>1, FS_EmptySet
    <2> QED
      BY <2>1
  <1>3. ASSUME NEW n \in Nat, n \in N PROVE n + 1 \in N
    <2> SUFFICES ASSUME NEW T \in SUBSET S, Cardinality(T) = n + 1
                 PROVE  /\ it[T] \in Int
                        /\ low * (n + 1) <= it[T] /\ it[T] <= high * (n + 1)
      OBVIOUS
    <2> DEFINE x == pick[T]
               R == T \ {x}
    <2>1. T # {}
      <3>1. Cardinality({}) = 0 /\ n + 1 # 0
        BY FS_EmptySet
      <3> QED
        BY <3>1
    <2>2. x \in T /\ R \in SUBSET S
      BY <2>1
    <2>3. Cardinality(R) = n
      BY <1>1, <2>2, TakeOne
    <2>4. it[R] \in Int /\ low * n <= it[R] /\ it[R] <= high * n
      BY <1>3, <2>2, <2>3
    <2>5. it[T] = val[x] + it[R]
      BY <2>1
    <2>6. val[x] \in Int /\ low <= val[x] /\ val[x] <= high
      BY <2>2
    <2>7. low * (n + 1) = low * n + low /\ high * (n + 1) = high * n + high
      OBVIOUS
    <2>8. low * n \in Int /\ high * n \in Int
      OBVIOUS
    <2> HIDE DEF x, R
    <2> QED
      BY <2>4, <2>5, <2>6, <2>7, <2>8
  <1> HIDE DEF N
  <1>4. Cardinality(S) \in N
    BY <1>1, <1>2, <1>3, InductionOnSet
  <1> QED
    BY <1>4 DEF N

(* The sum over a set, as MapThenSumSet of FiniteSetsExt unfolds.          *)
SumOver(S, val) ==
  (CHOOSE it : it = [T \in SUBSET S |->
      IF T = {} THEN 0
      ELSE val[CHOOSE x \in T : TRUE] + it[T \ {CHOOSE x \in T : TRUE}]])[S]

LEMMA SumOverBetween ==
  ASSUME NEW S, IsFiniteSet(S), NEW val \in [S -> Int], NEW low \in Int, NEW high \in Int,
         Within(val, S, low, high)
  PROVE  /\ SumOver(S, val) \in Int
         /\ low * Cardinality(S) <= SumOver(S, val)
         /\ SumOver(S, val) <= high * Cardinality(S)
  <1> DEFINE pick == [T \in SUBSET S |-> CHOOSE x \in T : TRUE]
             step == [p \in S \X Int |-> val[p[1]] + p[2]]
             IsSum(it) == it = [T \in SUBSET S |->
                             IF T = {} THEN 0
                             ELSE val[CHOOSE x \in T : TRUE] + it[T \ {CHOOSE x \in T : TRUE}]]
  <1>1. Picks(pick, S)
    BY DEF Picks
  <1>2. step \in [S \X Int -> Int]
    OBVIOUS
  <1>3. \A x \in S : \A v \in Int : step[<<x, v>>] = val[x] + v
    OBVIOUS
  <1>4. \E it : IsSum(it)
    <2> DEFINE V == Int
               zero == 0
    <2>4. zero \in V /\ step \in [S \X V -> V]
      BY <1>2
    <2> HIDE DEF pick, step, V, zero
    <2>5. \E it \in [SUBSET S -> V] : Folds(it, S, zero, step, pick)
      BY <1>1, <2>4, FoldExists
    <2>0. PICK it \in [SUBSET S -> Int] : Folds(it, S, 0, step, pick)
      BY <2>5 DEF V, zero
    <2>1. \A T \in SUBSET S :
             it[T] = IF T = {} THEN 0 ELSE step[<<pick[T], it[T \ {pick[T]}]>>]
      BY <2>0 DEF Folds
    <2>2. ASSUME NEW T \in SUBSET S
          PROVE  it[T] = IF T = {} THEN 0
                         ELSE val[CHOOSE x \in T : TRUE] + it[T \ {CHOOSE x \in T : TRUE}]
      <3>1. CASE T = {}
        BY <2>1, <3>1
      <3>2. CASE T # {}
        <4>1. pick[T] = CHOOSE x \in T : TRUE
          BY DEF pick
        <4>2. pick[T] \in S /\ it[T \ {pick[T]}] \in Int
          BY <1>1, <2>0, <3>2 DEF Picks
        <4>3. it[T] = val[pick[T]] + it[T \ {pick[T]}]
          BY <1>3, <2>1, <3>2, <4>2
        <4> QED
          BY <3>2, <4>1, <4>3
      <3> QED
        BY <3>1, <3>2
    <2> QED
      BY <2>2
  <1> DEFINE it == CHOOSE it : IsSum(it)
  <1>5. IsSum(it)
    BY <1>4
  <1>6. SumOver(S, val) = it[S]
    BY DEF SumOver
  <1> HIDE DEF it
  <1>7. Sums(it, S, val, pick)
    BY <1>5 DEF Sums
  <1> HIDE DEF pick
  <1> QED
    BY <1>1, <1>6, <1>7, SumBetween

(* In a finite set that is strictly ordered, every rank is taken.          *)
StrictlyOrders(before, S) ==
  /\ \A x \in S : <<x, x>> \notin before
  /\ \A x, y, z \in S : <<x, y>> \in before /\ <<y, z>> \in before => <<x, z>> \in before
  /\ \A x, y \in S : x = y \/ <<x, y>> \in before \/ <<y, x>> \in before
RankBy(before, S, x) == Cardinality({y \in S : <<y, x>> \in before}) + 1

LEMMA EveryRankTaken ==
  ASSUME NEW S, IsFiniteSet(S), NEW before, StrictlyOrders(before, S)
  PROVE  /\ Cardinality(S) \in Nat
         /\ \A x \in S : RankBy(before, S, x) \in 1 .. Cardinality(S)
         /\ \A x, y \in S : <<x, y>> \in before => RankBy(before, S, x) < RankBy(before, S, y)
         /\ \A n \in 1 .. Cardinality(S) : \E x \in S : RankBy(before, S, x) = n
  <1> USE DEF StrictlyOrders
  <1> DEFINE Before(x) == {y \in S : <<y, x>> \in before}
             k == Cardinality(S)
             rank == [x \in S |-> Cardinality(Before(x)) + 1]
  <1>1. k \in Nat
    BY FS_CardinalityType
  <1>2. ASSUME NEW x \in S
        PROVE  /\ IsFiniteSet(Before(x)) /\ Cardinality(Before(x)) \in Nat
               /\ Cardinality(Before(x)) + 1 \in 1 .. k
    <2>1. Before(x) \in SUBSET (S \ {x})
      OBVIOUS
    <2>2. IsFiniteSet(S \ {x}) /\ Cardinality(S \ {x}) + 1 = k
      BY TakeOne
    <2>3. IsFiniteSet(Before(x)) /\ Cardinality(Before(x)) <= Cardinality(S \ {x})
      BY <2>1, <2>2, FS_Subset
    <2>4. Cardinality(Before(x)) \in Nat /\ Cardinality(S \ {x}) \in Nat
      BY <2>2, <2>3, FS_CardinalityType
    <2> HIDE DEF Before, k
    <2> QED
      BY <1>1, <2>2, <2>3, <2>4
  <1>3. ASSUME NEW x \in S, NEW y \in S, <<x, y>> \in before
        PROVE  rank[x] < rank[y]
    <2>1. Before(x) \in SUBSET Before(y) /\ x \in Before(y) /\ x \notin Before(x)
      BY <1>3
    <2>2. Cardinality(Before(x)) <= Cardinality(Before(y)) /\
          Cardinality(Before(x)) # Cardinality(Before(y))
      <3> HIDE DEF Before
      <3> QED
        BY <1>2, <2>1, FS_Subset
    <2> HIDE DEF Before
    <2> QED
      BY <1>2, <2>2
  <1>4. rank \in [S -> 1 .. k]
    BY <1>2
  <1>5. \A x, y \in S : x # y => rank[x] # rank[y]
    <2> HIDE DEF rank, k
    <2> SUFFICES ASSUME NEW x \in S, NEW y \in S, x # y PROVE rank[x] # rank[y]
      OBVIOUS
    <2>1. rank[x] \in 1 .. k /\ rank[y] \in 1 .. k
      BY <1>4
    <2>2. rank[x] < rank[y] \/ rank[y] < rank[x]
      BY <1>3
    <2> QED
      BY <1>1, <2>1, <2>2
  <1>10. \A x \in S : rank[x] = RankBy(before, S, x)
    BY DEF RankBy
  <1> HIDE DEF rank, k
  <1>6. rank \in Injection(S, 1 .. k)
    BY <1>4, <1>5 DEF Injection, IsInjective
  <1>7. IsFiniteSet(1 .. k) /\ Cardinality(1 .. k) = k
    BY <1>1, FS_Interval
  <1>8. rank \in Surjection(S, 1 .. k)
    BY <1>6, <1>7, FS_Injection DEF k
  <1>9. \A n \in 1 .. k : \E x \in S : rank[x] = n
    BY <1>8 DEF Surjection
  <1> QED
    BY <1>1, <1>3, <1>4, <1>9, <1>10 DEF k
=============================================================================
