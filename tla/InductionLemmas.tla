--------------------------- MODULE InductionLemmas ---------------------------
(***************************************************************************)
(* Induction and recursion over the natural numbers, stated for sets and    *)
(* functions: what the proofs of the other modules need to know about the   *)
(* recursive functions of the models.                                       *)
(***************************************************************************)
EXTENDS Sums, FiniteSetTheorems, TLAPS

(* A non-empty set of natural numbers has a least element.                  *)
LEMMA LeastElement ==
  ASSUME NEW T \in SUBSET Nat, T # {}
  PROVE  \E m \in T : \A k \in T : m <= k
<1> DEFINE R == OpToRel(<, Nat)
<1>1. IsWellFoundedOn(R, Nat)
  BY NatLessThanWellFounded, Zenon
<1>2. \A x, y \in Nat : x < y => <<x, y>> \in R
  BY Zenon DEF OpToRel
<1> HIDE DEF R
<1>3. PICK m \in T : \A y \in T : ~ (<<y, m>> \in R)
  BY <1>1, WFMin
<1>4. \A y \in T : ~ (y < m)
  BY <1>2, <1>3
<1> QED
  BY <1>4

(* Induction: a set that holds 0 and the successor of each of its naturals  *)
(* holds every natural.                                                     *)
LEMMA SetInduction ==
  ASSUME NEW S, 0 \in S, \A n \in Nat : n \in S => n + 1 \in S
  PROVE  \A n \in Nat : n \in S
<1> SUFFICES ASSUME Nat \ S # {} PROVE FALSE
  OBVIOUS
<1>1. PICK m \in Nat \ S : \A k \in Nat \ S : m <= k
  BY LeastElement
<1>2. m # 0 /\ m - 1 \in Nat
  BY <1>1
<1>3. m - 1 \in S
  BY <1>1, <1>2
<1> QED
  BY <1>1, <1>2, <1>3

(* f obeys the recurrence D up to n.                                        *)
Follows(f, D, n) == \A i \in 0 .. n - 1 : f[i + 1] = D[i][f[i]]

(* Two functions that start alike and follow one recurrence are equal.      *)
LEMMA RecursionUnique ==
  ASSUME NEW D, NEW n \in Nat, NEW f, NEW g, f[0] = g[0],
         Follows(f, D, n), Follows(g, D, n)
  PROVE  \A i \in 0 .. n : f[i] = g[i]
<1> DEFINE S == {i \in Nat : i <= n => f[i] = g[i]}
<1>1. 0 \in S
  OBVIOUS
<1>2. ASSUME NEW i \in Nat, i \in S PROVE i + 1 \in S
  <2>1. CASE i + 1 <= n
    <3>1. f[i] = g[i] /\ i \in 0 .. n - 1
      BY <1>2, <2>1
    <3>2. f[i + 1] = g[i + 1]
      BY <3>1 DEF Follows
    <3> QED
      BY <3>2
  <2>2. CASE ~(i + 1 <= n)
    BY <2>2
  <2> QED
    BY <2>1, <2>2
<1> HIDE DEF S
<1>3. \A i \in Nat : i \in S
  BY <1>1, <1>2, SetInduction
<1> QED
  BY <1>3 DEF S

(* D gives from each value in V the next one, and v0 is the first.          *)
Recurrence(V, v0, D) == v0 \in V /\ D \in [Nat -> [V -> V]]

Solvable(V, v0, D) ==
  \E f \in [Nat -> V] : f[0] = v0 /\ \A n \in Nat : f[n + 1] = D[n][f[n]]

(* Primitive recursion: every recurrence has a solution.                    *)
LEMMA RecursionExists ==
  ASSUME NEW V, NEW v0, NEW D, Recurrence(V, v0, D)
  PROVE  Solvable(V, v0, D)
<1> USE DEF Recurrence
<1> DEFINE Solves(f, n) == f[0] = v0 /\ Follows(f, D, n)
           S == {n \in Nat : \E f \in [0 .. n -> V] : Solves(f, n)}
<1>1. 0 \in S
  <2>1. [i \in 0 .. 0 |-> v0] \in [0 .. 0 -> V] /\ Solves([i \in 0 .. 0 |-> v0], 0)
    BY DEF Follows
  <2> QED
    BY <2>1
<1>2. ASSUME NEW n \in Nat, n \in S PROVE n + 1 \in S
  <2>1. PICK f \in [0 .. n -> V] : Solves(f, n)
    BY <1>2
  <2> DEFINE g == [i \in 0 .. n + 1 |-> IF i = n + 1 THEN D[n][f[n]] ELSE f[i]]
  <2>2. D[n][f[n]] \in V
    <3>1. f[n] \in V
      OBVIOUS
    <3> QED
      BY <3>1
  <2>3. g \in [0 .. n + 1 -> V]
    BY <2>2
  <2>4. g[0] = v0
    BY <2>1
  <2>5. ASSUME NEW i \in 0 .. n PROVE g[i + 1] = D[i][g[i]]
    <3>1. CASE i = n
      <4>1. g[n + 1] = D[n][f[n]] /\ g[n] = f[n]
        OBVIOUS
      <4> QED
        BY <3>1, <4>1
    <3>2. CASE i < n
      <4>1. i \in 0 .. n - 1 /\ i + 1 \in 0 .. n
        BY <3>2
      <4>2. f[i + 1] = D[i][f[i]]
        BY <4>1, <2>1 DEF Follows
      <4>3. g[i + 1] = f[i + 1] /\ g[i] = f[i]
        BY <4>1
      <4> QED
        BY <4>2, <4>3
    <3> QED
      BY <3>1, <3>2
  <2> HIDE DEF g
  <2>6. Solves(g, n + 1)
    BY <2>4, <2>5 DEF Follows
  <2> HIDE DEF Solves
  <2> QED
    BY <2>3, <2>6
<1>3. \A n \in Nat : \E f \in [0 .. n -> V] : Solves(f, n)
  <2> HIDE DEF S
  <2>1. \A n \in Nat : n \in S
    BY <1>1, <1>2, SetInduction
  <2> QED
    BY <2>1 DEF S
<1> DEFINE h == [n \in Nat |-> CHOOSE f \in [0 .. n -> V] : Solves(f, n)]
<1>4. \A n \in Nat : h[n] \in [0 .. n -> V] /\ Solves(h[n], n)
  <2> HIDE DEF Solves
  <2> QED
    BY <1>3
<1> HIDE DEF h
<1>5. \A n \in Nat : h[n + 1][n] = h[n][n]
  <2> TAKE n \in Nat
  <2> DEFINE f == h[n]
             g == h[n + 1]
  <2>1. f[0] = g[0] /\ Follows(f, D, n)
    BY <1>4
  <2>2. Follows(g, D, n)
    BY <1>4 DEF Follows
  <2> HIDE DEF f, g
  <2>3. \A i \in 0 .. n : f[i] = g[i]
    BY <2>1, <2>2, RecursionUnique
  <2> QED
    BY <2>3 DEF f, g
<1> DEFINE F == [n \in Nat |-> h[n][n]]
<1>6. F \in [Nat -> V]
  BY <1>4
<1>7. F[0] = v0
  BY <1>4
<1>8. ASSUME NEW n \in Nat PROVE F[n + 1] = D[n][F[n]]
  <2>1. h[n + 1][n + 1] = D[n][h[n + 1][n]]
    BY <1>4 DEF Follows
  <2> QED
    BY <2>1, <1>5
<1> QED
  BY <1>6, <1>7, <1>8 DEF Solvable

-----------------------------------------------------------------------------
(* Sums (module Sums).  Numbers(f, a, b): f is a number at each of the      *)
(* places that SumBetween(f, a, b) adds up.                                 *)
Numbers(f, a, b) == a \in Int /\ b \in Int /\ a <= b /\ \A k \in a + 1 .. b : f[k] \in Int

IsSum(s, f, a, b) ==
  s = [k \in a .. b |-> IF k = a THEN 0 ELSE s[k - 1] + f[k]]

(* The recursive function in SumBetween is well defined.                    *)
LEMMA SumExists ==
  ASSUME NEW f, NEW a, NEW b, Numbers(f, a, b)
  PROVE  \E s : IsSum(s, f, a, b)
<1> USE DEF Numbers
<1> DEFINE g == [n \in Nat |-> IF a + n + 1 <= b THEN f[a + n + 1] ELSE 0]
           D == [n \in Nat |-> [v \in Int |-> v + g[n]]]
<1>1. g \in [Nat -> Int]
  <2>1. ASSUME NEW n \in Nat PROVE g[n] \in Int
    <3>1. CASE a + n + 1 <= b
      <4>1. a + n + 1 \in a + 1 .. b
        BY <3>1
      <4> QED
        BY <3>1, <4>1
    <3>2. CASE ~(a + n + 1 <= b)
      BY <3>2
    <3> QED
      BY <3>1, <3>2
  <2> QED
    BY <2>1
<1> HIDE DEF g
<1>2. D \in [Nat -> [Int -> Int]]
  BY <1>1
<1>3. PICK F \in [Nat -> Int] : F[0] = 0 /\ \A n \in Nat : F[n + 1] = D[n][F[n]]
  <2> HIDE DEF D
  <2>1. Recurrence(Int, 0, D)
    BY <1>2 DEF Recurrence
  <2> QED
    BY <2>1, RecursionExists DEF Solvable
<1>4. \A n \in Nat : F[n + 1] = F[n] + g[n]
  BY <1>3
<1> HIDE DEF D
<1> DEFINE s == [k \in a .. b |-> F[k - a]]
<1>5. ASSUME NEW k \in a .. b PROVE s[k] = IF k = a THEN 0 ELSE s[k - 1] + f[k]
  <2>1. CASE k = a
    <3>1. k - a = 0
      BY <2>1
    <3> QED
      BY <2>1, <3>1, <1>3
  <2>2. CASE k # a
    <3>1. /\ k - 1 \in a .. b /\ (k - 1) - a \in Nat /\ ((k - 1) - a) + 1 = k - a
          /\ a + ((k - 1) - a) + 1 = k
      BY <2>2
    <3>2. F[k - a] = F[(k - 1) - a] + g[(k - 1) - a]
      BY <3>1, <1>4
    <3>3. g[(k - 1) - a] = f[k]
      BY <3>1 DEF g
    <3> QED
      BY <2>2, <3>1, <3>2, <3>3
  <2> QED
    BY <2>1, <2>2
<1>6. IsSum(s, f, a, b)
  BY <1>5 DEF IsSum
<1> QED
  BY <1>6

(* So it satisfies its equation, and every partial sum is a number.         *)
LEMMA SumEquation ==
  ASSUME NEW f, NEW a, NEW b, Numbers(f, a, b)
  PROVE  \E s \in [a .. b -> Int] : SumBetween(f, a, b) = s[b] /\ IsSum(s, f, a, b)
<1> DEFINE s == CHOOSE t : IsSum(t, f, a, b)
<1>1. IsSum(s, f, a, b)
  BY SumExists
<1>2. SumBetween(f, a, b) = s[b]
  BY DEF SumBetween, IsSum
<1> HIDE DEF s
<1> DEFINE S == {n \in Nat : a + n <= b => s[a + n] \in Int}
<1>3. 0 \in S
  <2>1. s[a] = 0
    BY <1>1 DEF IsSum, Numbers
  <2> QED
    BY <2>1 DEF Numbers
<1>4. ASSUME NEW n \in Nat, n \in S PROVE n + 1 \in S
  <2>1. ASSUME a + (n + 1) <= b PROVE s[a + (n + 1)] \in Int
    <3>1. /\ a + (n + 1) \in a .. b /\ a + (n + 1) # a /\ (a + (n + 1)) - 1 = a + n
          /\ a + (n + 1) \in a + 1 .. b /\ a + n <= b
      BY <2>1 DEF Numbers
    <3>2. s[a + (n + 1)] = s[a + n] + f[a + (n + 1)]
      BY <1>1, <3>1 DEF IsSum
    <3>3. s[a + n] \in Int /\ f[a + (n + 1)] \in Int
      BY <1>4, <3>1 DEF Numbers
    <3> QED
      BY <3>2, <3>3
  <2> QED
    BY <2>1
<1>5. \A n \in Nat : n \in S
  <2> HIDE DEF S
  <2> QED
    BY <1>3, <1>4, SetInduction
<1>6. ASSUME NEW k \in a .. b PROVE s[k] \in Int
  <2>1. k - a \in Nat /\ a + (k - a) = k /\ k <= b
    BY DEF Numbers
  <2>2. k - a \in S
    BY <2>1, <1>5
  <2> QED
    BY <2>1, <2>2
<1>7. s \in [a .. b -> Int]
  BY <1>1, <1>6 DEF IsSum
<1> QED
  BY <1>1, <1>2, <1>7

(* Two sums of functions that agree between a and b are equal, also when    *)
(* one of them goes on to c.                                                *)
LEMMA SumAgree ==
  ASSUME NEW f, NEW g, NEW a, NEW b, NEW c, NEW s, NEW t,
         Numbers(f, a, b), c \in Int, b <= c, IsSum(s, f, a, b), IsSum(t, g, a, c),
         \A k \in a + 1 .. b : f[k] = g[k]
  PROVE  s[b] = t[b]
<1> USE DEF Numbers
<1> DEFINE S == {n \in Nat : a + n <= b => s[a + n] = t[a + n]}
<1>1. 0 \in S
  <2>1. s[a] = 0 /\ t[a] = 0
    BY DEF IsSum
  <2> QED
    BY <2>1
<1>2. ASSUME NEW n \in Nat, n \in S PROVE n + 1 \in S
  <2>1. ASSUME a + (n + 1) <= b PROVE s[a + (n + 1)] = t[a + (n + 1)]
    <3>1. /\ a + (n + 1) \in a .. b /\ a + (n + 1) # a /\ (a + (n + 1)) - 1 = a + n
          /\ a + (n + 1) \in a + 1 .. b /\ a + n <= b /\ a + (n + 1) \in a .. c
      BY <2>1
    <3>2. s[a + (n + 1)] = s[a + n] + f[a + (n + 1)]
      BY <3>1 DEF IsSum
    <3>3. t[a + (n + 1)] = t[a + n] + g[a + (n + 1)]
      BY <3>1 DEF IsSum
    <3>4. s[a + n] = t[a + n] /\ f[a + (n + 1)] = g[a + (n + 1)]
      BY <1>2, <3>1
    <3> QED
      BY <3>2, <3>3, <3>4
  <2> QED
    BY <2>1
<1>3. \A n \in Nat : n \in S
  <2> HIDE DEF S
  <2> QED
    BY <1>1, <1>2, SetInduction
<1>4. b - a \in Nat /\ a + (b - a) = b
  OBVIOUS
<1>5. b - a \in S
  BY <1>3, <1>4
<1> QED
  BY <1>4, <1>5

(* A sum of numbers is a number.                                            *)
LEMMA SumType ==
  ASSUME NEW f, NEW a, NEW b, Numbers(f, a, b)
  PROVE  SumBetween(f, a, b) \in Int
<1>1. PICK s \in [a .. b -> Int] : SumBetween(f, a, b) = s[b]
  BY SumEquation
<1> QED
  BY <1>1 DEF Numbers

(* The empty sum.                                                           *)
LEMMA SumEmpty ==
  ASSUME NEW f, NEW a \in Int
  PROVE  SumBetween(f, a, a) = 0
<1>1. Numbers(f, a, a)
  BY DEF Numbers
<1>2. PICK s : SumBetween(f, a, a) = s[a] /\ IsSum(s, f, a, a)
  BY <1>1, SumEquation
<1> QED
  BY <1>2 DEF IsSum

(* One number more.                                                         *)
LEMMA SumNext ==
  ASSUME NEW f, NEW a, NEW b, Numbers(f, a, b + 1), b \in Int, a <= b
  PROVE  /\ SumBetween(f, a, b) \in Int /\ Numbers(f, a, b)
         /\ SumBetween(f, a, b + 1) = SumBetween(f, a, b) + f[b + 1]
<1>1. Numbers(f, a, b) /\ f[b + 1] \in Int
  BY DEF Numbers
<1>2. PICK s : SumBetween(f, a, b) = s[b] /\ IsSum(s, f, a, b)
  BY <1>1, SumEquation
<1>3. PICK t : SumBetween(f, a, b + 1) = t[b + 1] /\ IsSum(t, f, a, b + 1)
  BY SumEquation
<1>4. s[b] = t[b]
  <2> DEFINE c == b + 1
  <2>1. c \in Int /\ b <= c /\ IsSum(t, f, a, c)
    BY <1>3
  <2> HIDE DEF c
  <2> QED
    BY <1>1, <1>2, <2>1, SumAgree
<1>5. t[b + 1] = t[b] + f[b + 1]
  <2>1. b + 1 \in a .. b + 1 /\ b + 1 # a /\ (b + 1) - 1 = b
    BY <1>1 DEF Numbers
  <2> QED
    BY <1>3, <2>1 DEF IsSum
<1>6. SumBetween(f, a, b) \in Int
  BY <1>1, SumType
<1> QED
  BY <1>1, <1>2, <1>3, <1>4, <1>5, <1>6

(* A sum is that of any function with the same values.                      *)
LEMMA SumSame ==
  ASSUME NEW f, NEW g, NEW a, NEW b, Numbers(f, a, b), \A k \in a + 1 .. b : f[k] = g[k]
  PROVE  SumBetween(f, a, b) = SumBetween(g, a, b)
<1>1. Numbers(g, a, b) /\ b \in Int /\ b <= b
  BY DEF Numbers
<1>2. PICK s : SumBetween(f, a, b) = s[b] /\ IsSum(s, f, a, b)
  BY SumEquation
<1>3. PICK t : SumBetween(g, a, b) = t[b] /\ IsSum(t, g, a, b)
  BY <1>1, SumEquation
<1> QED
  BY <1>1, <1>2, <1>3, SumAgree

(* A bounded set of natural numbers has a greatest element.                 *)
LEMMA GreatestElement ==
  ASSUME NEW T \in SUBSET Nat, T # {}, NEW n \in Nat, \A k \in T : k <= n
  PROVE  \E m \in T : \A k \in T : m >= k
<1> DEFINE U == {n - k : k \in T}
<1>1. U \in SUBSET Nat /\ U # {}
  <2>1. \A k \in T : n - k \in Nat
    OBVIOUS
  <2> QED
    BY <2>1
<1> HIDE DEF U
<1>2. PICK u \in U : \A v \in U : u <= v
  BY <1>1, LeastElement
<1>3. PICK m \in T : u = n - m
  BY <1>2 DEF U
<1>4. \A k \in T : n - m <= n - k
  BY <1>2, <1>3 DEF U
<1>5. \A k \in T : m >= k
  BY <1>3, <1>4
<1> QED
  BY <1>3, <1>5

(* h counts how often c takes each of the values 0 .. m.                    *)
Histogram(h, c, I, m) == \A b \in 0 .. m : h[b] = Cardinality({i \in I : c[i] = b})

(* What a histogram h of the values of c counts up to b.                    *)
LEMMA SumCounts ==
  ASSUME NEW I, IsFiniteSet(I), NEW c \in [I -> Nat], NEW m \in Nat, NEW h,
         Histogram(h, c, I, m)
  PROVE  \A b \in 0 .. m : SumBetween(h, -1, b) = Cardinality({i \in I : c[i] <= b})
<1> DEFINE Here(b) == {i \in I : c[i] = b}
           Upto(b) == {i \in I : c[i] <= b}
<1>1. ASSUME NEW b \in Nat
      PROVE  /\ IsFiniteSet(Here(b)) /\ Cardinality(Here(b)) \in Nat
             /\ IsFiniteSet(Upto(b)) /\ Cardinality(Upto(b)) \in Nat
  <2>1. Here(b) \in SUBSET I /\ Upto(b) \in SUBSET I
    OBVIOUS
  <2> HIDE DEF Here, Upto
  <2>2. IsFiniteSet(Here(b)) /\ IsFiniteSet(Upto(b))
    BY <2>1, FS_Subset
  <2> QED
    BY <2>2, FS_CardinalityType
<1>2. ASSUME NEW b \in 0 .. m PROVE h[b] = Cardinality(Here(b)) /\ h[b] \in Nat
  <2>1. h[b] = Cardinality(Here(b)) /\ b \in Nat
    BY DEF Histogram
  <2> HIDE DEF Here
  <2> QED
    BY <1>1, <2>1
<1>3. ASSUME NEW b \in 0 .. m PROVE Numbers(h, -1, b)
  <2>1. ASSUME NEW k \in -1 + 1 .. b PROVE h[k] \in Int
    <3>1. k \in 0 .. m
      OBVIOUS
    <3>2. h[k] \in Nat
      BY <1>2, <3>1
    <3> QED
      BY <3>2
  <2> QED
    BY <2>1 DEF Numbers
<1> DEFINE S == {b \in Nat : b <= m => SumBetween(h, -1, b) = Cardinality(Upto(b))}
<1>4. 0 \in S
  <2>1. Numbers(h, -1, -1 + 1)
    BY <1>3
  <2>2. SumBetween(h, -1, -1 + 1) = SumBetween(h, -1, -1) + h[-1 + 1]
    <3> DEFINE z == -1
    <3>1. Numbers(h, -1, z + 1) /\ z \in Int /\ -1 <= z
      BY <2>1
    <3> HIDE DEF z
    <3>2. SumBetween(h, -1, z + 1) = SumBetween(h, -1, z) + h[z + 1]
      BY <3>1, SumNext
    <3> QED
      BY <3>2 DEF z
  <2>3. SumBetween(h, -1, -1) = 0
    BY SumEmpty
  <2>4. -1 + 1 = 0 /\ 0 \in 0 .. m
    OBVIOUS
  <2>5. SumBetween(h, -1, 0) = h[0]
    <3>1. h[0] \in Nat
      BY <1>2, <2>4
    <3>2. SumBetween(h, -1, 0) = 0 + h[0]
      BY <2>2, <2>3, <2>4, Zenon
    <3> QED
      BY <3>1, <3>2
  <2>6. Upto(0) = Here(0)
    OBVIOUS
  <2> QED
    BY <1>2, <2>4, <2>5, <2>6
<1>5. ASSUME NEW b \in Nat, b \in S PROVE b + 1 \in S
  <2>1. ASSUME b + 1 <= m PROVE SumBetween(h, -1, b + 1) = Cardinality(Upto(b + 1))
    <3>1. b + 1 \in 0 .. m /\ b \in 0 .. m /\ b \in Int /\ -1 <= b /\ b + 1 \in Nat
      BY <2>1
    <3>2. Numbers(h, -1, b + 1)
      BY <1>3, <3>1
    <3>3. SumBetween(h, -1, b + 1) = SumBetween(h, -1, b) + h[b + 1]
      BY <3>1, <3>2, SumNext
    <3>4. SumBetween(h, -1, b) = Cardinality(Upto(b)) /\ h[b + 1] = Cardinality(Here(b + 1))
      BY <1>2, <1>5, <3>1
    <3>5. Upto(b + 1) = Upto(b) \cup Here(b + 1) /\ Upto(b) \cap Here(b + 1) = {}
      BY <3>1
    <3>6. /\ IsFiniteSet(Upto(b)) /\ IsFiniteSet(Here(b + 1))
          /\ Cardinality(Upto(b)) \in Nat /\ Cardinality(Here(b + 1)) \in Nat
      BY <1>1, <3>1
    <3> HIDE DEF Upto, Here
    <3>7. Cardinality(Upto(b) \cup Here(b + 1))
            = Cardinality(Upto(b)) + Cardinality(Here(b + 1)) - Cardinality({})
      <4> DEFINE X == Upto(b)
                 Y == Here(b + 1)
      <4>1. IsFiniteSet(X) /\ IsFiniteSet(Y) /\ X \cap Y = {}
        BY <3>5, <3>6
      <4> HIDE DEF X, Y
      <4>2. Cardinality(X \cup Y) = Cardinality(X) + Cardinality(Y) - Cardinality(X \cap Y)
        BY <4>1, FS_Union
      <4> QED
        BY <4>1, <4>2 DEF X, Y
    <3>8. Cardinality({}) = 0
      BY FS_EmptySet
    <3>9. Cardinality(Upto(b + 1)) = Cardinality(Upto(b)) + Cardinality(Here(b + 1))
      <4>1. Cardinality(Upto(b + 1)) = Cardinality(Upto(b)) + Cardinality(Here(b + 1)) - 0
        BY <3>5, <3>7, <3>8, Zenon
      <4> QED
        BY <3>6, <4>1
    <3> QED
      BY <3>3, <3>4, <3>9
  <2> QED
    BY <2>1
<1>6. \A b \in Nat : b \in S
  <2> HIDE DEF S
  <2> QED
    BY <1>4, <1>5, SetInduction
<1> QED
  BY <1>6
=============================================================================
