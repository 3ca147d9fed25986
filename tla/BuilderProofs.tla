---------------------------- MODULE BuilderProofs ----------------------------
(***************************************************************************)
(* The builder, for any configurations, tasks, priorities and capacities   *)
(* and any order of the calls, failed builds and resets: the dispatch      *)
(* order of a built system, that each of its tasks is ticked once, and     *)
(* that it is wired with what this builder was given.                      *)
(***************************************************************************)
EXTENDS SystemBuilder, InductionLemmas, SequenceTheorems, TLAPS

-----------------------------------------------------------------------------
(* The sort.  Priorities are numbers.                                       *)
LEMMA PriorityType == ASSUME NEW t \in Task PROVE EffectivePriority(t) \in Nat
<1>1. \A p \in Nat : RateBand(p) \in Nat
  BY DEF RateBand
<1>2. CASE t \in KernelTask
  BY <1>2 DEF EffectivePriority, KernelTask, Control, Comms
<1>3. CASE t \notin KernelTask
  <2>1. Attr[t] \in [period : Nat, priority : 0 .. 255, wcet : Nat, deps : BOOLEAN]
    BY <1>3, BuilderAssumption DEF Task
  <2>2. Attr[t].period \in Nat /\ Attr[t].priority \in Nat
    BY <2>1
  <2> QED
    BY <1>1, <1>3, <2>2 DEF EffectivePriority, KernelTask
<1> QED
  BY <1>2, <1>3

LEMMA FirstNumbers ==
  ASSUME NEW n \in Nat PROVE IsFiniteSet(1 .. n) /\ Cardinality(1 .. n) = n
BY FS_Interval

(* How many tasks of a list stand before the place of a new one.            *)
Before(list, t) ==
  {i \in 1 .. Len(list) : EffectivePriority(list[i]) <= EffectivePriority(t)}

LEMMA BeforeLemma ==
  ASSUME NEW list \in Seq(Task), NEW t \in Task
  PROVE  Cardinality(Before(list, t)) \in 0 .. Len(list)
<1>1. IsFiniteSet(1 .. Len(list)) /\ Cardinality(1 .. Len(list)) = Len(list)
  BY FirstNumbers
<1>2. Before(list, t) \subseteq 1 .. Len(list)
  BY DEF Before
<1>3. IsFiniteSet(Before(list, t)) /\ Cardinality(Before(list, t)) <= Len(list)
  BY <1>1, <1>2, FS_Subset
<1>4. Cardinality(Before(list, t)) \in Nat
  BY <1>3, FS_CardinalityType
<1> QED
  BY <1>3, <1>4

(* What an insertion behind place k does to the positions.                  *)
Inserted(new, list, k, t) ==
  /\ new \in Seq(Task) /\ Len(new) = Len(list) + 1
  /\ \A i \in 1 .. Len(list) + 1 :
       new[i] = IF i <= k THEN list[i] ELSE IF i = k + 1 THEN t ELSE list[i - 1]

LEMMA InsertLemma ==
  ASSUME NEW list \in Seq(Task), NEW k \in 0 .. Len(list), NEW t \in Task
  PROVE  Inserted(InsertAt(list, k + 1, t), list, k, t)
<1> DEFINE a == SubSeq(list, 1, k)
           b == SubSeq(list, k + 1, Len(list))
           m == a \o <<t>>
<1>1. InsertAt(list, k + 1, t) = m \o b
  <2>1. (k + 1) - 1 = k
    OBVIOUS
  <2> QED
    BY <2>1 DEF InsertAt
<1>2. a \in Seq(Task) /\ Len(a) = k /\ \A i \in 1 .. k : a[i] = list[i]
  OBVIOUS
<1>3. /\ b \in Seq(Task) /\ Len(b) = Len(list) - k
      /\ \A i \in 1 .. Len(list) - k : b[i] = list[k + i]
  OBVIOUS
<1> HIDE DEF a, b
<1>4. /\ m \in Seq(Task) /\ Len(m) = k + 1
      /\ \A i \in 1 .. k + 1 : m[i] = IF i <= k THEN a[i] ELSE t
  BY <1>2
<1> HIDE DEF m
<1> DEFINE r == m \o b
           n == Len(list)
<1>n. n \in Nat /\ k \in 0 .. n
  OBVIOUS
<1>5. r \in Seq(Task) /\ Len(r) = n + 1
  <2>1. r \in Seq(Task) /\ Len(r) = Len(m) + Len(b)
    BY <1>3, <1>4, ConcatProperties
  <2> QED
    BY <2>1, <1>n, <1>3, <1>4
<1>7. \A i \in 1 .. n + 1 : r[i] = IF i <= k + 1 THEN m[i] ELSE b[i - (k + 1)]
  <2>1. \A i \in 1 .. Len(m) + Len(b) : r[i] = IF i <= Len(m) THEN m[i] ELSE b[i - Len(m)]
    BY <1>3, <1>4
  <2>2. Len(m) + Len(b) = n + 1 /\ Len(m) = k + 1
    BY <1>3, <1>4, <1>n
  <2> QED
    BY <2>1, <2>2
<1>8. /\ \A i \in 1 .. k : a[i] = list[i]
      /\ \A i \in 1 .. n - k : b[i] = list[k + i]
      /\ InsertAt(list, k + 1, t) = r
  BY <1>1, <1>2, <1>3
<1> HIDE DEF r, n
<1>6. ASSUME NEW i \in 1 .. n + 1
      PROVE  r[i] = IF i <= k THEN list[i] ELSE IF i = k + 1 THEN t ELSE list[i - 1]
  <2>1. CASE i <= k
    <3>1. i \in 1 .. k /\ i \in 1 .. k + 1
      BY <2>1
    <3> QED
      BY <2>1, <3>1, <1>8, <1>4, <1>7, <1>n
  <2>2. CASE i = k + 1
    BY <2>2, <1>4, <1>7, <1>n
  <2>3. CASE i > k + 1
    <3>1. i - (k + 1) \in 1 .. n - k /\ k + (i - (k + 1)) = i - 1 /\ ~(i <= k + 1)
      BY <2>3, <1>n
    <3>2. b[i - (k + 1)] = list[i - 1]
      BY <3>1, <1>8
    <3>3. ~(i <= k) /\ i # k + 1
      BY <2>3, <1>n
    <3> QED
      BY <3>1, <3>2, <3>3, <1>7
  <2> QED
    BY <2>1, <2>2, <2>3, <1>n
<1>9. Inserted(r, list, k, t)
  BY <1>5, <1>6 DEF n, Inserted
<1> QED
  BY <1>8, <1>9, Zenon

LEMMA InsertType ==
  ASSUME NEW list \in Seq(Task), NEW t \in Task PROVE InsertTask(list, t) \in Seq(Task)
BY BeforeLemma, InsertLemma DEF InsertTask, Before, Inserted

(* The recursive function of SortByPriority is well defined.                *)
IsSort(s, list) ==
  s = [k \in 0 .. Len(list) |-> IF k = 0 THEN <<>> ELSE InsertTask(s[k - 1], list[k])]

LEMMA SortEquation ==
  ASSUME NEW list \in Seq(Task)
  PROVE  \E s \in [0 .. Len(list) -> Seq(Task)] :
           IsSort(s, list) /\ SortByPriority(list) = s[Len(list)]
<1> DEFINE step == [n \in Nat |-> [v \in Seq(Task) |->
                      IF n + 1 <= Len(list) THEN InsertTask(v, list[n + 1]) ELSE v]]
<1>1. step \in [Nat -> [Seq(Task) -> Seq(Task)]]
  <2>1. ASSUME NEW n \in Nat, NEW v \in Seq(Task)
        PROVE  (IF n + 1 <= Len(list) THEN InsertTask(v, list[n + 1]) ELSE v) \in Seq(Task)
    <3>1. CASE n + 1 <= Len(list)
      <4>1. list[n + 1] \in Task
        BY <3>1
      <4> QED
        BY <3>1, <4>1, InsertType
    <3>2. CASE ~(n + 1 <= Len(list))
      BY <3>2
    <3> QED
      BY <3>1, <3>2
  <2> QED
    BY <2>1
<1>2. ASSUME NEW n \in Nat, NEW v \in Seq(Task), n + 1 <= Len(list)
      PROVE  step[n][v] = InsertTask(v, list[n + 1])
  BY <1>2
<1> HIDE DEF step
<1>3. Recurrence(Seq(Task), <<>>, step)
  BY <1>1 DEF Recurrence
<1>4. PICK F \in [Nat -> Seq(Task)] : F[0] = <<>> /\ \A n \in Nat : F[n + 1] = step[n][F[n]]
  <2>1. Solvable(Seq(Task), <<>>, step)
    BY <1>3, RecursionExists
  <2> QED
    BY <2>1, Zenon DEF Solvable
<1> DEFINE f == [k \in 0 .. Len(list) |-> F[k]]
<1>5. ASSUME NEW k \in 0 .. Len(list)
      PROVE  f[k] = IF k = 0 THEN <<>> ELSE InsertTask(f[k - 1], list[k])
  <2>1. CASE k = 0
    BY <2>1, <1>4
  <2>2. CASE k # 0
    <3>1. k - 1 \in Nat /\ (k - 1) + 1 = k /\ k <= Len(list) /\ k - 1 \in 0 .. Len(list)
      BY <2>2
    <3>2. F[k] = InsertTask(F[k - 1], list[k])
      BY <3>1, <1>4, <1>2
    <3> QED
      BY <2>2, <3>1, <3>2
  <2> QED
    BY <2>1, <2>2
<1>6. IsSort(f, list)
  <2> DEFINE g == [k \in 0 .. Len(list) |-> IF k = 0 THEN <<>> ELSE InsertTask(f[k - 1], list[k])]
  <2>1. \A k \in 0 .. Len(list) : f[k] = g[k]
    BY <1>5
  <2>2. f = g
    BY <2>1
  <2> QED
    BY <2>2 DEF IsSort
<1> DEFINE s == CHOOSE q : IsSort(q, list)
<1>7. IsSort(s, list)
  BY <1>6
<1>8. SortByPriority(list) = s[Len(list)]
  BY DEF SortByPriority, IsSort
<1> HIDE DEF s
<1> DEFINE S == {k \in Nat : k <= Len(list) => s[k] \in Seq(Task)}
<1>9. 0 \in S
  BY <1>7 DEF IsSort
<1>10. ASSUME NEW k \in Nat, k \in S PROVE k + 1 \in S
  <2>1. ASSUME k + 1 <= Len(list) PROVE s[k + 1] \in Seq(Task)
    <3>1. /\ k + 1 \in 0 .. Len(list) /\ k + 1 # 0 /\ (k + 1) - 1 = k /\ k <= Len(list)
          /\ list[k + 1] \in Task
      BY <2>1
    <3>2. s[k + 1] = InsertTask(s[k], list[k + 1])
      BY <3>1, <1>7 DEF IsSort
    <3>3. s[k] \in Seq(Task)
      BY <1>10, <3>1
    <3> QED
      BY <3>1, <3>2, <3>3, InsertType
  <2> QED
    BY <2>1
<1>11. \A k \in Nat : k \in S
  <2> HIDE DEF S
  <2> QED
    BY <1>9, <1>10, SetInduction
<1>12. s \in [0 .. Len(list) -> Seq(Task)]
  <2>1. \A k \in 0 .. Len(list) : s[k] \in Seq(Task)
    BY <1>11
  <2>2. s = [k \in 0 .. Len(list) |-> s[k]]
    BY <1>7 DEF IsSort
  <2> QED
    BY <2>1, <2>2
<1> QED
  BY <1>7, <1>8, <1>12

(* A list that is a stable arrangement of the first n tasks of another:     *)
(* from tells where each task came from.                                    *)
Stable(from, sorted, list, n) ==
  /\ sorted \in Seq(Task) /\ Len(sorted) = n /\ from \in [1 .. n -> 1 .. n]
  /\ \A i \in 1 .. n : sorted[i] = list[from[i]]
  /\ \A p \in 1 .. n : \E i \in 1 .. n : from[i] = p
  /\ \A i, j \in 1 .. n : i < j =>
       \/ EffectivePriority(sorted[i]) < EffectivePriority(sorted[j])
       \/ /\ EffectivePriority(sorted[i]) = EffectivePriority(sorted[j])
          /\ from[i] < from[j]

(* In a list in order of priority, the tasks of at most t's stand in front. *)
LEMMA FrontLemma ==
  ASSUME NEW sorted \in Seq(Task), NEW t \in Task,
         \A i, j \in 1 .. Len(sorted) : i < j =>
           EffectivePriority(sorted[i]) <= EffectivePriority(sorted[j])
  PROVE  \E k \in 0 .. Len(sorted) : k = Cardinality(Before(sorted, t)) /\ Before(sorted, t) = 1 .. k
<1> DEFINE n == Len(sorted)
           P(i) == EffectivePriority(sorted[i])
           q == EffectivePriority(t)
<1>0. n \in Nat /\ q \in Nat /\ \A i \in 1 .. n : P(i) \in Nat
  BY PriorityType
<1>1. \A i, j \in 1 .. n : i < j => P(i) <= P(j)
  OBVIOUS
<1>b. Before(sorted, t) = {i \in 1 .. n : P(i) <= q}
  BY DEF Before
<1> HIDE DEF n, P, q
<1> DEFINE behind == {i \in 1 .. n : ~(P(i) <= q)}
<1>2. CASE behind = {}
  <2>1. Before(sorted, t) = 1 .. n
    BY <1>2, <1>b
  <2>2. Cardinality(1 .. n) = n /\ n \in 0 .. n
    BY <1>0, FS_Interval
  <2> QED
    BY <2>1, <2>2 DEF n
<1>3. CASE behind # {}
  <2>1. behind \in SUBSET Nat
    BY <1>0
  <2>2. PICK m \in behind : \A i \in behind : m <= i
    BY <1>3, <2>1, LeastElement
  <2>3. m \in 1 .. n /\ ~(P(m) <= q)
    OBVIOUS
  <2>4. ASSUME NEW i \in 1 .. n PROVE P(i) <= q <=> i < m
    <3>1. CASE i < m
      <4>1. i \notin behind
        BY <3>1, <2>2, <2>3, <1>0
      <4> QED
        BY <3>1, <4>1
    <3>2. CASE i = m
      BY <3>2, <2>3
    <3>3. CASE i > m
      <4>1. P(m) <= P(i) /\ P(m) \in Nat /\ P(i) \in Nat
        BY <3>3, <2>3, <1>0, <1>1
      <4> QED
        BY <3>3, <4>1, <2>3, <1>0
    <3> QED
      BY <3>1, <3>2, <3>3, <2>3, <1>0
  <2>5. Before(sorted, t) = 1 .. m - 1
    BY <2>3, <2>4, <1>b, <1>0
  <2>6. m - 1 \in 0 .. n /\ m - 1 \in Nat
    BY <2>3, <1>0
  <2>7. Cardinality(1 .. m - 1) = m - 1
    BY <2>6, FS_Interval
  <2> QED
    BY <2>5, <2>6, <2>7 DEF n
<1> QED
  BY <1>2, <1>3

(* One round of the sort.                                                   *)
LEMMA RoundLemma ==
  ASSUME NEW list \in Seq(Task), NEW n \in Nat, n + 1 <= Len(list), NEW sorted, NEW from,
         Stable(from, sorted, list, n)
  PROVE  \E f : Stable(f, InsertTask(sorted, list[n + 1]), list, n + 1)
<1> DEFINE t == list[n + 1]
           P(x) == EffectivePriority(x)
<1>0. t \in Task /\ sorted \in Seq(Task) /\ Len(sorted) = n /\ P(t) \in Nat
  BY PriorityType DEF Stable
<1>1. \A i \in 1 .. n : sorted[i] \in Task /\ P(sorted[i]) \in Nat
  BY <1>0, PriorityType
<1>2. \A i, j \in 1 .. n : i < j => P(sorted[i]) <= P(sorted[j])
  <2>1. \A i, j \in 1 .. n : i < j => P(sorted[i]) < P(sorted[j]) \/ P(sorted[i]) = P(sorted[j])
    BY DEF Stable
  <2> HIDE DEF P
  <2> QED
    BY <1>1, <2>1
<1>3. PICK k \in 0 .. n : k = Cardinality(Before(sorted, t)) /\ Before(sorted, t) = 1 .. k
  <2> HIDE DEF t
  <2> QED
    BY <1>0, <1>2, FrontLemma
<1> DEFINE new == InsertAt(sorted, k + 1, t)
           f == [i \in 1 .. n + 1 |-> IF i <= k THEN from[i] ELSE IF i = k + 1 THEN n + 1
                                      ELSE from[i - 1]]
<1>4. InsertTask(sorted, t) = new
  BY <1>3 DEF InsertTask, Before
<1>5. /\ new \in Seq(Task) /\ Len(new) = n + 1
      /\ \A i \in 1 .. n + 1 : new[i] = IF i <= k THEN sorted[i]
                                        ELSE IF i = k + 1 THEN t ELSE sorted[i - 1]
  <2> HIDE DEF t, P
  <2>1. k \in 0 .. Len(sorted)
    BY <1>0
  <2>2. Inserted(new, sorted, k, t)
    BY <1>0, <2>1, InsertLemma
  <2> QED
    BY <1>0, <2>2, Zenon DEF Inserted
<1>6. \A i \in 1 .. n : P(sorted[i]) <= P(t) <=> i <= k
  <2>1. \A i \in 1 .. n : i \in Before(sorted, t) <=> P(sorted[i]) <= P(t)
    BY <1>0 DEF Before
  <2>2. \A i \in 1 .. n : i \in 1 .. k <=> i <= k
    OBVIOUS
  <2> HIDE DEF t, P
  <2> QED
    BY <1>3, <2>1, <2>2, Zenon
<1>7. /\ from \in [1 .. n -> 1 .. n] /\ \A i \in 1 .. n : sorted[i] = list[from[i]]
      /\ \A p \in 1 .. n : \E i \in 1 .. n : from[i] = p
      /\ \A i, j \in 1 .. n : i < j =>
           P(sorted[i]) < P(sorted[j]) \/ (P(sorted[i]) = P(sorted[j]) /\ from[i] < from[j])
  BY DEF Stable
<1>t. t = list[n + 1]
  OBVIOUS
<1> HIDE DEF new, t, P
(* A position of the new list is the new task's or one of the old ones.     *)
<1>8. ASSUME NEW i \in 1 .. n + 1
      PROVE  \/ i = k + 1 /\ new[i] = t /\ f[i] = n + 1
             \/ \E o \in 1 .. n : /\ o = IF i <= k THEN i ELSE i - 1
                                  /\ i <= k => o <= k /\ i = o
                                  /\ i > k => o > k /\ i = o + 1
                                  /\ new[i] = sorted[o] /\ f[i] = from[o]
  <2>1. CASE i <= k
    <3>1. i \in 1 .. n
      BY <2>1
    <3> QED
      BY <2>1, <3>1, <1>5
  <2>2. CASE i = k + 1
    BY <2>2, <1>5
  <2>3. CASE i > k + 1
    <3>1. i - 1 \in 1 .. n /\ i - 1 > k /\ ~(i <= k) /\ i # k + 1 /\ i = (i - 1) + 1
      BY <2>3
    <3>2. new[i] = sorted[i - 1] /\ f[i] = from[i - 1]
      BY <3>1, <1>5
    <3> QED
      BY <3>1, <3>2
  <2> QED
    BY <2>1, <2>2, <2>3
<1>9. f \in [1 .. n + 1 -> 1 .. n + 1]
  <2>1. ASSUME NEW i \in 1 .. n + 1 PROVE f[i] \in 1 .. n + 1
    <3> HIDE DEF f
    <3>1. CASE f[i] = n + 1
      BY <3>1
    <3>2. ASSUME NEW o \in 1 .. n, f[i] = from[o] PROVE f[i] \in 1 .. n + 1
      <4>1. from[o] \in 1 .. n
        BY <1>7
      <4> QED
        BY <4>1, <3>2
    <3> QED
      BY <3>1, <3>2, <1>8
  <2>2. f = [i \in 1 .. n + 1 |-> f[i]]
    OBVIOUS
  <2> QED
    BY <2>1, <2>2
<1>f. /\ \A i \in 1 .. k : f[i] = from[i]
      /\ f[k + 1] = n + 1
      /\ \A i \in k + 1 .. n : f[i + 1] = from[i]
  <2>1. \A i \in k + 1 .. n : i + 1 \in 1 .. n + 1 /\ ~(i + 1 <= k) /\ i + 1 # k + 1 /\ (i + 1) - 1 = i
    OBVIOUS
  <2> QED
    BY <2>1
<1> HIDE DEF f
<1>10. \A i \in 1 .. n + 1 : new[i] = list[f[i]]
  <2> TAKE i \in 1 .. n + 1
  <2>1. CASE new[i] = t /\ f[i] = n + 1
    BY <2>1, <1>t
  <2>2. ASSUME NEW o \in 1 .. n, new[i] = sorted[o] /\ f[i] = from[o] PROVE new[i] = list[f[i]]
    BY <2>2, <1>7
  <2> QED
    BY <2>1, <2>2, <1>8
<1>11. ASSUME NEW p \in 1 .. n + 1 PROVE \E i \in 1 .. n + 1 : f[i] = p
  <2>1. CASE p = n + 1
    <3>1. k + 1 \in 1 .. n + 1
      OBVIOUS
    <3> QED
      BY <2>1, <3>1, <1>f
  <2>2. CASE p \in 1 .. n
    <3>1. PICK o \in 1 .. n : from[o] = p
      BY <2>2, <1>7
    <3>2. CASE o <= k
      <4>1. o \in 1 .. k /\ o \in 1 .. n + 1
        BY <3>2
      <4> QED
        BY <4>1, <3>1, <1>f
    <3>3. CASE ~(o <= k)
      <4>1. o \in k + 1 .. n /\ o + 1 \in 1 .. n + 1
        BY <3>3
      <4> QED
        BY <4>1, <3>1, <1>f
    <3> QED
      BY <3>2, <3>3
  <2> QED
    BY <2>1, <2>2
<1>12. ASSUME NEW i \in 1 .. n + 1, NEW j \in 1 .. n + 1, i < j
       PROVE  P(new[i]) < P(new[j]) \/ (P(new[i]) = P(new[j]) /\ f[i] < f[j])
  <2>1. CASE i = k + 1
    <3>1. PICK o \in 1 .. n : o > k /\ new[j] = sorted[o]
      <4>1. j # k + 1 /\ j > k
        BY <2>1, <1>12
      <4> QED
        BY <4>1, <1>8
    <3>2. new[i] = t
      BY <2>1, <1>8
    <3>3. ~(P(sorted[o]) <= P(t)) /\ P(sorted[o]) \in Nat
      BY <3>1, <1>1, <1>6 DEF P
    <3>4. P(t) \in Nat
      BY <1>0 DEF P, t
    <3> QED
      BY <3>1, <3>2, <3>3, <3>4
  <2>2. CASE j = k + 1
    <3>1. PICK o \in 1 .. n : o <= k /\ new[i] = sorted[o] /\ f[i] = from[o]
      <4>1. i # k + 1 /\ i <= k
        BY <2>2, <1>12
      <4> QED
        BY <4>1, <1>8
    <3>2. new[j] = t /\ f[j] = n + 1
      BY <2>2, <1>8, <1>f
    <3>3. P(sorted[o]) <= P(t) /\ P(sorted[o]) \in Nat /\ from[o] \in 1 .. n
      BY <3>1, <1>1, <1>6, <1>7 DEF P
    <3>4. P(t) \in Nat
      BY <1>0 DEF P, t
    <3> QED
      BY <3>1, <3>2, <3>3, <3>4
  <2>3. CASE i # k + 1 /\ j # k + 1
    <3>1. PICK o \in 1 .. n : /\ new[i] = sorted[o] /\ f[i] = from[o]
                              /\ i <= k => o <= k /\ i = o
                              /\ i > k => o > k /\ i = o + 1
      BY <2>3, <1>8
    <3>2. PICK r \in 1 .. n : /\ new[j] = sorted[r] /\ f[j] = from[r]
                              /\ j <= k => r <= k /\ j = r
                              /\ j > k => r > k /\ j = r + 1
      BY <2>3, <1>8
    <3>3. o < r
      BY <3>1, <3>2, <1>12
    <3> QED
      BY <3>1, <3>2, <3>3, <1>7
  <2> QED
    BY <2>1, <2>2, <2>3
<1>13. Stable(f, new, list, n + 1)
  BY <1>5, <1>9, <1>10, <1>11, <1>12 DEF Stable, P
<1> QED
  BY <1>4, <1>13 DEF t

(* SortByPriority is a stable sort by effective priority.                   *)
LEMMA SortLemma ==
  ASSUME NEW list \in Seq(Task)
  PROVE  \E from : Stable(from, SortByPriority(list), list, Len(list))
<1>1. PICK s \in [0 .. Len(list) -> Seq(Task)] :
        IsSort(s, list) /\ SortByPriority(list) = s[Len(list)]
  BY SortEquation
<1> DEFINE S == {n \in Nat : n <= Len(list) => \E from : Stable(from, s[n], list, n)}
<1>2. 0 \in S
  <2>1. s[0] = <<>>
    BY <1>1 DEF IsSort
  <2> DEFINE none == [i \in 1 .. 0 |-> 1]
  <2>2. none \in [1 .. 0 -> 1 .. 0]
    OBVIOUS
  <2> HIDE DEF none
  <2>3. Stable(none, s[0], list, 0)
    BY <2>1, <2>2 DEF Stable
  <2> QED
    BY <2>3
<1>3. ASSUME NEW n \in Nat, n \in S PROVE n + 1 \in S
  <2>1. ASSUME n + 1 <= Len(list) PROVE \E from : Stable(from, s[n + 1], list, n + 1)
    <3>1. n + 1 \in 0 .. Len(list) /\ n + 1 # 0 /\ (n + 1) - 1 = n /\ n <= Len(list)
      BY <2>1
    <3>2. s[n + 1] = InsertTask(s[n], list[n + 1])
      BY <3>1, <1>1 DEF IsSort
    <3>3. PICK from : Stable(from, s[n], list, n)
      BY <1>3, <3>1
    <3>4. \E f : Stable(f, InsertTask(s[n], list[n + 1]), list, n + 1)
      BY <2>1, <3>3, RoundLemma
    <3> QED
      BY <3>2, <3>4
  <2> QED
    BY <2>1
<1>4. \A n \in Nat : n \in S
  <2> HIDE DEF S
  <2> QED
    BY <1>2, <1>3, SetInduction
<1>5. Len(list) \in Nat
  OBVIOUS
<1>6. \E from : Stable(from, s[Len(list)], list, Len(list))
  BY <1>4, <1>5
<1> QED
  BY <1>1, <1>6

(* So it has the members of the list, and no more.                          *)
LEMMA SortMembers ==
  ASSUME NEW list \in Seq(Task)
  PROVE  /\ SortByPriority(list) \in Seq(Task)
         /\ Len(SortByPriority(list)) = Len(list)
         /\ ToSet(SortByPriority(list)) = ToSet(list)
<1> DEFINE sorted == SortByPriority(list)
           n == Len(list)
<1>1. PICK from : Stable(from, sorted, list, n)
  BY SortLemma
<1> HIDE DEF sorted
<1>2. sorted \in Seq(Task) /\ Len(sorted) = n
  BY <1>1 DEF Stable
<1>3. DOMAIN sorted = 1 .. n /\ DOMAIN list = 1 .. n
  BY <1>2
<1> HIDE DEF n
<1>4. ASSUME NEW x \in ToSet(sorted) PROVE x \in ToSet(list)
  <2>1. PICK i \in 1 .. n : x = sorted[i]
    BY <1>3 DEF ToSet
  <2>2. from[i] \in 1 .. n /\ x = list[from[i]]
    BY <1>1, <2>1 DEF Stable
  <2> QED
    BY <2>2, <1>3 DEF ToSet
<1>5. ASSUME NEW x \in ToSet(list) PROVE x \in ToSet(sorted)
  <2>1. PICK p \in 1 .. n : x = list[p]
    BY <1>3 DEF ToSet
  <2>2. PICK i \in 1 .. n : from[i] = p
    BY <1>1 DEF Stable
  <2>3. x = sorted[i]
    BY <1>1, <2>1, <2>2 DEF Stable
  <2> QED
    BY <2>3, <1>3 DEF ToSet
<1> QED
  BY <1>2, <1>4, <1>5 DEF sorted, n

(* A task that stands twice in the list stands twice in the sorted list.    *)
LEMMA SortKeepsDuplicate ==
  ASSUME NEW list \in Seq(Task), NEW p \in 1 .. Len(list), NEW q \in 1 .. Len(list),
         p # q, list[p] = list[q]
  PROVE  \E i, j \in 1 .. Len(list) :
           i # j /\ SortByPriority(list)[i] = list[p] /\ SortByPriority(list)[j] = list[p]
<1> DEFINE n == Len(list)
<1>1. PICK from : Stable(from, SortByPriority(list), list, n)
  BY SortLemma
<1>2. PICK i \in 1 .. n : from[i] = p
  BY <1>1 DEF Stable
<1>3. PICK j \in 1 .. n : from[j] = q
  BY <1>1 DEF Stable
<1>4. SortByPriority(list)[i] = list[p] /\ SortByPriority(list)[j] = list[q]
  BY <1>1, <1>2, <1>3 DEF Stable
<1> QED
  BY <1>2, <1>3, <1>4

-----------------------------------------------------------------------------
(* The registrations.                                                       *)

(* A sorted list is arranged as the list was.                               *)
LEMMA ArrangedSort ==
  ASSUME NEW list \in Seq(Task), NEW reg \in Seq(UserTask), Arranged(list, reg)
  PROVE  Arranged(SortByPriority(list), reg)
<1> DEFINE sorted == SortByPriority(list)
           n == Len(list)
           m == Len(reg)
           P(x) == EffectivePriority(x)
<1>0. n \in Nat /\ m \in Nat
  OBVIOUS
<1>1. PICK from : Stable(from, sorted, list, n)
  BY SortLemma
<1>2. PICK rank \in [1 .. n -> 0 .. m] : Ranks(rank, list, reg)
  BY DEF Arranged
<1>3. /\ Len(sorted) = n /\ from \in [1 .. n -> 1 .. n]
      /\ \A i \in 1 .. n : sorted[i] = list[from[i]]
      /\ \A p \in 1 .. n : \E i \in 1 .. n : from[i] = p
      /\ \A i, j \in 1 .. n : i < j =>
           P(sorted[i]) < P(sorted[j]) \/ (P(sorted[i]) = P(sorted[j]) /\ from[i] < from[j])
  BY <1>1 DEF Stable
<1>4. /\ \A i \in 1 .. n : list[i] \in UserTask => rank[i] \in 1 .. m /\ reg[rank[i]] = list[i]
      /\ \A r \in 1 .. m : \E i \in 1 .. n : list[i] \in UserTask /\ rank[i] = r
      /\ \A i, j \in 1 .. n : i < j /\ P(list[i]) = P(list[j]) =>
           list[i] \in KernelTask \/ (list[j] \in UserTask /\ rank[i] < rank[j])
  BY <1>2 DEF Ranks
<1>p. \A i \in 1 .. n : P(sorted[i]) \in Nat
  <2>1. \A i \in 1 .. n : sorted[i] \in Task
    BY <1>1 DEF Stable
  <2> QED
    BY <2>1, PriorityType
<1> DEFINE f == [i \in 1 .. n |-> rank[from[i]]]
<1>5. f \in [1 .. n -> 0 .. m] /\ \A i \in 1 .. n : f[i] = rank[from[i]] /\ from[i] \in 1 .. n
  <2>1. \A i \in 1 .. n : from[i] \in 1 .. n
    BY <1>3
  <2> HIDE DEF n, m
  <2>2. \A i \in 1 .. n : rank[from[i]] \in 0 .. m
    BY <2>1, <1>2
  <2> QED
    BY <2>1, <2>2
<1> HIDE DEF sorted, n, m, P, f
<1>6. ASSUME NEW i \in 1 .. n, sorted[i] \in UserTask
      PROVE  f[i] \in 1 .. m /\ reg[f[i]] = sorted[i]
  <2>1. from[i] \in 1 .. n /\ sorted[i] = list[from[i]] /\ f[i] = rank[from[i]]
    BY <1>3, <1>5
  <2>2. rank[from[i]] \in 1 .. m /\ reg[rank[from[i]]] = list[from[i]]
    BY <1>4, <1>6, <2>1
  <2> QED
    BY <2>1, <2>2
<1>7. ASSUME NEW r \in 1 .. m PROVE \E i \in 1 .. n : sorted[i] \in UserTask /\ f[i] = r
  <2>1. PICK p \in 1 .. n : list[p] \in UserTask /\ rank[p] = r
    BY <1>4
  <2>2. PICK i \in 1 .. n : from[i] = p
    BY <1>3
  <2>3. sorted[i] = list[p] /\ f[i] = r
    BY <2>1, <2>2, <1>3, <1>5
  <2> QED
    BY <2>1, <2>3
<1>8. ASSUME NEW i \in 1 .. n, NEW j \in 1 .. n, i < j, P(sorted[i]) = P(sorted[j])
      PROVE  sorted[i] \in KernelTask \/ (sorted[j] \in UserTask /\ f[i] < f[j])
  <2>1. from[i] < from[j]
    BY <1>8, <1>3, <1>p
  <2>2. /\ from[i] \in 1 .. n /\ from[j] \in 1 .. n /\ sorted[i] = list[from[i]]
        /\ sorted[j] = list[from[j]] /\ f[i] = rank[from[i]] /\ f[j] = rank[from[j]]
    BY <1>3, <1>5
  <2>3. \/ list[from[i]] \in KernelTask
        \/ list[from[j]] \in UserTask /\ rank[from[i]] < rank[from[j]]
    BY <2>1, <2>2, <1>4, <1>8
  <2> QED
    BY <2>2, <2>3
<1>9. Ranks(f, sorted, reg)
  BY <1>3, <1>6, <1>7, <1>8 DEF Ranks, n, m, P
<1>10. f \in [1 .. Len(sorted) -> 0 .. Len(reg)]
  BY <1>3, <1>5 DEF m
<1> QED
  BY <1>9, <1>10 DEF Arranged, sorted

(* A task registered last stands behind its equals.                         *)
LEMMA ArrangedAppend ==
  ASSUME NEW list \in Seq(Task), NEW reg \in Seq(UserTask), NEW t \in UserTask, Arranged(list, reg)
  PROVE  Arranged(Append(list, t), Append(reg, t))
<1> DEFINE n == Len(list)
           m == Len(reg)
           P(x) == EffectivePriority(x)
           longer == Append(list, t)
           more == Append(reg, t)
<1>0. n \in Nat /\ m \in Nat
  OBVIOUS
<1>1. PICK rank \in [1 .. n -> 0 .. m] : Ranks(rank, list, reg)
  BY DEF Arranged
<1>2. /\ \A i \in 1 .. n : list[i] \in UserTask => rank[i] \in 1 .. m /\ reg[rank[i]] = list[i]
      /\ \A r \in 1 .. m : \E i \in 1 .. n : list[i] \in UserTask /\ rank[i] = r
      /\ \A i, j \in 1 .. n : i < j /\ P(list[i]) = P(list[j]) =>
           list[i] \in KernelTask \/ (list[j] \in UserTask /\ rank[i] < rank[j])
  BY <1>1 DEF Ranks
<1>3. /\ Len(longer) = n + 1 /\ longer[n + 1] = t /\ \A i \in 1 .. n : longer[i] = list[i]
      /\ Len(more) = m + 1 /\ more[m + 1] = t /\ \A i \in 1 .. m : more[i] = reg[i]
  OBVIOUS
<1>4. \A i \in 1 .. n : list[i] \in Task
  OBVIOUS
<1> DEFINE f == [i \in 1 .. n + 1 |-> IF i = n + 1 THEN m + 1 ELSE rank[i]]
<1> HIDE DEF n, m, P, longer, more
<1>5. f[n + 1] = m + 1 /\ \A i \in 1 .. n : f[i] = rank[i] /\ rank[i] \in 0 .. m
  BY <1>0, <1>1
<1>6. f \in [1 .. n + 1 -> 0 .. m + 1]
  BY <1>0, <1>1
<1> HIDE DEF f
<1>s. \A i \in 1 .. n + 1 : i \in 1 .. n \/ i = n + 1
  BY <1>0
<1>7. ASSUME NEW i \in 1 .. n + 1, longer[i] \in UserTask
      PROVE  f[i] \in 1 .. m + 1 /\ more[f[i]] = longer[i]
  <2>1. CASE i \in 1 .. n
    <3>1. rank[i] \in 1 .. m /\ reg[rank[i]] = list[i]
      BY <2>1, <1>2, <1>3, <1>7
    <3> QED
      BY <2>1, <3>1, <1>3, <1>5, <1>0
  <2>2. CASE i = n + 1
    BY <2>2, <1>3, <1>5, <1>0
  <2> QED
    BY <2>1, <2>2, <1>s
<1>8. ASSUME NEW r \in 1 .. m + 1
      PROVE  \E i \in 1 .. n + 1 : longer[i] \in UserTask /\ f[i] = r
  <2>1. CASE r \in 1 .. m
    <3>1. PICK i \in 1 .. n : list[i] \in UserTask /\ rank[i] = r
      BY <2>1, <1>2
    <3>2. i \in 1 .. n + 1 /\ longer[i] \in UserTask /\ f[i] = r
      BY <3>1, <1>3, <1>5, <1>0
    <3> QED
      BY <3>2
  <2>2. CASE r = m + 1
    <3>1. n + 1 \in 1 .. n + 1
      BY <1>0
    <3> QED
      BY <2>2, <3>1, <1>3, <1>5
  <2> QED
    BY <2>1, <2>2, <1>0
<1>9. ASSUME NEW i \in 1 .. n + 1, NEW j \in 1 .. n + 1, i < j, P(longer[i]) = P(longer[j])
      PROVE  longer[i] \in KernelTask \/ (longer[j] \in UserTask /\ f[i] < f[j])
  <2>1. i \in 1 .. n
    BY <1>9, <1>0
  <2>2. CASE j \in 1 .. n
    BY <2>1, <2>2, <1>2, <1>3, <1>5, <1>9
  <2>3. CASE j = n + 1
    <3>1. f[i] < f[j]
      BY <2>1, <2>3, <1>5, <1>0
    <3> QED
      BY <2>3, <3>1, <1>3
  <2> QED
    BY <2>2, <2>3, <1>s
<1>10. Ranks(f, longer, more)
  BY <1>3, <1>7, <1>8, <1>9 DEF Ranks, P
<1>11. f \in [1 .. Len(longer) -> 0 .. Len(more)]
  BY <1>3, <1>6
<1> QED
  BY <1>10, <1>11 DEF Arranged, longer, more

(* d kernel tasks in front of a list.                                       *)
Grown(list, new, d) ==
  /\ new \in Seq(Task) /\ Len(new) = d + Len(list) /\ Len(new) <= kMaxTasks
  /\ \A i \in 1 .. d : new[i] \in KernelTask
  /\ \A i \in 1 .. Len(list) : new[d + i] = list[i]

LEMMA ArrangedGrown ==
  ASSUME NEW list \in Seq(Task), NEW reg \in Seq(UserTask), NEW new, NEW d \in Nat,
         Arranged(list, reg), Grown(list, new, d)
  PROVE  Arranged(new, reg)
<1> DEFINE n == Len(list)
           m == Len(reg)
           P(x) == EffectivePriority(x)
<1>0. n \in Nat /\ m \in Nat
  OBVIOUS
<1>1. PICK rank \in [1 .. n -> 0 .. m] : Ranks(rank, list, reg)
  BY DEF Arranged
<1>2. /\ \A i \in 1 .. n : list[i] \in UserTask => rank[i] \in 1 .. m /\ reg[rank[i]] = list[i]
      /\ \A r \in 1 .. m : \E i \in 1 .. n : list[i] \in UserTask /\ rank[i] = r
      /\ \A i, j \in 1 .. n : i < j /\ P(list[i]) = P(list[j]) =>
           list[i] \in KernelTask \/ (list[j] \in UserTask /\ rank[i] < rank[j])
  BY <1>1 DEF Ranks
<1>3. /\ Len(new) = d + n /\ \A i \in 1 .. d : new[i] \in KernelTask /\ new[i] \notin UserTask
      /\ \A i \in 1 .. n : new[d + i] = list[i]
  BY NamesAssumption DEF Grown
<1> DEFINE f == [i \in 1 .. d + n |-> IF i <= d THEN 0 ELSE rank[i - d]]
<1> HIDE DEF n, m, P
<1>s. \A i \in 1 .. d + n : i \in 1 .. d \/ (i - d \in 1 .. n /\ ~(i <= d) /\ d + (i - d) = i)
  BY <1>0
<1>4. /\ \A i \in 1 .. d : f[i] = 0
      /\ \A i \in 1 .. d + n : i - d \in 1 .. n => f[i] = rank[i - d] /\ new[i] = list[i - d]
  <2>1. \A i \in 1 .. d : i \in 1 .. d + n /\ i <= d
    BY <1>0
  <2>2. ASSUME NEW i \in 1 .. d + n, i - d \in 1 .. n
        PROVE  f[i] = rank[i - d] /\ new[i] = list[i - d]
    <3>1. ~(i <= d) /\ d + (i - d) = i
      BY <2>2, <1>0
    <3>2. new[d + (i - d)] = list[i - d]
      BY <2>2, <1>3
    <3> QED
      BY <3>1, <3>2
  <2> QED
    BY <2>1, <2>2
<1>5. f \in [1 .. d + n -> 0 .. m]
  <2>1. ASSUME NEW i \in 1 .. d + n PROVE f[i] \in 0 .. m
    <3> HIDE DEF f
    <3>1. CASE i \in 1 .. d
      BY <3>1, <1>4, <1>0
    <3>2. CASE i - d \in 1 .. n
      <4>1. rank[i - d] \in 0 .. m
        BY <3>2, <1>1
      <4> QED
        BY <3>2, <4>1, <1>4
    <3> QED
      BY <3>1, <3>2, <1>s
  <2> QED
    BY <2>1
<1> HIDE DEF f
<1>6. ASSUME NEW i \in 1 .. d + n, new[i] \in UserTask
      PROVE  f[i] \in 1 .. m /\ reg[f[i]] = new[i]
  <2>1. i - d \in 1 .. n
    BY <1>6, <1>3, <1>s
  <2>2. f[i] = rank[i - d] /\ new[i] = list[i - d]
    BY <2>1, <1>4
  <2> QED
    BY <2>1, <2>2, <1>2, <1>6
<1>7. ASSUME NEW r \in 1 .. m PROVE \E i \in 1 .. d + n : new[i] \in UserTask /\ f[i] = r
  <2>1. PICK p \in 1 .. n : list[p] \in UserTask /\ rank[p] = r
    BY <1>2
  <2>2. d + p \in 1 .. d + n /\ (d + p) - d = p
    BY <1>0
  <2>3. f[d + p] = rank[p] /\ new[d + p] = list[p]
    BY <2>2, <1>4
  <2> QED
    BY <2>1, <2>2, <2>3
<1>8. ASSUME NEW i \in 1 .. d + n, NEW j \in 1 .. d + n, i < j, P(new[i]) = P(new[j])
      PROVE  new[i] \in KernelTask \/ (new[j] \in UserTask /\ f[i] < f[j])
  <2>1. CASE i \in 1 .. d
    BY <2>1, <1>3
  <2>2. CASE i - d \in 1 .. n
    <3>1. j - d \in 1 .. n /\ i - d < j - d
      BY <2>2, <1>8, <1>0
    <3>2. /\ f[i] = rank[i - d] /\ new[i] = list[i - d]
          /\ f[j] = rank[j - d] /\ new[j] = list[j - d]
      BY <2>2, <3>1, <1>4
    <3> QED
      BY <2>2, <3>1, <3>2, <1>2, <1>8
  <2> QED
    BY <2>1, <2>2, <1>s
<1>9. Ranks(f, new, reg)
  BY <1>3, <1>6, <1>7, <1>8 DEF Ranks, m, P
<1>10. f \in [1 .. Len(new) -> 0 .. Len(reg)]
  BY <1>3, <1>5 DEF m
<1> QED
  BY <1>9, <1>10 DEF Arranged

(* prependTask() puts the task in front if the list has room.               *)
LEMMA PrependGrown ==
  ASSUME NEW list \in Seq(Task), Len(list) <= kMaxTasks, NEW k \in KernelTask
  PROVE  \E d \in 0 .. 1 :
           /\ Grown(list, PrependTask(list, k), d)
           /\ Len(list) < kMaxTasks => d = 1 /\ PrependTask(list, k)[1] = k
<1>0. kMaxTasks \in Nat /\ Len(list) \in Nat /\ k \in Task
  BY BuilderAssumption DEF Task
<1>1. CASE Len(list) < kMaxTasks
  <2> DEFINE new == <<k>> \o list
  <2>1. PrependTask(list, k) = new
    BY <1>1 DEF PrependTask
  <2>2. new \in Seq(Task) /\ Len(new) = 1 + Len(list) /\ Len(new) <= kMaxTasks
    BY <1>0, <1>1
  <2>3. new[1] = k /\ \A i \in 1 .. Len(list) : new[1 + i] = list[i]
    OBVIOUS
  <2> HIDE DEF new
  <2>4. Grown(list, new, 1)
    BY <2>2, <2>3 DEF Grown
  <2> QED
    BY <2>1, <2>3, <2>4
<1>2. CASE ~(Len(list) < kMaxTasks)
  <2>1. PrependTask(list, k) = list
    BY <1>2 DEF PrependTask
  <2>2. Grown(list, list, 0)
    BY <1>0 DEF Grown
  <2> QED
    BY <1>2, <2>1, <2>2
<1> QED
  BY <1>1, <1>2

(* The first d tasks of mid stand behind the first e of new.                *)
Shifted(mid, new, d, e) == \A i \in 1 .. d : new[e + i] = mid[i]

LEMMA GrownAgain ==
  ASSUME NEW list \in Seq(Task), NEW mid, NEW new, NEW d \in Nat, NEW e \in Nat,
         Grown(list, mid, d), Grown(mid, new, e)
  PROVE  Grown(list, new, d + e) /\ Shifted(mid, new, d, e)
<1> DEFINE n == Len(list)
<1>0. n \in Nat /\ kMaxTasks \in Nat
  BY BuilderAssumption
<1>1. /\ Len(mid) = d + n /\ \A i \in 1 .. d : mid[i] \in KernelTask
      /\ \A i \in 1 .. n : mid[d + i] = list[i]
  BY DEF Grown
<1>2. /\ new \in Seq(Task) /\ Len(new) = e + (d + n) /\ Len(new) <= kMaxTasks
      /\ \A i \in 1 .. e : new[i] \in KernelTask
      /\ \A i \in 1 .. d + n : new[e + i] = mid[i]
  BY <1>1 DEF Grown
<1> HIDE DEF n
<1>3. \A i \in 1 .. d : i \in 1 .. d + n /\ new[e + i] = mid[i]
  BY <1>0, <1>2
<1>4. ASSUME NEW i \in 1 .. d + e PROVE new[i] \in KernelTask
  <2>1. CASE i \in 1 .. e
    BY <2>1, <1>2
  <2>2. CASE ~(i \in 1 .. e)
    <3>1. i - e \in 1 .. d /\ e + (i - e) = i
      BY <2>2
    <3>2. new[e + (i - e)] = mid[i - e]
      BY <3>1, <1>3
    <3> QED
      BY <3>1, <3>2, <1>1
  <2> QED
    BY <2>1, <2>2
<1>5. ASSUME NEW i \in 1 .. n PROVE new[(d + e) + i] = list[i]
  <2>1. d + i \in 1 .. d + n /\ e + (d + i) = (d + e) + i
    BY <1>0
  <2>2. new[e + (d + i)] = mid[d + i]
    BY <2>1, <1>2
  <2> QED
    BY <2>1, <2>2, <1>1
<1>6. Len(new) = (d + e) + n
  BY <1>0, <1>2
<1> QED
  BY <1>2, <1>3, <1>4, <1>5, <1>6 DEF Grown, Shifted, n

(* Two kernel tasks in front; both are there if the list had room for two.  *)
LEMMA PrependTwo ==
  ASSUME NEW list \in Seq(Task), Len(list) <= kMaxTasks, NEW a \in KernelTask, NEW b \in KernelTask
  PROVE  \E d \in 0 .. 2 :
           /\ Grown(list, PrependTask(PrependTask(list, b), a), d)
           /\ Len(list) + 2 <= kMaxTasks =>
                /\ \E i \in 1 .. d : PrependTask(PrependTask(list, b), a)[i] = a
                /\ \E i \in 1 .. d : PrependTask(PrependTask(list, b), a)[i] = b
<1> DEFINE mid == PrependTask(list, b)
           new == PrependTask(mid, a)
<1>0. kMaxTasks \in Nat /\ Len(list) \in Nat
  BY BuilderAssumption
<1>1. PICK d \in 0 .. 1 : Grown(list, mid, d) /\ (Len(list) < kMaxTasks => d = 1 /\ mid[1] = b)
  BY PrependGrown
<1> HIDE DEF mid
<1>2. mid \in Seq(Task) /\ Len(mid) = d + Len(list) /\ Len(mid) <= kMaxTasks
  BY <1>1 DEF Grown
<1>3. PICK e \in 0 .. 1 : Grown(mid, new, e) /\ (Len(mid) < kMaxTasks => e = 1 /\ new[1] = a)
  BY <1>2, PrependGrown
<1> HIDE DEF new
<1>4. Grown(list, new, d + e) /\ \A i \in 1 .. d : new[e + i] = mid[i]
  <2>1. d \in Nat /\ e \in Nat
    OBVIOUS
  <2>2. Grown(list, new, d + e) /\ Shifted(mid, new, d, e)
    BY <2>1, <1>1, <1>3, GrownAgain, Zenon
  <2> QED
    BY <2>2 DEF Shifted
<1>5. ASSUME Len(list) + 2 <= kMaxTasks
      PROVE  (\E i \in 1 .. d + e : new[i] = a) /\ (\E i \in 1 .. d + e : new[i] = b)
  <2>1. d = 1 /\ mid[1] = b
    BY <1>5, <1>0, <1>1
  <2>2. e = 1 /\ new[1] = a
    BY <1>5, <1>0, <1>2, <1>3, <2>1
  <2>3. new[2] = b
    BY <2>1, <2>2, <1>4
  <2>4. 1 \in 1 .. d + e /\ 2 \in 1 .. d + e
    BY <2>1, <2>2
  <2> QED
    BY <2>2, <2>3, <2>4
<1>6. d + e \in 0 .. 2
  OBVIOUS
<1> QED
  BY <1>4, <1>5, <1>6 DEF new, mid

(* What PlaceKernelTasks makes of the lists of a system with n cores.       *)
Placed(t, p) ==
  /\ p \in [Core -> Seq(Task)]
  /\ \A c \in Core : \E d \in 0 .. 2 :
       /\ Grown(t[c], p[c], d)
       /\ c = 0 /\ Len(t[0]) + 2 <= kMaxTasks => \E i \in 1 .. d : p[0][i] = Control
  /\ (\A c \in Core : Len(t[c]) + 2 <= kMaxTasks) =>
       \E c \in Core : \E i \in 1 .. Len(p[c]) : p[c][i] = Comms

LEMMA PlaceLemma ==
  ASSUME config \in Configs, NEW t \in [Core -> Seq(Task)], \A c \in Core : Len(t[c]) <= kMaxTasks
  PROVE  Placed(t, PlaceKernelTasks(t))
<1> DEFINE p == PlaceKernelTasks(t)
<1>0. /\ kCoreCount \in Nat /\ kCoreCount >= 1 /\ 0 \in Core /\ kMaxTasks \in Nat
      /\ Control \in KernelTask /\ Comms \in KernelTask
  BY BuilderAssumption DEF kCoreCount, Core, ConfigValid, KernelTask
<1>n. \A c \in Core : t[c] \in Seq(Task) /\ Len(t[c]) \in Nat /\ Grown(t[c], t[c], 0)
  BY <1>0 DEF Grown
<1>1. CASE kCoreCount = 1
  <2> DEFINE new == PrependTask(PrependTask(t[0], Comms), Control)
  <2>1. p = [t EXCEPT ![0] = new]
    BY <1>1 DEF PlaceKernelTasks
  <2>2. PICK d \in 0 .. 2 :
          /\ Grown(t[0], new, d)
          /\ Len(t[0]) + 2 <= kMaxTasks => /\ \E i \in 1 .. d : new[i] = Control
                                           /\ \E i \in 1 .. d : new[i] = Comms
    BY <1>0, <1>n, PrependTwo
  <2> HIDE DEF new, p
  <2>3. Core = {0}
    BY <1>1, <1>0 DEF Core
  <2>4. new \in Seq(Task) /\ Len(new) = d + Len(t[0])
    BY <2>2 DEF Grown
  <2>5. p \in [Core -> Seq(Task)] /\ p[0] = new
    BY <2>1, <2>4, <1>0
  <2>6. (Len(t[0]) + 2 <= kMaxTasks) => \E i \in 1 .. Len(p[0]) : p[0][i] = Comms
    <3>1. \A i \in 1 .. d : i \in 1 .. Len(new)
      BY <2>4, <1>n, <1>0
    <3> QED
      BY <2>2, <2>5, <3>1
  <2>7. \A c \in Core : \E e \in 0 .. 2 :
          /\ Grown(t[c], p[c], e)
          /\ c = 0 /\ Len(t[0]) + 2 <= kMaxTasks => \E i \in 1 .. e : p[0][i] = Control
    BY <2>2, <2>3, <2>5
  <2> QED
    BY <2>5, <2>6, <2>7, <1>0 DEF Placed, p
<1>2. CASE kCoreCount # 1 /\ IsCrunch(1)
  <2> DEFINE new == PrependTask(PrependTask(t[0], Control), Comms)
  <2>1. p = [t EXCEPT ![0] = new]
    <3>1. p = [[t EXCEPT ![0] = PrependTask(@, Control)] EXCEPT ![0] = PrependTask(@, Comms)]
      BY <1>2 DEF PlaceKernelTasks
    <3> QED
      BY <3>1, <1>0
  <2>2. PICK d \in 0 .. 2 :
          /\ Grown(t[0], new, d)
          /\ Len(t[0]) + 2 <= kMaxTasks => /\ \E i \in 1 .. d : new[i] = Comms
                                           /\ \E i \in 1 .. d : new[i] = Control
    BY <1>0, <1>n, PrependTwo
  <2> HIDE DEF new, p
  <2>4. new \in Seq(Task) /\ Len(new) = d + Len(t[0])
    BY <2>2 DEF Grown
  <2>5. p \in [Core -> Seq(Task)] /\ p[0] = new /\ \A c \in Core \ {0} : p[c] = t[c]
    BY <2>1, <2>4, <1>0
  <2>6. (Len(t[0]) + 2 <= kMaxTasks) => \E i \in 1 .. Len(p[0]) : p[0][i] = Comms
    <3>1. \A i \in 1 .. d : i \in 1 .. Len(new)
      BY <2>4, <1>n, <1>0
    <3> QED
      BY <2>2, <2>5, <3>1
  <2>7. ASSUME NEW c \in Core
        PROVE  \E e \in 0 .. 2 :
                 /\ Grown(t[c], p[c], e)
                 /\ c = 0 /\ Len(t[0]) + 2 <= kMaxTasks => \E i \in 1 .. e : p[0][i] = Control
    <3>1. CASE c = 0
      BY <3>1, <2>2, <2>5
    <3>2. CASE c # 0
      BY <3>2, <2>5, <1>n
    <3> QED
      BY <3>1, <3>2
  <2> QED
    BY <2>5, <2>6, <2>7, <1>0 DEF Placed, p
<1>3. CASE kCoreCount # 1 /\ ~IsCrunch(1)
  <2> DEFINE front == PrependTask(t[0], Control)
             other == PrependTask(t[1], Comms)
  <2>0. 1 \in Core /\ 0 # 1
    BY <1>3, <1>0 DEF Core
  <2>1. p = [t EXCEPT ![0] = front, ![1] = other]
    <3>1. p = [[t EXCEPT ![0] = PrependTask(@, Control)] EXCEPT ![1] = PrependTask(@, Comms)]
      BY <1>3 DEF PlaceKernelTasks
    <3> QED
      BY <3>1, <1>0, <2>0
  <2>2. PICK d \in 0 .. 1 : Grown(t[0], front, d) /\ (Len(t[0]) < kMaxTasks => d = 1 /\ front[1] = Control)
    BY <1>0, <1>n, PrependGrown
  <2>3. PICK e \in 0 .. 1 : Grown(t[1], other, e) /\ (Len(t[1]) < kMaxTasks => e = 1 /\ other[1] = Comms)
    BY <1>0, <1>n, <2>0, PrependGrown
  <2> HIDE DEF front, other, p
  <2>4. front \in Seq(Task) /\ other \in Seq(Task) /\ Len(other) = e + Len(t[1])
    BY <2>2, <2>3 DEF Grown
  <2>5. p \in [Core -> Seq(Task)] /\ p[0] = front /\ p[1] = other /\ \A c \in Core \ {0, 1} : p[c] = t[c]
    BY <2>0, <2>1, <2>4, <1>0
  <2>6. (Len(t[1]) + 2 <= kMaxTasks) => \E i \in 1 .. Len(p[1]) : p[1][i] = Comms
    <3> SUFFICES ASSUME Len(t[1]) + 2 <= kMaxTasks PROVE \E i \in 1 .. Len(p[1]) : p[1][i] = Comms
      OBVIOUS
    <3>1. e = 1 /\ other[1] = Comms /\ 1 \in 1 .. Len(other)
      BY <2>0, <2>3, <2>4, <1>0, <1>n
    <3> QED
      BY <3>1, <2>5
  <2>7. ASSUME NEW c \in Core
        PROVE  \E k \in 0 .. 2 :
                 /\ Grown(t[c], p[c], k)
                 /\ c = 0 /\ Len(t[0]) + 2 <= kMaxTasks => \E i \in 1 .. k : p[0][i] = Control
    <3>1. CASE c = 0
      <4>1. Len(t[0]) + 2 <= kMaxTasks => d = 1 /\ p[0][1] = Control
        BY <2>2, <2>5, <1>0, <1>n
      <4>2. Len(t[0]) + 2 <= kMaxTasks => \E i \in 1 .. d : p[0][i] = Control
        BY <4>1
      <4> QED
        BY <3>1, <4>2, <2>2, <2>5
    <3>2. CASE c = 1
      BY <3>2, <2>0, <2>3, <2>5
    <3>3. CASE c # 0 /\ c # 1
      BY <3>3, <2>5, <1>n
    <3> QED
      BY <3>1, <3>2, <3>3
  <2> QED
    BY <2>0, <2>5, <2>6, <2>7 DEF Placed, p
<1> QED
  BY <1>1, <1>2, <1>3

-----------------------------------------------------------------------------
(* The flat list of the monitored tasks.                                    *)
IsFlat(f, seqs) ==
  f = [i \in 1 .. Len(seqs) |-> IF i = 1 THEN seqs[i] ELSE f[i - 1] \o seqs[i]]

LEMMA FlatEquation ==
  ASSUME NEW seqs \in Seq(Seq(Task)), Len(seqs) >= 1
  PROVE  \E f : IsFlat(f, seqs) /\ FlattenSeq(seqs) = f[Len(seqs)]
<1> DEFINE n == Len(seqs)
           step == [k \in Nat |-> [v \in Seq(Task) |-> IF k + 2 <= n THEN v \o seqs[k + 2] ELSE v]]
<1>0. n \in Nat /\ n >= 1 /\ \A k \in 1 .. n : seqs[k] \in Seq(Task)
  OBVIOUS
<1>1. step \in [Nat -> [Seq(Task) -> Seq(Task)]]
  <2>1. ASSUME NEW k \in Nat, NEW v \in Seq(Task)
        PROVE  (IF k + 2 <= n THEN v \o seqs[k + 2] ELSE v) \in Seq(Task)
    <3>1. CASE k + 2 <= n
      <4>1. seqs[k + 2] \in Seq(Task)
        BY <3>1, <1>0
      <4>2. v \o seqs[k + 2] \in Seq(Task)
        BY <4>1, ConcatProperties
      <4> QED
        BY <3>1, <4>2
    <3>2. CASE ~(k + 2 <= n)
      BY <3>2
    <3> QED
      BY <3>1, <3>2
  <2> HIDE DEF n
  <2> QED
    BY <2>1
<1>2. ASSUME NEW k \in Nat, NEW v \in Seq(Task), k + 2 <= n
      PROVE  step[k][v] = v \o seqs[k + 2]
  BY <1>2
<1> HIDE DEF step
<1>3. Recurrence(Seq(Task), seqs[1], step)
  BY <1>0, <1>1 DEF Recurrence
<1>4. PICK F \in [Nat -> Seq(Task)] : F[0] = seqs[1] /\ \A k \in Nat : F[k + 1] = step[k][F[k]]
  <2>1. Solvable(Seq(Task), seqs[1], step)
    BY <1>3, RecursionExists
  <2> QED
    BY <2>1, Zenon DEF Solvable
<1> DEFINE f == [i \in 1 .. n |-> F[i - 1]]
<1>5. ASSUME NEW i \in 1 .. n PROVE f[i] = IF i = 1 THEN seqs[i] ELSE f[i - 1] \o seqs[i]
  <2>1. CASE i = 1
    BY <2>1, <1>4, <1>0
  <2>2. CASE i # 1
    <3>1. /\ i - 2 \in Nat /\ (i - 2) + 1 = i - 1 /\ (i - 2) + 2 = i /\ i <= n
          /\ i - 1 \in 1 .. n /\ (i - 1) - 1 = i - 2
      BY <2>2, <1>0
    <3>2. F[i - 2] \in Seq(Task)
      BY <3>1, <1>4
    <3>3. F[i - 1] = step[i - 2][F[i - 2]]
      BY <3>1, <1>4
    <3>4. F[i - 1] = F[i - 2] \o seqs[i]
      BY <3>1, <3>2, <3>3, <1>2
    <3>5. f[i] = F[i - 1] /\ f[i - 1] = F[i - 2]
      BY <3>1
    <3> QED
      BY <2>2, <3>4, <3>5
  <2> QED
    BY <2>1, <2>2
<1>6. IsFlat(f, seqs)
  <2> DEFINE g == [i \in 1 .. n |-> IF i = 1 THEN seqs[i] ELSE f[i - 1] \o seqs[i]]
  <2>1. \A i \in 1 .. n : f[i] = g[i]
    BY <1>5
  <2>2. f = g
    BY <2>1
  <2> QED
    BY <2>2 DEF IsFlat
<1> DEFINE s == CHOOSE q : IsFlat(q, seqs)
<1>7. IsFlat(s, seqs)
  BY <1>6
<1>8. FlattenSeq(seqs) = s[n]
  BY <1>0 DEF FlattenSeq, IsFlat
<1> QED
  BY <1>7, <1>8

(* No two places of the lists hold the same task.                           *)
Distinct(seqs) ==
  \A k, l \in 1 .. Len(seqs) : \A a \in 1 .. Len(seqs[k]), b \in 1 .. Len(seqs[l]) :
    seqs[k][a] = seqs[l][b] => k = l /\ a = b

(* g holds the tasks of the first i lists, each once if they are distinct.  *)
Flat(g, seqs, i) ==
  /\ g \in Seq(Task)
  /\ \A p \in 1 .. Len(g) : \E k \in 1 .. i : \E a \in 1 .. Len(seqs[k]) : g[p] = seqs[k][a]
  /\ \A k \in 1 .. i : \A a \in 1 .. Len(seqs[k]) : \E p \in 1 .. Len(g) : g[p] = seqs[k][a]
  /\ Distinct(seqs) => \A p, q \in 1 .. Len(g) : g[p] = g[q] => p = q

LEMMA FlatStep ==
  ASSUME NEW seqs \in Seq(Seq(Task)), NEW i \in Nat, i + 1 <= Len(seqs), i >= 1, NEW g,
         Flat(g, seqs, i)
  PROVE  Flat(g \o seqs[i + 1], seqs, i + 1)
<1> DEFINE s == seqs[i + 1]
           h == g \o s
<1>0. g \in Seq(Task) /\ s \in Seq(Task) /\ Len(g) \in Nat /\ Len(s) \in Nat
  BY DEF Flat
<1>1. h \in Seq(Task) /\ Len(h) = Len(g) + Len(s)
  BY <1>0, ConcatProperties
<1>2. /\ \A p \in 1 .. Len(g) : h[p] = g[p]
      /\ \A a \in 1 .. Len(s) : h[Len(g) + a] = s[a]
  BY <1>0
<1>s. s = seqs[i + 1]
  OBVIOUS
<1> HIDE DEF s, h
<1>3. ASSUME NEW p \in 1 .. Len(h)
      PROVE  \/ p \in 1 .. Len(g) /\ h[p] = g[p]
             \/ p - Len(g) \in 1 .. Len(s) /\ h[p] = s[p - Len(g)]
  <2>1. CASE p <= Len(g)
    <3>1. p \in 1 .. Len(g)
      BY <2>1, <1>0, <1>1
    <3> QED
      BY <3>1, <1>2
  <2>2. CASE ~(p <= Len(g))
    <3>1. p - Len(g) \in 1 .. Len(s) /\ Len(g) + (p - Len(g)) = p
      BY <2>2, <1>0, <1>1
    <3>2. h[Len(g) + (p - Len(g))] = s[p - Len(g)]
      BY <3>1, <1>2
    <3> QED
      BY <3>1, <3>2
  <2> QED
    BY <2>1, <2>2
<1>4. ASSUME NEW p \in 1 .. Len(h)
      PROVE  \E k \in 1 .. i + 1 : \E a \in 1 .. Len(seqs[k]) : h[p] = seqs[k][a]
  <2>1. CASE p \in 1 .. Len(g) /\ h[p] = g[p]
    <3>1. PICK k \in 1 .. i : \E a \in 1 .. Len(seqs[k]) : g[p] = seqs[k][a]
      BY <2>1 DEF Flat
    <3>2. k \in 1 .. i + 1
      OBVIOUS
    <3> QED
      BY <2>1, <3>1, <3>2
  <2>2. CASE p - Len(g) \in 1 .. Len(s) /\ h[p] = s[p - Len(g)]
    <3>1. i + 1 \in 1 .. i + 1
      OBVIOUS
    <3> QED
      BY <2>2, <3>1, <1>s
  <2> QED
    BY <2>1, <2>2, <1>3
<1>5. ASSUME NEW k \in 1 .. i + 1, NEW a \in 1 .. Len(seqs[k])
      PROVE  \E p \in 1 .. Len(h) : h[p] = seqs[k][a]
  <2>1. CASE k = i + 1
    <3>1. a \in 1 .. Len(s) /\ seqs[k][a] = s[a]
      BY <2>1, <1>s
    <3>2. Len(g) + a \in 1 .. Len(h)
      BY <3>1, <1>0, <1>1
    <3> QED
      BY <3>1, <3>2, <1>2
  <2>2. CASE k # i + 1
    <3>1. k \in 1 .. i
      BY <2>2
    <3>2. PICK p \in 1 .. Len(g) : g[p] = seqs[k][a]
      BY <3>1 DEF Flat
    <3>3. p \in 1 .. Len(h)
      BY <1>0, <1>1
    <3> QED
      BY <3>2, <3>3, <1>2
  <2> QED
    BY <2>1, <2>2
<1>d. ASSUME Distinct(seqs), NEW k \in 1 .. Len(seqs), NEW a \in 1 .. Len(seqs[k]),
             NEW b \in 1 .. Len(s), seqs[k][a] = s[b]
      PROVE  k = i + 1 /\ a = b
  <2> DEFINE l == i + 1
  <2>1. l \in 1 .. Len(seqs) /\ s = seqs[l]
    BY <1>s
  <2> HIDE DEF l
  <2>2. b \in 1 .. Len(seqs[l]) /\ seqs[k][a] = seqs[l][b]
    BY <2>1, <1>d
  <2>3. k = l /\ a = b
    BY <2>1, <2>2, <1>d, Zenon DEF Distinct
  <2> QED
    BY <2>3 DEF l
<1>6. ASSUME Distinct(seqs), NEW p \in 1 .. Len(g), NEW b \in 1 .. Len(s) PROVE g[p] # s[b]
  <2>1. PICK k \in 1 .. i : \E a \in 1 .. Len(seqs[k]) : g[p] = seqs[k][a]
    BY DEF Flat
  <2>2. PICK a \in 1 .. Len(seqs[k]) : g[p] = seqs[k][a]
    BY <2>1
  <2>3. k \in 1 .. Len(seqs) /\ i + 1 \in 1 .. Len(seqs) /\ k # i + 1
    OBVIOUS
  <2> QED
    BY <2>2, <2>3, <1>6, <1>d
<1>7. ASSUME Distinct(seqs), NEW p \in 1 .. Len(h), NEW q \in 1 .. Len(h), h[p] = h[q] PROVE p = q
  <2>1. CASE p \in 1 .. Len(g) /\ h[p] = g[p]
    <3>1. CASE q \in 1 .. Len(g) /\ h[q] = g[q]
      BY <2>1, <3>1, <1>7 DEF Flat
    <3>2. CASE q - Len(g) \in 1 .. Len(s) /\ h[q] = s[q - Len(g)]
      BY <2>1, <3>2, <1>6, <1>7
    <3> QED
      BY <3>1, <3>2, <1>3
  <2>2. CASE p - Len(g) \in 1 .. Len(s) /\ h[p] = s[p - Len(g)]
    <3>1. CASE q \in 1 .. Len(g) /\ h[q] = g[q]
      BY <2>2, <3>1, <1>6, <1>7
    <3>2. CASE q - Len(g) \in 1 .. Len(s) /\ h[q] = s[q - Len(g)]
      <4>1. i + 1 \in 1 .. Len(seqs)
        OBVIOUS
      <4>2. seqs[i + 1][p - Len(g)] = s[q - Len(g)] /\ p - Len(g) \in 1 .. Len(seqs[i + 1])
        BY <2>2, <3>2, <1>7, <1>s
      <4>3. p - Len(g) = q - Len(g)
        <5> DEFINE l == i + 1
                   a == p - Len(g)
                   b == q - Len(g)
        <5>1. /\ Distinct(seqs) /\ l \in 1 .. Len(seqs) /\ a \in 1 .. Len(seqs[l])
              /\ b \in 1 .. Len(seqs[l]) /\ seqs[l][a] = seqs[l][b]
          BY <3>2, <4>1, <4>2, <1>7, <1>s
        <5> HIDE DEF l, a, b
        <5>2. a = b
          BY <5>1, Zenon DEF Distinct
        <5> QED
          BY <5>2 DEF a, b
      <4> QED
        BY <4>3, <1>0, <1>1
    <3> QED
      BY <3>1, <3>2, <1>3
  <2> QED
    BY <2>1, <2>2, <1>3
<1>8. Flat(h, seqs, i + 1)
  BY <1>1, <1>4, <1>5, <1>7 DEF Flat
<1> QED
  BY <1>8 DEF h, s

LEMMA FlatLemma ==
  ASSUME NEW seqs \in Seq(Seq(Task)), Len(seqs) >= 1
  PROVE  Flat(FlattenSeq(seqs), seqs, Len(seqs))
<1> DEFINE n == Len(seqs)
<1>0. n \in Nat /\ n >= 1
  OBVIOUS
<1>1. PICK f : IsFlat(f, seqs) /\ FlattenSeq(seqs) = f[n]
  BY FlatEquation
<1> DEFINE S == {i \in Nat : i + 1 <= n => Flat(f[i + 1], seqs, i + 1)}
<1>2. 0 \in S
  <2>1. f[1] = seqs[1] /\ seqs[1] \in Seq(Task)
    BY <1>0, <1>1 DEF IsFlat
  <2>2. Flat(seqs[1], seqs, 1)
    <3>1. \A k \in 1 .. 1 : k = 1
      OBVIOUS
    <3>2. 1 \in 1 .. Len(seqs) /\ 1 \in 1 .. 1
      BY <1>0
    <3> QED
      BY <2>1, <3>1, <3>2 DEF Flat, Distinct
  <2>3. 0 + 1 = 1
    OBVIOUS
  <2> QED
    BY <2>1, <2>2, <2>3
<1>3. ASSUME NEW i \in Nat, i \in S PROVE i + 1 \in S
  <2>1. ASSUME (i + 1) + 1 <= n PROVE Flat(f[(i + 1) + 1], seqs, (i + 1) + 1)
    <3>1. /\ (i + 1) + 1 \in 1 .. n /\ (i + 1) + 1 # 1 /\ ((i + 1) + 1) - 1 = i + 1
          /\ i + 1 <= n /\ i + 1 \in Nat /\ i + 1 >= 1
      BY <2>1, <1>0
    <3>2. f[(i + 1) + 1] = f[i + 1] \o seqs[(i + 1) + 1]
      BY <3>1, <1>1 DEF IsFlat
    <3>3. Flat(f[i + 1], seqs, i + 1)
      BY <1>3, <3>1
    <3>4. Flat(f[i + 1] \o seqs[(i + 1) + 1], seqs, (i + 1) + 1)
      BY <2>1, <3>1, <3>3, FlatStep
    <3> QED
      BY <3>2, <3>4
  <2> QED
    BY <2>1
<1>4. \A i \in Nat : i \in S
  <2> HIDE DEF S
  <2> QED
    BY <1>2, <1>3, SetInduction
<1>5. n - 1 \in Nat /\ (n - 1) + 1 = n
  BY <1>0
<1>6. Flat(f[n], seqs, n)
  BY <1>4, <1>5
<1> QED
  BY <1>1, <1>6

(* The tasks of all lists.                                                  *)
Listed(t) == UNION {ToSet(t[c]) : c \in Core}

(* The diagnostics task monitors every listed task, or as many as it has    *)
(* room for.                                                                *)
LEMMA MonitoredLemma ==
  ASSUME config \in Configs, NEW t \in [Core -> Seq(Task)]
  PROVE  /\ Monitored(t) \in Seq(Task)
         /\ ~HasDuplicate(t) /\ Cardinality(ToSet(Monitored(t))) < kMaxMonitoredTasks =>
              ToSet(Monitored(t)) = Listed(t)
<1> DEFINE n == kCoreCount
           seqs == [c \in 1 .. n |-> t[c - 1]]
           all == FlattenSeq(seqs)
           mm == kMaxMonitoredTasks
<1>0. n \in Nat /\ n >= 1 /\ Core = 0 .. n - 1 /\ mm \in Nat /\ mm >= 1
  BY BuilderAssumption DEF kCoreCount, Core, ConfigValid
<1>1. Monitored(t) = SubSeq(all, 1, IF Len(all) < mm THEN Len(all) ELSE mm)
  BY DEF Monitored
<1> HIDE DEF n, mm
<1>2. \A c \in 1 .. n : seqs[c] = t[c - 1] /\ c - 1 \in Core /\ t[c - 1] \in Seq(Task)
  BY <1>0
<1>3. seqs \in Seq(Seq(Task)) /\ Len(seqs) = n
  <2>1. seqs \in [1 .. n -> Seq(Task)]
    BY <1>2
  <2> QED
    BY <2>1, <1>0
<1> HIDE DEF seqs
<1>4. Flat(all, seqs, n)
  BY <1>0, <1>3, FlatLemma
<1> HIDE DEF all
<1>5. all \in Seq(Task) /\ Len(all) \in Nat
  BY <1>4 DEF Flat
<1>6. \A c \in Core : c + 1 \in 1 .. n /\ seqs[c + 1] = t[c]
  <2> TAKE c \in Core
  <2>1. c + 1 \in 1 .. n /\ (c + 1) - 1 = c
    BY <1>0
  <2> QED
    BY <2>1, <1>2
<1>7. \A c \in Core : DOMAIN t[c] = 1 .. Len(t[c])
  OBVIOUS
<1>8. ASSUME ~HasDuplicate(t) PROVE Distinct(seqs)
  <2> SUFFICES ASSUME NEW k \in 1 .. n, NEW l \in 1 .. n, NEW a \in 1 .. Len(seqs[k]),
                      NEW b \in 1 .. Len(seqs[l]), seqs[k][a] = seqs[l][b]
               PROVE  k = l /\ a = b
    BY <1>3 DEF Distinct
  <2>1. <<k - 1, a>> \in Slots(t) /\ <<l - 1, b>> \in Slots(t)
    BY <1>2 DEF Slots
  <2>2. TaskIn(t, <<k - 1, a>>) = TaskIn(t, <<l - 1, b>>)
    BY <1>2 DEF TaskIn
  <2>3. <<k - 1, a>> = <<l - 1, b>>
    BY <2>1, <2>2, <1>8 DEF HasDuplicate
  <2>4. k - 1 = l - 1 /\ a = b
    BY <2>3
  <2> QED
    BY <2>4, <1>0
<1>9. ToSet(all) = Listed(t)
  <2>d. DOMAIN all = 1 .. Len(all)
    BY <1>5
  <2>1. ASSUME NEW x \in ToSet(all) PROVE x \in Listed(t)
    <3>1. PICK p \in 1 .. Len(all) : x = all[p]
      BY <2>d DEF ToSet
    <3>2. PICK k \in 1 .. n : \E a \in 1 .. Len(seqs[k]) : all[p] = seqs[k][a]
      BY <1>4 DEF Flat
    <3>3. x \in ToSet(t[k - 1]) /\ k - 1 \in Core
      BY <3>1, <3>2, <1>2, <1>7 DEF ToSet
    <3> QED
      BY <3>3 DEF Listed
  <2>2. ASSUME NEW x \in Listed(t) PROVE x \in ToSet(all)
    <3>1. PICK c \in Core : x \in ToSet(t[c])
      BY DEF Listed
    <3>2. PICK a \in 1 .. Len(t[c]) : x = t[c][a]
      BY <3>1, <1>7 DEF ToSet
    <3>3. c + 1 \in 1 .. n /\ seqs[c + 1] = t[c]
      BY <1>6
    <3> DEFINE k == c + 1
    <3>4. k \in 1 .. n /\ a \in 1 .. Len(seqs[k]) /\ x = seqs[k][a]
      BY <3>2, <3>3
    <3> HIDE DEF k
    <3>5. \E p \in 1 .. Len(all) : all[p] = seqs[k][a]
      BY <3>4, <1>4 DEF Flat
    <3> QED
      BY <3>4, <3>5, <2>d DEF ToSet
  <2> QED
    BY <2>1, <2>2
<1>10. CASE Len(all) < mm
  <2>1. Monitored(t) = all
    BY <1>1, <1>5, <1>10
  <2> QED
    BY <2>1, <1>5, <1>9
<1>11. CASE ~(Len(all) < mm)
  <2> DEFINE mon == SubSeq(all, 1, mm)
  <2>1. Monitored(t) = mon
    BY <1>1, <1>11
  <2>2. mon \in Seq(Task) /\ Len(mon) = mm /\ \A i \in 1 .. mm : mon[i] = all[i] /\ i \in 1 .. Len(all)
    BY <1>0, <1>5, <1>11
  <2> HIDE DEF mon
  <2>3. ASSUME ~HasDuplicate(t) PROVE Cardinality(ToSet(mon)) = mm
    <3> DEFINE f == [i \in 1 .. mm |-> mon[i]]
    <3>1. ToSet(mon) = {mon[i] : i \in 1 .. mm}
      BY <2>2 DEF ToSet
    <3>2. \A p, q \in 1 .. mm : mon[p] = mon[q] => p = q
      BY <2>2, <2>3, <1>4, <1>8 DEF Flat
    <3>3. f \in Bijection(1 .. mm, ToSet(mon))
      BY <3>1, <3>2 DEF Bijection, Injection, Surjection, IsInjective
    <3>4. IsFiniteSet(1 .. mm) /\ Cardinality(1 .. mm) = mm
      BY <1>0, FirstNumbers
    <3>5. ExistsBijection(1 .. mm, ToSet(mon))
      BY <3>3 DEF ExistsBijection
    <3> QED
      BY <3>4, <3>5, FS_Bijection
  <2>4. ~HasDuplicate(t) => ~(Cardinality(ToSet(mon)) < mm)
    BY <2>3, <1>0
  <2> QED
    BY <2>1, <2>2, <2>4 DEF mm
<1> QED
  BY <1>10, <1>11

(* The slots are the places of the lists.                                   *)
LEMMA WiredLemma ==
  ASSUME NEW t \in [Core -> Seq(Task)]
  PROVE  {TaskIn(t, s) : s \in Slots(t)} = Listed(t)
<1>0. \A c \in Core : DOMAIN t[c] = 1 .. Len(t[c])
  OBVIOUS
<1>1. ASSUME NEW s \in Slots(t) PROVE TaskIn(t, s) \in Listed(t)
  <2>1. PICK c \in Core : s \in {c} \X (1 .. Len(t[c]))
    BY DEF Slots
  <2>2. s[1] = c /\ s[2] \in 1 .. Len(t[c])
    BY <2>1
  <2>3. TaskIn(t, s) \in ToSet(t[c])
    BY <2>2, <1>0 DEF TaskIn, ToSet
  <2> QED
    BY <2>3 DEF Listed
<1>2. ASSUME NEW x \in Listed(t) PROVE \E s \in Slots(t) : x = TaskIn(t, s)
  <2>1. PICK c \in Core : x \in ToSet(t[c])
    BY DEF Listed
  <2>2. PICK a \in 1 .. Len(t[c]) : x = t[c][a]
    BY <2>1, <1>0 DEF ToSet
  <2>3. <<c, a>> \in Slots(t) /\ TaskIn(t, <<c, a>>) = x
    BY <2>2 DEF Slots, TaskIn
  <2> QED
    BY <2>3
<1> QED
  BY <1>1, <1>2

LEMMA VerdictType == ASSUME NEW t PROVE Verdict(t) \in Verdicts
<1>1. SchedulingVerdict(t) \in Verdicts
  BY DEF SchedulingVerdict, Verdicts
<1>2. CrunchVerdict(t) \in Verdicts
  BY DEF CrunchVerdict, Verdicts
<1> QED
  BY <1>1, <1>2 DEF Verdict, Verdicts

-----------------------------------------------------------------------------
(* The inductive invariant.                                                 *)

LEMMA CoreLemma ==
  ASSUME config \in Configs
  PROVE  kCoreCount \in Nat /\ kCoreCount >= 1 /\ Core = 0 .. kCoreCount - 1 /\ 0 \in Core /\ kMaxTasks \in Nat
BY BuilderAssumption DEF kCoreCount, Core, ConfigValid

LEMMA ArrangedEmpty == Arranged(<<>>, <<>>)
<1> DEFINE none == [i \in 1 .. 0 |-> 0]
<1>1. none \in [1 .. 0 -> 0 .. 0]
  OBVIOUS
<1> HIDE DEF none
<1>2. Ranks(none, <<>>, <<>>)
  BY DEF Ranks
<1> QED
  BY <1>1, <1>2 DEF Arranged

LEMMA BuilderInit == Init => BuilderInv
<1> SUFFICES ASSUME Init PROVE BuilderInv
  OBVIOUS
<1>0. config \in Configs /\ 0 \in Core
  BY CoreLemma DEF Init
<1>1. TypeOK
  <2>1. tasks \in [Core -> Seq(Task)] /\ registered \in [Core -> Seq(UserTask)]
    BY DEF Init
  <2>2. \A c \in Core : Len(tasks[c]) <= kMaxTasks
    BY BuilderAssumption DEF Init
  <2>3. /\ diags \in [kick : BOOLEAN, drain : BOOLEAN, monitored : Seq(Task)]
        /\ given \in [stream : BOOLEAN, kick : BOOLEAN, clock : BOOLEAN]
    BY DEF Init, NoDiags, NothingGiven
  <2>4. stops \in 0 .. kMaxStopConditions /\ calls \in 0 .. MaxCalls
    BY BuilderAssumption DEF Init
  <2>5. {app, s_built, drainFn, kickFn, mutex} \subseteq BOOLEAN
    BY DEF Init
  <2>6. crunchTask \in [Core -> CrunchTask \cup {NoCrunch}] /\ ring \in Seq(Background \cup {Diags})
    BY DEF Init
  <2>7. bgCore \in Core /\ clocked \subseteq Timed /\ windowed \subseteq Timed \cup Monitors
    BY <1>0 DEF Init
  <2>8. result \in Verdicts \cup {"none"} /\ overloaded \subseteq Core
    BY DEF Init
  <2> QED
    BY <1>0, <2>1, <2>2, <2>3, <2>4, <2>5, <2>6, <2>7, <2>8 DEF TypeOK
<1>2. ClockInv /\ PlacedInv
  BY DEF Init, ClockInv, PlacedInv, ToSet
<1>3. \A c \in Core : Arranged(tasks[c], registered[c])
  BY ArrangedEmpty DEF Init
<1> QED
  BY <1>1, <1>2, <1>3 DEF BuilderInv

(* Of which lists a build makes those of the system.                        *)
BuiltFrom(p) ==
  /\ p \in [Core -> Seq(Task)] /\ \A c \in Core : Len(p[c]) <= kMaxTasks
  /\ IF app THEN Placed(tasks, p) ELSE p = tasks
  /\ tasks' = [c \in Core |-> SortByPriority(p[c])] /\ tasks' \in [Core -> Seq(Task)]
  /\ \A c \in Core : Len(tasks'[c]) = Len(p[c]) /\ ToSet(tasks'[c]) = ToSet(p[c])

LEMMA BuildLists ==
  ASSUME TypeOK, Build
  PROVE  BuiltFrom(IF app THEN PlaceKernelTasks(tasks) ELSE tasks)
<1> DEFINE p == IF app THEN PlaceKernelTasks(tasks) ELSE tasks
<1>0. /\ config \in Configs /\ tasks \in [Core -> Seq(Task)]
      /\ \A c \in Core : Len(tasks[c]) <= kMaxTasks
  BY DEF TypeOK
<1>1. IF app THEN Placed(tasks, p) ELSE p = tasks
  BY <1>0, PlaceLemma
<1>2. tasks' = [c \in Core |-> SortByPriority(p[c])]
  BY DEF Build
<1> HIDE DEF p
<1>3. p \in [Core -> Seq(Task)] /\ \A c \in Core : Len(p[c]) <= kMaxTasks
  BY <1>0, <1>1 DEF Placed, Grown
<1>4. ASSUME NEW c \in Core
      PROVE  /\ tasks'[c] = SortByPriority(p[c]) /\ tasks'[c] \in Seq(Task)
             /\ Len(tasks'[c]) = Len(p[c]) /\ ToSet(tasks'[c]) = ToSet(p[c])
  <2>1. p[c] \in Seq(Task)
    BY <1>3
  <2>2. tasks'[c] = SortByPriority(p[c])
    BY <1>2
  <2> QED
    BY <2>1, <2>2, SortMembers
<1>5. tasks' \in [Core -> Seq(Task)]
  <2>1. tasks' = [c \in Core |-> tasks'[c]]
    BY <1>2
  <2> QED
    BY <2>1, <1>4
<1>6. BuiltFrom(p)
  BY <1>1, <1>2, <1>3, <1>4, <1>5 DEF BuiltFrom
<1> QED
  BY <1>6 DEF p

(* What is wired is measured by a timer.                                    *)
LEMMA WiredTimed ==
  ASSUME TypeOK, NEW t \in [Core -> Seq(Task)], NEW r \in Seq(Background \cup {Diags})
  PROVE  WiredTasks(t, r) \subseteq Task \cup CrunchTask \cup Background \cup {Diags}
<1>1. {TaskIn(t, s) : s \in Slots(t)} \subseteq Task
  <2>1. \A c \in Core : ToSet(t[c]) \subseteq Task
    BY DEF ToSet
  <2>2. Listed(t) \subseteq Task
    BY <2>1 DEF Listed
  <2> QED
    BY <2>2, WiredLemma
<1>2. ToSet(r) \subseteq Background \cup {Diags}
  BY DEF ToSet
<1>3. {crunchTask[c] : c \in {d \in Core : IsCrunch(d)}} \subseteq CrunchTask
  BY DEF TypeOK, IsCrunch
<1> QED
  BY <1>1, <1>2, <1>3 DEF WiredTasks

LEMMA BuildType == ASSUME TypeOK, Build PROVE TypeOK'
<1> DEFINE placed == IF app THEN PlaceKernelTasks(tasks) ELSE tasks
           verdict == Verdict(tasks')
<1>0. config \in Configs /\ UNCHANGED <<config, app, given, crunchTask, registered, drainFn, mutex, stops>>
  BY DEF TypeOK, Build
<1>1. /\ tasks' = [c \in Core |-> SortByPriority(placed[c])] /\ result' = verdict
      /\ s_built' = (verdict = "ok")
      /\ calls < MaxCalls /\ calls' = calls + 1
      /\ ring' = IF app THEN Append(ring, Diags) ELSE ring
      /\ bgCore' = IF app THEN BackgroundCore(placed) ELSE bgCore
      /\ kickFn' = IF app THEN given.kick ELSE kickFn
  BY DEF Build, Called
<1>2. /\ diags' = IF app THEN [kick |-> given.kick, drain |-> drainFn,
                              monitored |-> IF verdict = "ok" THEN Monitored(tasks') ELSE <<>>]
                  ELSE diags
      /\ overloaded' = IF SchedulingVerdict(tasks') = "ok"
                       THEN {c \in Core : Utilisation(tasks'[c]) > 800} ELSE overloaded
      /\ clocked' = Emplaced(clocked) \cup (IF verdict = "ok" THEN PropagateClock(tasks', ring') ELSE {})
      /\ windowed' = Emplaced(windowed) \cup (IF verdict = "ok" THEN PropagateWindow(tasks', ring') ELSE {})
  BY <1>1 DEF Build
<1>3. BuiltFrom(placed)
  BY BuildLists
<1>c. Core' = Core
  BY <1>0 DEF Core, kCoreCount
<1> HIDE DEF placed, verdict
<1>4. /\ tasks' \in [Core -> Seq(Task)] /\ \A c \in Core : Len(tasks'[c]) <= kMaxTasks
      /\ placed \in [Core -> Seq(Task)]
  BY <1>3 DEF BuiltFrom
<1>5. ring' \in Seq(Background \cup {Diags})
  BY <1>1 DEF TypeOK
<1>6. bgCore' \in Core
  <2>1. BackgroundCore(placed) \in Core
    <3> DEFINE active == {c \in Core : IsActive(placed, c)}
    <3>1. CASE active = {}
      BY <3>1, <1>0, CoreLemma DEF BackgroundCore
    <3>2. CASE active # {}
      <4>1. active \in SUBSET (0 .. kCoreCount - 1) /\ kCoreCount - 1 \in Int
        BY <1>0, CoreLemma
      <4>2. \E m \in active : \A d \in active : d <= m
        <5> HIDE DEF active
        <5>1. active \in SUBSET Nat /\ \A d \in active : d <= kCoreCount - 1
          BY <4>1
        <5>2. kCoreCount - 1 \in Nat
          BY <1>0, CoreLemma
        <5> QED
          BY <3>2, <5>1, <5>2, GreatestElement
      <4> DEFINE last == CHOOSE c \in active : \A d \in active : d <= c
      <4>3. last \in active
        <5> HIDE DEF active
        <5> QED
          BY <4>2
      <4>4. BackgroundCore(placed) = last
        BY <3>2 DEF BackgroundCore
      <4> QED
        BY <4>3, <4>4
    <3> QED
      BY <3>1, <3>2
  <2> QED
    BY <2>1, <1>1 DEF TypeOK
<1>7. result' \in Verdicts \cup {"none"} /\ calls' \in 0 .. MaxCalls /\ overloaded' \subseteq Core
  <2>1. result' \in Verdicts
    BY <1>1, VerdictType DEF verdict
  <2>2. calls' \in 0 .. MaxCalls
    BY <1>1, BuilderAssumption DEF TypeOK
  <2>3. overloaded' \subseteq Core
    BY <1>2 DEF TypeOK
  <2> QED
    BY <2>1, <2>2, <2>3
<1>8. {app, s_built, drainFn, kickFn, mutex}' \subseteq BOOLEAN
  <2>1. s_built' \in BOOLEAN
    BY <1>1
  <2>2. kickFn' \in BOOLEAN
    BY <1>1 DEF TypeOK
  <2>3. app' \in BOOLEAN /\ drainFn' \in BOOLEAN /\ mutex' \in BOOLEAN
    BY <1>0 DEF TypeOK
  <2> QED
    BY <2>1, <2>2, <2>3
<1>9. diags' \in [kick : BOOLEAN, drain : BOOLEAN, monitored : Seq(Task)]
  <2>1. Monitored(tasks') \in Seq(Task)
    BY <1>0, <1>4, MonitoredLemma
  <2>2. given.kick \in BOOLEAN /\ drainFn \in BOOLEAN
    BY DEF TypeOK
  <2>3. (IF verdict = "ok" THEN Monitored(tasks') ELSE <<>>) \in Seq(Task)
    BY <2>1
  <2> QED
    BY <1>2, <2>2, <2>3 DEF TypeOK
<1>10. clocked' \subseteq Timed /\ windowed' \subseteq Timed \cup Monitors
  <2>1. WiredTasks(tasks', ring') \subseteq Task \cup CrunchTask \cup Background \cup {Diags}
    BY <1>4, <1>5, WiredTimed
  <2>2. Emplaced(clocked) \subseteq clocked /\ Emplaced(windowed) \subseteq windowed
    BY DEF Emplaced
  <2> QED
    BY <1>2, <2>1, <2>2 DEF TypeOK, Timed, PropagateClock, PropagateWindow
<1> QED
  BY <1>0, <1>c, <1>4, <1>5, <1>6, <1>7, <1>8, <1>9, <1>10 DEF TypeOK

LEMMA CalledLemma == ASSUME calls \in 0 .. MaxCalls, Called PROVE calls' \in 0 .. MaxCalls
BY BuilderAssumption DEF Called

(* Every step keeps the types.                                              *)
LEMMA BuilderType == ASSUME TypeOK, [Next]_vars PROVE TypeOK'
<1>0. config \in Configs /\ kCoreCount \in Nat /\ kCoreCount >= 1 /\ 0 \in Core /\ Core = 0 .. kCoreCount - 1
  BY CoreLemma DEF TypeOK
<1> USE DEF topology, hooks, wiring
<1>1. ASSUME NEW id \in 0 .. kCoreCount, NEW t \in UserTask, AddScheduledTask(id, t) PROVE TypeOK'
  <2> DEFINE c == CoreOf(id)
  <2>1. c \in Core
    BY <1>0 DEF CoreOf
  <2>2. /\ config' = config /\ calls' \in 0 .. MaxCalls
        /\ UNCHANGED <<app, given, crunchTask, ring, bgCore, s_built, drainFn, kickFn, mutex, stops,
                       diags, clocked, windowed, result, overloaded>>
        /\ tasks' = [tasks EXCEPT ![c] = AddTask(tasks[c], t)]
        /\ registered' = IF Len(tasks[c]) < kMaxTasks
                         THEN [registered EXCEPT ![c] = Append(registered[c], t)] ELSE registered
    BY <1>1, CalledLemma DEF AddScheduledTask, TypeOK
  <2> HIDE DEF c
  <2>3. AddTask(tasks[c], t) \in Seq(Task) /\ Len(AddTask(tasks[c], t)) <= kMaxTasks
    <3>1. tasks[c] \in Seq(Task) /\ Len(tasks[c]) <= kMaxTasks /\ kMaxTasks \in Nat /\ t \in Task
      BY <2>1, BuilderAssumption DEF TypeOK, Task
    <3> QED
      BY <3>1 DEF AddTask
  <2>4. tasks' \in [Core -> Seq(Task)] /\ \A d \in Core : Len(tasks'[d]) <= kMaxTasks
    BY <2>1, <2>2, <2>3 DEF TypeOK
  <2>5. registered' \in [Core -> Seq(UserTask)]
    BY <2>1, <2>2 DEF TypeOK
  <2>6. Core' = Core
    BY <2>2 DEF Core, kCoreCount
  <2> QED
    BY <2>2, <2>4, <2>5, <2>6 DEF TypeOK
<1>2. ASSUME NEW id \in 0 .. kCoreCount, NEW k \in CrunchTask, SetCrunchTask(id, k) PROVE TypeOK'
  <2>1. CoreOf(id) \in Core
    BY <1>0 DEF CoreOf
  <2>2. calls' \in 0 .. MaxCalls
    BY <1>2, CalledLemma DEF SetCrunchTask, TypeOK
  <2>3. crunchTask' \in [Core -> CrunchTask \cup {NoCrunch}] /\ Core' = Core
    BY <1>2, <2>1 DEF SetCrunchTask, TypeOK, Core, kCoreCount
  <2> QED
    BY <1>2, <2>2, <2>3 DEF SetCrunchTask, TypeOK
<1>3. ASSUME NEW b \in Background, AddBackgroundTask(b) PROVE TypeOK'
  <2>1. calls' \in 0 .. MaxCalls
    BY <1>3, CalledLemma DEF AddBackgroundTask, TypeOK
  <2>2. ring' \in Seq(Background \cup {Diags})
    <3>1. ring \in Seq(Background \cup {Diags}) /\ b \in Background \cup {Diags}
      BY DEF TypeOK
    <3> QED
      BY <1>3, <3>1 DEF AddBackgroundTask
  <2>3. Core' = Core
    BY <1>3 DEF AddBackgroundTask, Core, kCoreCount
  <2> QED
    BY <1>3, <2>1, <2>2, <2>3 DEF AddBackgroundTask, TypeOK
<1>4. ASSUME NEW what \in {"stream", "kick", "clock"}, Give(what) PROVE TypeOK'
  <2>1. calls' \in 0 .. MaxCalls
    BY <1>4, CalledLemma DEF Give, TypeOK
  <2>2. given' \in [stream : BOOLEAN, kick : BOOLEAN, clock : BOOLEAN]
    BY <1>4 DEF Give, TypeOK
  <2>3. Core' = Core
    BY <1>4 DEF Give, Core, kCoreCount
  <2> QED
    BY <1>4, <2>1, <2>2, <2>3 DEF Give, TypeOK
<1>5. CASE AddStopCondition \/ SetTelemetryDrain \/ SetTelemetryMutex
  <2>0. Hooked
    BY <1>5 DEF AddStopCondition, SetTelemetryDrain, SetTelemetryMutex
  <2>1. calls' \in 0 .. MaxCalls
    BY <2>0, CalledLemma DEF Hooked, TypeOK
  <2>2. Core' = Core
    BY <2>0 DEF Hooked, Core, kCoreCount
  <2>3. stops' \in 0 .. kMaxStopConditions
    BY <1>5, BuilderAssumption DEF AddStopCondition, SetTelemetryDrain, SetTelemetryMutex, TypeOK
  <2>4. drainFn' \in BOOLEAN /\ mutex' \in BOOLEAN
    BY <1>5 DEF AddStopCondition, SetTelemetryDrain, SetTelemetryMutex, TypeOK
  <2> QED
    BY <2>0, <2>1, <2>2, <2>3, <2>4 DEF Hooked, TypeOK
<1>6. CASE Build
  BY <1>6, BuildType
<1>7. CASE BuildAgain
  <2>1. calls' \in 0 .. MaxCalls
    BY <1>7, CalledLemma DEF BuildAgain, TypeOK
  <2>2. Core' = Core
    BY <1>7 DEF BuildAgain, Core, kCoreCount
  <2> QED
    BY <1>7, <2>1, <2>2 DEF BuildAgain, TypeOK, Verdicts
<1>8. CASE Reset
  <2>1. Core' = Core /\ config' = config /\ calls' = calls
    BY <1>8 DEF Reset, Core, kCoreCount
  <2>2. tasks' \in [Core -> Seq(Task)] /\ registered' \in [Core -> Seq(UserTask)]
    BY <1>8 DEF Reset, ResetStatics, Unregister
  <2>3. \A c \in Core : Len(tasks'[c]) <= kMaxTasks
    BY <1>8, BuilderAssumption DEF Reset, ResetStatics, Unregister
  <2>4. crunchTask' \in [Core -> CrunchTask \cup {NoCrunch}] /\ ring' \in Seq(Background \cup {Diags})
    BY <1>8 DEF Reset, ResetStatics, Unregister
  <2>5. /\ diags' \in [kick : BOOLEAN, drain : BOOLEAN, monitored : Seq(Task)]
        /\ given' \in [stream : BOOLEAN, kick : BOOLEAN, clock : BOOLEAN]
    BY <1>8 DEF Reset, ResetStatics, Unregister, NoDiags, NothingGiven
  <2>6. {app, s_built, drainFn, kickFn, mutex}' \subseteq BOOLEAN
    BY <1>8 DEF Reset, ResetStatics, Unregister, TypeOK
  <2>7. bgCore' \in Core /\ clocked' \subseteq Timed /\ windowed' \subseteq Timed \cup Monitors
    BY <1>8, <1>0 DEF Reset, ResetStatics, Unregister, TypeOK
  <2>8. stops' \in 0 .. kMaxStopConditions /\ overloaded' \subseteq Core /\ result' \in Verdicts \cup {"none"}
    BY <1>8, BuilderAssumption DEF Reset, ResetStatics, Unregister
  <2> QED
    BY <2>1, <2>2, <2>3, <2>4, <2>5, <2>6, <2>7, <2>8 DEF TypeOK
<1>9. CASE UNCHANGED vars
  BY <1>9 DEF vars, TypeOK, Core, kCoreCount
<1> QED
  BY <1>1, <1>2, <1>3, <1>4, <1>5, <1>6, <1>7, <1>8, <1>9 DEF Next, SetStream, SetWatchdogKick, SetClockSource


(* The clock of the kernel's timers is the one this builder was given.      *)
LEMMA BuilderClock == ASSUME TypeOK, ClockInv, [Next]_vars PROVE ClockInv'
<1> USE DEF topology, hooks, wiring
<1>1. ASSUME NEW what \in {"stream", "kick", "clock"}, Give(what) PROVE ClockInv'
  BY <1>1 DEF Give, ClockInv, TypeOK
<1>2. CASE Build
  <2>1. given' = given
    BY <1>2 DEF Build
  <2>2. ~given.clock => clocked' \subseteq clocked
    BY <1>2 DEF Build, PropagateClock, Emplaced
  <2> QED
    BY <2>1, <2>2 DEF ClockInv
<1>3. CASE Reset
  BY <1>3 DEF Reset, ResetStatics, Unregister, ClockInv
<1>4. CASE UNCHANGED <<given, clocked>>
  BY <1>4 DEF ClockInv
<1>5. ASSUME NEW id \in 0 .. kCoreCount,
             (\E t \in UserTask : AddScheduledTask(id, t)) \/ (\E k \in CrunchTask : SetCrunchTask(id, k))
      PROVE  ClockInv'
  BY <1>4, <1>5 DEF AddScheduledTask, SetCrunchTask
<1>6. CASE (\E b \in Background : AddBackgroundTask(b)) \/ AddStopCondition \/ SetTelemetryDrain
           \/ SetTelemetryMutex \/ BuildAgain \/ UNCHANGED vars
  BY <1>4, <1>6 DEF AddBackgroundTask, AddStopCondition, SetTelemetryDrain, SetTelemetryMutex, Hooked,
                    BuildAgain, vars
<1> QED
  BY <1>1, <1>2, <1>3, <1>5, <1>6 DEF Next, SetStream, SetWatchdogKick, SetClockSource

(* The kernel tasks are in the lists if diagnostics is in the ring.         *)
LEMMA BuilderPlaced == ASSUME TypeOK, PlacedInv, [Next]_vars PROVE PlacedInv'
<1>0. config \in Configs /\ kCoreCount \in Nat /\ 0 \in Core /\ Core = 0 .. kCoreCount - 1 /\ kMaxTasks \in Nat
  BY CoreLemma DEF TypeOK
<1>t. \A c \in Core : tasks[c] \in Seq(Task) /\ Len(tasks[c]) \in Nat
  BY DEF TypeOK
<1> USE DEF topology, hooks, wiring
(* It is enough that the lists only grow.                                   *)
<1>1. ASSUME config' = config, ToSet(ring') \cap {Diags} \subseteq ToSet(ring),
             \A c \in Core : Len(tasks'[c]) \in Nat /\ Len(tasks[c]) <= Len(tasks'[c]),
             ToSet(tasks[0]) \subseteq ToSet(tasks'[0])
      PROVE  PlacedInv'
  <2>1. Core' = Core
    BY <1>1 DEF Core, kCoreCount
  <2>2. HasRoom' => HasRoom
    BY <1>0, <1>t, <1>1, <2>1 DEF HasRoom
  <2> QED
    BY <1>1, <2>2 DEF PlacedInv
<1>2. CASE UNCHANGED <<config, tasks, ring>>
  BY <1>2, <1>1, <1>t
<1>3. ASSUME NEW id \in 0 .. kCoreCount, NEW t \in UserTask, AddScheduledTask(id, t) PROVE PlacedInv'
  <2> DEFINE c == CoreOf(id)
             new == AddTask(tasks[c], t)
  <2>1. c \in Core
    BY <1>0 DEF CoreOf
  <2>2. config' = config /\ ring' = ring /\ tasks' = [tasks EXCEPT ![c] = new]
    BY <1>3 DEF AddScheduledTask
  <2> HIDE DEF c
  <2>3. Len(new) \in Nat /\ Len(tasks[c]) <= Len(new) /\ ToSet(tasks[c]) \subseteq ToSet(new)
    <3>1. tasks[c] \in Seq(Task) /\ t \in Task
      BY <2>1, <1>t DEF Task
    <3>2. CASE Len(tasks[c]) < kMaxTasks
      <4>1. new = Append(tasks[c], t)
        BY <3>2 DEF AddTask
      <4> HIDE DEF new
      <4> QED
        BY <3>1, <4>1 DEF ToSet
    <3>3. CASE ~(Len(tasks[c]) < kMaxTasks)
      <4>1. new = tasks[c]
        BY <3>3 DEF AddTask
      <4> QED
        BY <3>1, <4>1
    <3> QED
      BY <3>2, <3>3
  <2> HIDE DEF new
  <2>4. \A d \in Core : tasks'[d] = IF d = c THEN new ELSE tasks[d]
    BY <2>1, <2>2 DEF TypeOK
  <2>5. \A d \in Core : Len(tasks'[d]) \in Nat /\ Len(tasks[d]) <= Len(tasks'[d])
    BY <2>3, <2>4, <1>t
  <2>6. ToSet(tasks[0]) \subseteq ToSet(tasks'[0])
    BY <2>3, <2>4, <1>0
  <2> QED
    BY <2>2, <2>5, <2>6, <1>1
<1>4. ASSUME NEW b \in Background, AddBackgroundTask(b) PROVE PlacedInv'
  <2>1. UNCHANGED <<config, tasks>> /\ (ring' = Append(ring, b) \/ ring' = ring)
    BY <1>4 DEF AddBackgroundTask
  <2>2. b # Diags /\ ring \in Seq(Background \cup {Diags})
    BY NamesAssumption DEF TypeOK
  <2>3. ToSet(ring') \cap {Diags} \subseteq ToSet(ring)
    BY <2>1, <2>2 DEF ToSet
  <2> QED
    BY <2>1, <2>3, <1>1, <1>t
<1>5. CASE Build
  <2> DEFINE p == IF app THEN PlaceKernelTasks(tasks) ELSE tasks
  <2>1. BuiltFrom(p) /\ config' = config
    BY <1>5, BuildLists DEF Build
  <2> HIDE DEF p
  <2>2. \A c \in Core : Len(tasks'[c]) = Len(p[c]) /\ ToSet(tasks'[c]) = ToSet(p[c]) /\ Len(p[c]) \in Nat
    BY <2>1 DEF BuiltFrom
  <2>3. CASE ~app
    <3>1. p = tasks /\ ring' = ring
      BY <1>5, <2>1, <2>3 DEF BuiltFrom, Build
    <3> QED
      BY <2>1, <2>2, <3>1, <1>0, <1>1
  <2>4. CASE app
    <3> SUFFICES ASSUME HasRoom' PROVE Control \in ToSet(tasks'[0])
      BY DEF PlacedInv
    <3>1. PICK d \in 0 .. 2 :
            /\ Grown(tasks[0], p[0], d)
            /\ Len(tasks[0]) + 2 <= kMaxTasks => \E i \in 1 .. d : p[0][i] = Control
      BY <2>1, <2>4, <1>0 DEF BuiltFrom, Placed
    <3>2. Len(p[0]) = d + Len(tasks[0]) /\ p[0] \in Seq(Task)
      BY <3>1 DEF Grown
    <3>3. Len(tasks'[0]) + 2 <= kMaxTasks
      <4>1. Core' = Core
        BY <2>1 DEF Core, kCoreCount
      <4> QED
        BY <4>1, <1>0 DEF HasRoom
    <3>4. Len(tasks[0]) + 2 <= kMaxTasks
      BY <2>2, <3>2, <3>3, <1>0, <1>t
    <3>5. PICK i \in 1 .. d : p[0][i] = Control
      BY <3>1, <3>4
    <3>6. i \in 1 .. Len(p[0]) /\ DOMAIN p[0] = 1 .. Len(p[0])
      BY <3>2, <1>0, <1>t
    <3>7. Control \in ToSet(p[0])
      BY <3>5, <3>6 DEF ToSet
    <3> QED
      BY <2>2, <3>7, <1>0
  <2> QED
    BY <2>3, <2>4
<1>6. CASE Reset
  BY <1>6 DEF Reset, ResetStatics, Unregister, PlacedInv, ToSet
<1>7. ASSUME NEW id \in 0 .. kCoreCount, NEW k \in CrunchTask, SetCrunchTask(id, k) PROVE PlacedInv'
  BY <1>2, <1>7 DEF SetCrunchTask
<1>8. ASSUME NEW what \in {"stream", "kick", "clock"}, Give(what) PROVE PlacedInv'
  BY <1>2, <1>8 DEF Give
<1>9. CASE AddStopCondition \/ SetTelemetryDrain \/ SetTelemetryMutex \/ BuildAgain \/ UNCHANGED vars
  BY <1>2, <1>9 DEF AddStopCondition, SetTelemetryDrain, SetTelemetryMutex, Hooked, BuildAgain, vars
<1> QED
  BY <1>3, <1>4, <1>5, <1>6, <1>7, <1>8, <1>9 DEF Next, SetStream, SetWatchdogKick, SetClockSource

AllArranged == \A c \in Core : Arranged(tasks[c], registered[c])

(* The lists stay arranged.                                                 *)
LEMMA BuilderArranged == ASSUME TypeOK, AllArranged, [Next]_vars PROVE AllArranged'
<1>0. config \in Configs /\ kCoreCount \in Nat /\ 0 \in Core /\ Core = 0 .. kCoreCount - 1
  BY CoreLemma DEF TypeOK
<1>t. \A c \in Core : tasks[c] \in Seq(Task) /\ registered[c] \in Seq(UserTask)
  BY DEF TypeOK
<1>a. \A c \in Core : Arranged(tasks[c], registered[c])
  BY DEF AllArranged
<1> USE DEF topology, hooks, wiring
<1>1. ASSUME config' = config, \A c \in Core : Arranged(tasks'[c], registered'[c]) PROVE AllArranged'
  <2>1. Core' = Core
    BY <1>1 DEF Core, kCoreCount
  <2> QED
    BY <1>1, <2>1 DEF AllArranged
<1>2. CASE UNCHANGED <<config, tasks, registered>>
  BY <1>2, <1>1, <1>a
<1>3. ASSUME NEW id \in 0 .. kCoreCount, NEW t \in UserTask, AddScheduledTask(id, t) PROVE AllArranged'
  <2> DEFINE c == CoreOf(id)
  <2>1. c \in Core
    BY <1>0 DEF CoreOf
  <2>2. /\ config' = config /\ tasks' = [tasks EXCEPT ![c] = AddTask(tasks[c], t)]
        /\ registered' = IF Len(tasks[c]) < kMaxTasks
                         THEN [registered EXCEPT ![c] = Append(registered[c], t)] ELSE registered
    BY <1>3 DEF AddScheduledTask
  <2> HIDE DEF c
  <2>3. CASE Len(tasks[c]) < kMaxTasks
    <3>1. /\ tasks' = [tasks EXCEPT ![c] = Append(tasks[c], t)]
          /\ registered' = [registered EXCEPT ![c] = Append(registered[c], t)]
      BY <2>2, <2>3 DEF AddTask
    <3>2. Arranged(Append(tasks[c], t), Append(registered[c], t))
      BY <2>1, <1>t, <1>a, ArrangedAppend
    <3>3. /\ tasks'[c] = Append(tasks[c], t) /\ registered'[c] = Append(registered[c], t)
          /\ \A d \in Core \ {c} : tasks'[d] = tasks[d] /\ registered'[d] = registered[d]
      BY <2>1, <3>1 DEF TypeOK
    <3>4. ASSUME NEW d \in Core PROVE Arranged(tasks'[d], registered'[d])
      <4>1. CASE d = c
        BY <4>1, <3>2, <3>3
      <4>2. CASE d # c
        BY <4>2, <3>3, <1>a
      <4> QED
        BY <4>1, <4>2
    <3> QED
      BY <2>2, <3>4, <1>1
  <2>4. CASE ~(Len(tasks[c]) < kMaxTasks)
    <3>1. tasks' = [tasks EXCEPT ![c] = tasks[c]] /\ registered' = registered
      BY <2>2, <2>4 DEF AddTask
    <3>2. tasks' = tasks
      BY <2>1, <3>1 DEF TypeOK
    <3> QED
      BY <2>2, <3>1, <3>2, <1>2
  <2> QED
    BY <2>3, <2>4
<1>4. CASE Build
  <2> DEFINE p == IF app THEN PlaceKernelTasks(tasks) ELSE tasks
  <2>1. BuiltFrom(p) /\ config' = config /\ registered' = registered
    BY <1>4, BuildLists DEF Build
  <2> HIDE DEF p
  <2>2. ASSUME NEW c \in Core PROVE Arranged(tasks'[c], registered'[c])
    <3>1. p[c] \in Seq(Task) /\ tasks'[c] = SortByPriority(p[c])
      BY <2>1 DEF BuiltFrom
    <3>2. Arranged(p[c], registered[c])
      <4>1. CASE app
        <5>1. PICK d \in 0 .. 2 : Grown(tasks[c], p[c], d)
          BY <2>1, <4>1 DEF BuiltFrom, Placed
        <5>2. d \in Nat
          OBVIOUS
        <5> QED
          BY <5>1, <5>2, <1>t, <1>a, ArrangedGrown
      <4>2. CASE ~app
        BY <2>1, <4>2, <1>a DEF BuiltFrom
      <4> QED
        BY <4>1, <4>2
    <3>3. Arranged(SortByPriority(p[c]), registered[c])
      BY <3>1, <3>2, <1>t, ArrangedSort
    <3> QED
      BY <2>1, <3>1, <3>3
  <2> QED
    BY <2>1, <2>2, <1>1
<1>5. CASE Reset
  <2>1. config' = config /\ \A c \in Core : tasks'[c] = <<>> /\ registered'[c] = <<>>
    BY <1>5 DEF Reset, ResetStatics, Unregister
  <2> QED
    BY <2>1, <1>1, ArrangedEmpty
<1>6. ASSUME NEW id \in 0 .. kCoreCount, NEW k \in CrunchTask, SetCrunchTask(id, k) PROVE AllArranged'
  BY <1>2, <1>6 DEF SetCrunchTask
<1>7. ASSUME NEW what \in {"stream", "kick", "clock"}, Give(what) PROVE AllArranged'
  BY <1>2, <1>7 DEF Give
<1>8. CASE (\E b \in Background : AddBackgroundTask(b)) \/ AddStopCondition \/ SetTelemetryDrain
           \/ SetTelemetryMutex \/ BuildAgain \/ UNCHANGED vars
  BY <1>2, <1>8 DEF AddBackgroundTask, AddStopCondition, SetTelemetryDrain, SetTelemetryMutex, Hooked,
                    BuildAgain, vars
<1> QED
  BY <1>3, <1>4, <1>5, <1>6, <1>7, <1>8 DEF Next, SetStream, SetWatchdogKick, SetClockSource

(* SystemBuilder.h: after any calls, failed builds and resets the types     *)
(* hold, the kernel's timers have no clock but the one given, the kernel    *)
(* tasks are in the lists if diagnostics is in the ring and they had room,  *)
(* and equals stand in the order of their registration.                     *)
THEOREM BuilderInvariant == Spec => []BuilderInv
<1>1. Init => BuilderInv
  BY BuilderInit
<1>2. BuilderInv /\ [Next]_vars => BuilderInv'
  <2> SUFFICES ASSUME BuilderInv, [Next]_vars PROVE BuilderInv'
    OBVIOUS
  <2>1. TypeOK /\ ClockInv /\ PlacedInv /\ AllArranged
    BY DEF BuilderInv, AllArranged
  <2>2. TypeOK' /\ ClockInv' /\ PlacedInv' /\ AllArranged'
    BY <2>1, BuilderType, BuilderClock, BuilderPlaced, BuilderArranged
  <2> QED
    BY <2>2 DEF BuilderInv, AllArranged
<1> QED
  BY <1>1, <1>2, PTL DEF Spec

-----------------------------------------------------------------------------
(* What a successful build() has established.                               *)

(* Only build() builds, and only what it has validated.                     *)
LEMMA BuiltLemma ==
  ASSUME [Next]_vars, JustBuilt
  PROVE  Build /\ Verdict(tasks') = "ok" /\ ~HasDuplicate(tasks') /\ CrunchVerdict(tasks') = "ok"
<1> USE DEF topology, hooks, wiring
<1>1. Build
  BY DEF Next, vars, JustBuilt, AddScheduledTask, SetCrunchTask, AddBackgroundTask, SetStream,
         SetWatchdogKick, SetClockSource, Give, AddStopCondition, SetTelemetryDrain,
         SetTelemetryMutex, Hooked, BuildAgain, Reset, ResetStatics, Unregister
<1>2. s_built' = (Verdict(tasks') = "ok")
  BY <1>1 DEF Build
<1>3. Verdict(tasks') = "ok"
  BY <1>2 DEF JustBuilt
<1>4. SchedulingVerdict(tasks') = "ok" /\ CrunchVerdict(tasks') = "ok"
  BY <1>3 DEF Verdict
<1>5. ~HasDuplicate(tasks')
  BY <1>4 DEF SchedulingVerdict
<1> QED
  BY <1>1, <1>3, <1>4, <1>5

(* Of a task that stands once in the list there was one registration.       *)
LEMMA IndexLemma ==
  ASSUME NEW list \in Seq(Task), NEW reg \in Seq(UserTask), NEW rank, Ranks(rank, list, reg),
         \A p, q \in 1 .. Len(list) : list[p] = list[q] => p = q,
         NEW i \in 1 .. Len(list), list[i] \in UserTask
  PROVE  IndexIn(reg, list[i]) = rank[i]
<1> DEFINE r == IndexIn(reg, list[i])
<1>1. rank[i] \in 1 .. Len(reg) /\ reg[rank[i]] = list[i]
  BY DEF Ranks
<1>2. r \in 1 .. Len(reg) /\ reg[r] = list[i]
  BY <1>1 DEF IndexIn
<1> HIDE DEF r
<1>3. PICK j \in 1 .. Len(list) : list[j] \in UserTask /\ rank[j] = r
  BY <1>2 DEF Ranks
<1>4. list[j] = list[i]
  BY <1>2, <1>3 DEF Ranks
<1>5. j = i
  BY <1>4
<1> QED
  BY <1>3, <1>5 DEF r

(* SystemBuilder.h, sortTasksByPriority(): the dispatch order of a built    *)
(* system is by effective priority, kernel tasks first among equals and the *)
(* application's in the order of their registration, whatever failed before.*)
THEOREM BuilderDispatchOrder == Spec => DispatchOrder
<1> DEFINE Order == \A c \in Core : \A i, j \in 1 .. Len(tasks'[c]) :
                      i < j => InOrder(c, tasks'[c][i], tasks'[c][j])
<1>1. BuilderInv /\ BuilderInv' /\ [Next]_vars => [JustBuilt => Order]_vars
  <2> SUFFICES ASSUME BuilderInv, BuilderInv', [Next]_vars, JustBuilt, NEW c \in Core,
                      NEW i \in 1 .. Len(tasks'[c]), NEW j \in 1 .. Len(tasks'[c]), i < j
               PROVE  InOrder(c, tasks'[c][i], tasks'[c][j])
    OBVIOUS
  <2> DEFINE list == tasks'[c]
             reg == registered[c]
             p == IF app THEN PlaceKernelTasks(tasks) ELSE tasks
  <2>1. Build /\ ~HasDuplicate(tasks')
    BY BuiltLemma
  <2>2. TypeOK /\ TypeOK' /\ UNCHANGED <<config, registered>> /\ BuiltFrom(p)
    BY <2>1, BuildLists DEF BuilderInv, Build
  <2> HIDE DEF p
  <2>3. Core' = Core
    BY <2>2 DEF Core, kCoreCount
  <2>4. list \in Seq(Task) /\ reg \in Seq(UserTask)
    BY <2>2 DEF BuiltFrom, TypeOK
  <2>5. Arranged(list, reg)
    BY <2>2, <2>3 DEF BuilderInv
  <2>6. list = SortByPriority(p[c]) /\ p[c] \in Seq(Task)
    BY <2>2 DEF BuiltFrom
  <2>7. PICK from : Stable(from, list, p[c], Len(p[c]))
    BY <2>6, SortLemma
  <2>8. \A k, l \in 1 .. Len(list) : list[k] = list[l] => k = l
    <3> SUFFICES ASSUME NEW k \in 1 .. Len(list), NEW l \in 1 .. Len(list), list[k] = list[l]
                 PROVE  k = l
      OBVIOUS
    <3>1. <<c, k>> \in Slots(tasks') /\ <<c, l>> \in Slots(tasks')
      BY DEF Slots
    <3>2. TaskIn(tasks', <<c, k>>) = TaskIn(tasks', <<c, l>>)
      BY DEF TaskIn
    <3>3. <<c, k>> = <<c, l>>
      BY <2>1, <3>1, <3>2 DEF HasDuplicate
    <3> QED
      BY <3>3
  <2>i. i \in 1 .. Len(list) /\ j \in 1 .. Len(list)
    OBVIOUS
  <2> HIDE DEF list, reg
  <2>9. PICK rank \in [1 .. Len(list) -> 0 .. Len(reg)] : Ranks(rank, list, reg)
    BY <2>5 DEF Arranged
  <2>10. \/ EffectivePriority(list[i]) < EffectivePriority(list[j])
         \/ EffectivePriority(list[i]) = EffectivePriority(list[j])
    BY <2>7, <2>i DEF Stable
  <2>11. ASSUME EffectivePriority(list[i]) = EffectivePriority(list[j]), list[i] \notin KernelTask
         PROVE  list[j] \in UserTask /\ IndexIn(reg, list[i]) < IndexIn(reg, list[j])
    <3>1. list[j] \in UserTask /\ rank[i] < rank[j]
      BY <2>9, <2>11, <2>i DEF Ranks
    <3>2. list[i] \in UserTask
      BY <2>4, <2>11, <2>i DEF Task
    <3>3. IndexIn(reg, list[i]) = rank[i] /\ IndexIn(reg, list[j]) = rank[j]
      BY <2>4, <2>8, <2>9, <2>i, <3>1, <3>2, IndexLemma
    <3> QED
      BY <3>1, <3>3
  <2> QED
    BY <2>10, <2>11 DEF InOrder, list, reg
<1> QED
  BY <1>1, BuilderInvariant, PTL DEF Spec, DispatchOrder

(* A crunch core of a validated system has no tasks: the first offending    *)
(* core would have decided the verdict.                                     *)
LEMMA CrunchLemma ==
  ASSUME config \in Configs, NEW t, CrunchVerdict(t) = "ok", NEW c \in Core, IsCrunch(c)
  PROVE  t[c] = <<>>
<1> DEFINE Problem(d) ==
             IF d = 0 THEN "crunch on core 0"
             ELSE IF t[d] # <<>> THEN "crunch core has tasks"
             ELSE IF CrunchPeriod[crunchTask[d]] \in 1 .. MinPeriod - 1 THEN "crunch period"
             ELSE "ok"
           bad == {d \in Core : IsCrunch(d) /\ Problem(d) # "ok"}
           first == CHOOSE d \in bad : \A e \in bad : d <= e
<1>0. CrunchVerdict(t) = IF bad = {} THEN "ok" ELSE Problem(first)
  BY Zenon DEF CrunchVerdict
<1>1. bad = {}
  <2> SUFFICES ASSUME bad # {} PROVE FALSE
    OBVIOUS
  <2>1. bad \in SUBSET Nat
    BY CoreLemma
  <2>2. \E d \in bad : \A e \in bad : d <= e
    <3> HIDE DEF bad
    <3> QED
      BY <2>1, LeastElement
  <2>3. first \in bad
    <3> HIDE DEF bad
    <3> QED
      BY <2>2
  <2>4. Problem(first) # "ok"
    <3> HIDE DEF first, Problem
    <3> QED
      BY <2>3
  <2> HIDE DEF Problem, bad, first
  <2> QED
    BY <2>4, <1>0
<1>2. Problem(c) = "ok"
  <2> HIDE DEF Problem
  <2> QED
    BY <1>1
<1> QED
  BY <1>2

(* A listed task of a system without duplicates has one slot.               *)
LEMMA OneSlot ==
  ASSUME NEW t \in [Core -> Seq(Task)], ~HasDuplicate(t), NEW c \in Core, NEW k \in ToSet(t[c])
  PROVE  Cardinality({s \in Slots(t) : TaskIn(t, s) = k}) = 1
<1>1. PICK s \in Slots(t) : TaskIn(t, s) = k
  <2>1. k \in Listed(t)
    BY DEF Listed
  <2> QED
    BY <2>1, WiredLemma
<1>2. {r \in Slots(t) : TaskIn(t, r) = k} = {s}
  BY <1>1 DEF HasDuplicate
<1> QED
  BY <1>2, FS_Singleton

(* With room, control and comms are in some list of what build() sorts, and *)
(* diagnostics was not yet in the ring: control would be there twice.       *)
LEMMA BuiltOnce ==
  ASSUME TypeOK, PlacedInv, NEW p, BuiltFrom(p), app, HasRoom, ~HasDuplicate(tasks')
  PROVE  /\ \A k \in KernelTask : \E c \in Core : k \in ToSet(tasks'[c])
         /\ Diags \notin ToSet(ring)
<1>0. /\ config \in Configs /\ 0 \in Core /\ kMaxTasks \in Nat
      /\ \A c \in Core : p[c] \in Seq(Task) /\ tasks[c] \in Seq(Task)
  BY CoreLemma DEF TypeOK, BuiltFrom
<1>1. \A c \in Core : ToSet(tasks'[c]) = ToSet(p[c]) /\ Len(tasks'[c]) = Len(p[c])
  BY DEF BuiltFrom
<1>2. Placed(tasks, p)
  BY DEF BuiltFrom
<1>r. \A c \in Core : Len(tasks[c]) + 2 <= kMaxTasks
  BY DEF HasRoom
<1>3. PICK d \in 0 .. 2 : Grown(tasks[0], p[0], d) /\ \E i \in 1 .. d : p[0][i] = Control
  BY <1>0, <1>2, <1>r DEF Placed
<1>4. PICK i \in 1 .. d : p[0][i] = Control
  BY <1>3
<1>5. /\ Len(p[0]) = d + Len(tasks[0]) /\ Len(tasks[0]) \in Nat
      /\ \A j \in 1 .. Len(tasks[0]) : p[0][d + j] = tasks[0][j]
  BY <1>0, <1>3 DEF Grown
<1>6. i \in 1 .. Len(p[0]) /\ DOMAIN p[0] = 1 .. Len(p[0]) /\ DOMAIN tasks[0] = 1 .. Len(tasks[0])
  BY <1>0, <1>5
<1>7. Control \in ToSet(tasks'[0])
  BY <1>0, <1>1, <1>4, <1>6 DEF ToSet
<1>8. \E c \in Core : Comms \in ToSet(tasks'[c])
  <2>1. PICK c \in Core : \E j \in 1 .. Len(p[c]) : p[c][j] = Comms
    BY <1>2, <1>r DEF Placed
  <2>2. DOMAIN p[c] = 1 .. Len(p[c])
    BY <1>0
  <2> QED
    BY <2>1, <2>2, <1>1 DEF ToSet
<1>9. Diags \notin ToSet(ring)
  <2> SUFFICES ASSUME Diags \in ToSet(ring) PROVE FALSE
    OBVIOUS
  <2>1. PICK j \in 1 .. Len(tasks[0]) : tasks[0][j] = Control
    BY <1>6 DEF PlacedInv, ToSet
  <2>2. d + j \in 1 .. Len(p[0]) /\ d + j # i /\ p[0][d + j] = Control
    BY <2>1, <1>5
  <2>3. PICK a, b \in 1 .. Len(p[0]) :
          a # b /\ SortByPriority(p[0])[a] = Control /\ SortByPriority(p[0])[b] = Control
    <3> DEFINE list == p[0]
               q == d + j
    <3>1. /\ list \in Seq(Task) /\ i \in 1 .. Len(list) /\ q \in 1 .. Len(list)
          /\ i # q /\ list[i] = Control /\ list[q] = Control
      BY <2>2, <1>0, <1>4, <1>6
    <3> HIDE DEF list, q
    <3>2. list[i] = list[q]
      BY <3>1
    <3>3. \E a, b \in 1 .. Len(list) :
            a # b /\ SortByPriority(list)[a] = list[i] /\ SortByPriority(list)[b] = list[i]
      BY <3>1, <3>2, SortKeepsDuplicate
    <3> QED
      BY <3>1, <3>3 DEF list
  <2>4. tasks'[0] = SortByPriority(p[0])
    BY <1>0 DEF BuiltFrom
  <2>5. <<0, a>> \in Slots(tasks') /\ <<0, b>> \in Slots(tasks')
    BY <1>0, <1>1 DEF Slots
  <2>6. TaskIn(tasks', <<0, a>>) = TaskIn(tasks', <<0, b>>)
    BY <2>3, <2>4 DEF TaskIn
  <2> QED
    BY <2>3, <2>5, <2>6 DEF HasDuplicate
<1> QED
  BY <1>0, <1>7, <1>8, <1>9 DEF KernelTask

(* SystemBuilder.h, build() and validate*(): what a built system lists some *)
(* core ticks, once; however often build() failed before, with an           *)
(* application and room control, comms and diagnostics are there once.      *)
THEOREM BuilderEveryTaskTickedOnce == Spec => EveryTaskTickedOnce
<1> DEFINE Once ==
       /\ ~HasDuplicate(tasks')
       /\ \A c \in Core : IsCrunch(c) => tasks'[c] = <<>>
       /\ app /\ (\A c \in Core : Len(tasks[c]) + 2 <= kMaxTasks) =>
            /\ \A k \in KernelTask : Cardinality({s \in Slots(tasks') : TaskIn(tasks', s) = k}) = 1
            /\ Cardinality({i \in 1 .. Len(ring') : ring'[i] = Diags}) = 1
<1>1. BuilderInv /\ [Next]_vars => [JustBuilt => Once]_vars
  <2> SUFFICES ASSUME BuilderInv, [Next]_vars, JustBuilt PROVE Once
    OBVIOUS
  <2> DEFINE p == IF app THEN PlaceKernelTasks(tasks) ELSE tasks
  <2>1. Build /\ ~HasDuplicate(tasks') /\ CrunchVerdict(tasks') = "ok"
    BY BuiltLemma
  <2>2. TypeOK /\ PlacedInv /\ BuiltFrom(p) /\ config \in Configs
    BY <2>1, BuildLists DEF BuilderInv, TypeOK
  <2>3. ASSUME NEW c \in Core, IsCrunch(c) PROVE tasks'[c] = <<>>
    BY <2>1, <2>2, <2>3, CrunchLemma
  <2>4. ASSUME app, \A c \in Core : Len(tasks[c]) + 2 <= kMaxTasks
        PROVE  /\ \A k \in KernelTask : Cardinality({s \in Slots(tasks') : TaskIn(tasks', s) = k}) = 1
               /\ Cardinality({i \in 1 .. Len(ring') : ring'[i] = Diags}) = 1
    <3>1. HasRoom
      BY <2>4 DEF HasRoom
    <3> HIDE DEF p
    <3>2. /\ \A k \in KernelTask : \E c \in Core : k \in ToSet(tasks'[c])
          /\ Diags \notin ToSet(ring)
      BY <2>1, <2>2, <2>4, <3>1, BuiltOnce
    <3>3. ASSUME NEW k \in KernelTask
          PROVE  Cardinality({s \in Slots(tasks') : TaskIn(tasks', s) = k}) = 1
      <4>1. PICK c \in Core : k \in ToSet(tasks'[c])
        BY <3>2
      <4>2. tasks' \in [Core -> Seq(Task)]
        BY <2>2 DEF BuiltFrom
      <4> QED
        BY <2>1, <4>1, <4>2, OneSlot
    <3>4. ring' = Append(ring, Diags) /\ ring \in Seq(Background \cup {Diags})
      BY <2>1, <2>2, <2>4 DEF Build, TypeOK
    <3>5. \A i \in 1 .. Len(ring) : ring[i] # Diags
      BY <3>2, <3>4 DEF ToSet
    <3>6. {i \in 1 .. Len(ring') : ring'[i] = Diags} = {Len(ring) + 1}
      BY <3>4, <3>5
    <3> QED
      BY <3>3, <3>6, FS_Singleton
  <2> QED
    BY <2>1, <2>3, <2>4
<1> QED
  BY <1>1, BuilderInvariant, PTL DEF Spec, EveryTaskTickedOnce

(* SystemBuilder.h, build(): whatever was called, failed or was reset       *)
(* before, a built system is wired with what this builder was given: the    *)
(* window and the clock on all it dispatches, no kernel timer with an       *)
(* earlier clock, the kick and the drain, and every listed task monitored.  *)
THEOREM BuilderFullyWired == Spec => FullyWired
<1> DEFINE Wired ==
       /\ Dispatched' \cup Monitors \subseteq windowed'
       /\ IF given.clock THEN Dispatched' \cup {SystemTimer} \subseteq clocked'
                         ELSE clocked' \cap (KernelTask \cup {Diags, SystemTimer}) = {}
       /\ app => /\ kickFn' = given.kick /\ diags'.kick = given.kick /\ diags'.drain = drainFn
                 /\ Cardinality(ToSet(diags'.monitored)) < kMaxMonitoredTasks =>
                      ToSet(diags'.monitored) = UNION {ToSet(tasks'[c]) : c \in Core}
<1>1. BuilderInv /\ [Next]_vars => [JustBuilt => Wired]_vars
  <2> SUFFICES ASSUME BuilderInv, [Next]_vars, JustBuilt PROVE Wired
    OBVIOUS
  <2> DEFINE p == IF app THEN PlaceKernelTasks(tasks) ELSE tasks
             wired == WiredTasks(tasks', ring')
  <2>1. Build /\ ~HasDuplicate(tasks') /\ Verdict(tasks') = "ok"
    BY BuiltLemma
  <2>2. TypeOK /\ ClockInv /\ BuiltFrom(p) /\ config \in Configs /\ UNCHANGED <<config, crunchTask, given>>
    BY <2>1, BuildLists DEF BuilderInv, TypeOK, Build
  <2>3. tasks' \in [Core -> Seq(Task)] /\ Core' = Core /\ crunchTask' = crunchTask
    BY <2>2 DEF BuiltFrom, Core, kCoreCount
  <2> HIDE DEF p
  <2>4. windowed' = Emplaced(windowed) \cup wired \cup Monitors
    BY <2>1 DEF Build, PropagateWindow
  <2>5. clocked' = Emplaced(clocked) \cup (IF given.clock THEN wired \cup {SystemTimer} ELSE {})
    BY <2>1 DEF Build, PropagateClock
  <2>6. Dispatched' = wired
    <3> DEFINE listed == UNION {ToSet(tasks'[c]) : c \in Core'}
               crunch == {crunchTask'[c] : c \in Core'} \ {NoCrunch}
    <3>1. Dispatched' = listed \cup ToSet(ring') \cup crunch
      BY DEF Dispatched
    <3>2. crunch = {crunchTask[c] : c \in {d \in Core : IsCrunch(d)}}
      BY <2>3 DEF IsCrunch
    <3>3. listed = {TaskIn(tasks', s) : s \in Slots(tasks')}
      BY <2>3, WiredLemma DEF Listed
    <3> HIDE DEF listed, crunch
    <3> QED
      BY <3>1, <3>2, <3>3 DEF WiredTasks
  <2>7. ~given.clock => clocked' \cap (KernelTask \cup {Diags, SystemTimer}) = {}
    <3>1. Emplaced(clocked) \subseteq clocked
      BY DEF Emplaced
    <3> QED
      BY <2>2, <2>5, <3>1 DEF ClockInv
  <2>8. ASSUME app
        PROVE  /\ kickFn' = given.kick
               /\ diags' = [kick |-> given.kick, drain |-> drainFn, monitored |-> Monitored(tasks')]
    BY <2>1, <2>8 DEF Build
  <2>9. Cardinality(ToSet(Monitored(tasks'))) < kMaxMonitoredTasks =>
          ToSet(Monitored(tasks')) = UNION {ToSet(tasks'[c]) : c \in Core}
    BY <2>1, <2>2, <2>3, MonitoredLemma DEF Listed
  <2>10. app => /\ kickFn' = given.kick /\ diags'.kick = given.kick /\ diags'.drain = drainFn
                /\ diags'.monitored = Monitored(tasks')
    BY <2>8
  <2> HIDE DEF wired
  <2>11. /\ Dispatched' \cup Monitors \subseteq windowed'
         /\ IF given.clock THEN Dispatched' \cup {SystemTimer} \subseteq clocked'
                           ELSE clocked' \cap (KernelTask \cup {Diags, SystemTimer}) = {}
    BY <2>4, <2>5, <2>6, <2>7
  <2> QED
    BY <2>9, <2>10, <2>11
<1> QED
  BY <1>1, BuilderInvariant, PTL DEF Spec, FullyWired
=============================================================================
