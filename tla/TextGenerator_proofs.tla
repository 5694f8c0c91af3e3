------------------------ MODULE TextGenerator_proofs ------------------------
(***************************************************************************)
(* TextGenerator for any number of sequences and slots: the slots of the   *)
(* context store stay partitioned, a batch in flight keeps its slots, a    *)
(* decode batch finds its contexts, no context leaks and the engine gets   *)
(* every token of a sequence once and in order.                            *)
(***************************************************************************)
EXTENDS TextGenerator, FiniteSetTheorems, FunctionTheorems, SequenceTheorems, TLAPS

(* A nonempty set of naturals has a least element.                         *)
LEMMA LeastExists ==
  ASSUME NEW I \in SUBSET Nat, I # {}
  PROVE  \E x \in I : \A y \in I : x <= y
<1> DEFINE Rel == {ss \in Nat \X Nat : ss[1] < ss[2]}
<1>1. IsWellFoundedOn(Rel, Nat)
  BY NatLessThanWellFounded, Zenon DEF OpToRel
<1>2. \A x, y \in Nat : y < x => <<y, x>> \in Rel
  OBVIOUS
<1> HIDE DEF Rel
<1>3. I \subseteq Nat
  OBVIOUS
<1>4. PICK x \in I : \A y \in I : ~(<<y, x>> \in Rel)
  BY <1>1, <1>3, WFMin, Zenon
<1>5. ASSUME NEW y \in I
      PROVE  x <= y
  <2>1. ~(y < x)
    BY <1>2, <1>3, <1>4
  <2> QED BY <2>1, <1>3
<1> QED
  BY <1>4, <1>5
(* q has every member of S once, and nothing else.                         *)
Lists(q, S) == q \in Seq(S) /\ IsInjective(q) /\ Range(q) = S

Sorted(S, q) ==
  /\ q \in [1..Cardinality(S) -> S]
  /\ \A i, j \in DOMAIN q : i < j => q[i] < q[j]

(* A sorted sequence of a set without its least element m, with m in front.*)
LEMMA SortedExtends ==
  ASSUME NEW S \in SUBSET Nat, IsFiniteSet(S), NEW m \in S, \A y \in S : m <= y,
         NEW p, Sorted(S \ {m}, p)
  PROVE  \E q : Sorted(S, q)
<1> DEFINE n == Cardinality(S)
           q == [i \in 1..n |-> IF i = 1 THEN m ELSE p[i - 1]]
<1>1. n \in Nat /\ Cardinality(S \ {m}) = n - 1 /\ n # 0
  BY FS_RemoveElement, FS_CardinalityType, FS_EmptySet
<1> HIDE DEF n
<1>2. p \in [1..(n - 1) -> S \ {m}] /\ \A i, j \in 1..(n - 1) : i < j => p[i] < p[j]
  BY <1>1 DEF Sorted
<1>3. ASSUME NEW i \in 1..n
      PROVE  q[i] \in S
  BY <1>1, <1>2
<1>4. ASSUME NEW i \in 1..n, NEW j \in 1..n, i < j
      PROVE  q[i] < q[j]
  <2>1. j - 1 \in 1..(n - 1) /\ j # 1 /\ p[j - 1] \in S \ {m}
    BY <1>1, <1>2, <1>4
  <2>2. CASE i = 1
    <3>1. q[i] = m /\ q[j] = p[j - 1]
      BY <2>1, <2>2
    <3>2. m \in Nat /\ p[j - 1] \in Nat /\ m <= p[j - 1] /\ m # p[j - 1]
      BY <2>1
    <3> QED BY <3>1, <3>2
  <2>3. CASE i # 1
    <3>1. i - 1 \in 1..(n - 1) /\ i - 1 < j - 1
      BY <1>1, <1>4, <2>3
    <3> QED BY <3>1, <2>1, <2>3, <1>2
  <2> QED BY <2>2, <2>3
<1>5. q \in [1..n -> S] /\ DOMAIN q = 1..n
  BY <1>3
<1> HIDE DEF q
<1>6. Sorted(S, q)
  BY <1>4, <1>5 DEF Sorted, n
<1> QED
  BY <1>6

LEMMA SortedExists ==
  ASSUME NEW S \in SUBSET Nat, IsFiniteSet(S)
  PROVE  \E q : Sorted(S, q)
<1> DEFINE P(n) == \A T \in SUBSET Nat : IsFiniteSet(T) /\ Cardinality(T) = n => \E q : Sorted(T, q)
           Bad == {n \in Nat : ~ P(n)}
<1>1. P(0)
  <2> SUFFICES ASSUME NEW T \in SUBSET Nat, IsFiniteSet(T), Cardinality(T) = 0
               PROVE  \E q : Sorted(T, q)
    OBVIOUS
  <2>1. <<>> \in [1..0 -> T] /\ DOMAIN <<>> = {}
    OBVIOUS
  <2>2. Sorted(T, <<>>)
    BY <2>1 DEF Sorted
  <2> QED BY <2>2
<1>2. ASSUME NEW n \in Nat, P(n)
      PROVE  P(n + 1)
  <2> SUFFICES ASSUME NEW T \in SUBSET Nat, IsFiniteSet(T), Cardinality(T) = n + 1
               PROVE  \E q : Sorted(T, q)
    OBVIOUS
  <2>1. T # {}
    BY FS_EmptySet
  <2>2. PICK m \in T : \A y \in T : m <= y
    BY <2>1, LeastExists
  <2>3. IsFiniteSet(T \ {m}) /\ Cardinality(T \ {m}) = n
    <3>1. Cardinality(T \ {m}) = Cardinality(T) - 1
      BY <2>2, FS_RemoveElement
    <3> QED BY <3>1, FS_RemoveElement
  <2>4. PICK p : Sorted(T \ {m}, p)
    BY <2>3, <1>2
  <2> QED BY <2>2, <2>4, SortedExtends
<1> HIDE DEF P
<1>3. Bad = {}
  <2> SUFFICES ASSUME Bad # {} PROVE FALSE
    OBVIOUS
  <2>1. PICK k \in Bad : \A j \in Bad : k <= j
    BY LeastExists
  <2>2. k # 0 /\ k \in Nat
    BY <2>1, <1>1
  <2>3. k - 1 \in Nat /\ k - 1 \notin Bad /\ (k - 1) + 1 = k
    BY <2>1, <2>2
  <2>4. P(k)
    BY <2>3, <1>2
  <2> QED BY <2>1, <2>4
<1>4. Cardinality(S) \in Nat
  BY FS_CardinalityType
<1>5. P(Cardinality(S))
  BY <1>3, <1>4
<1> QED
  BY <1>5 DEF P

(* An injection from 1..Cardinality(S) lists S.                            *)
LEMMA InjectionLists ==
  ASSUME NEW S, IsFiniteSet(S), NEW q \in [1..Cardinality(S) -> S], IsInjective(q)
  PROVE  Lists(q, S)
<1> DEFINE n == Cardinality(S)
<1>1. n \in Nat
  BY FS_CardinalityType
<1>2. Cardinality(1..n) = n /\ IsFiniteSet(1..n)
  BY <1>1, FS_Interval
<1>3. q \in Injection(1..n, S)
  BY DEF Injection
<1>4. q \in Surjection(1..n, S)
  BY <1>2, <1>3, FS_Injection
<1> HIDE DEF n
<1>5. \A x \in S : \E i \in 1..n : q[i] = x
  BY <1>4 DEF Surjection
<1>6. q \in [1..n -> S] /\ DOMAIN q = 1..n
  BY DEF n
<1>7. Range(q) = S
  BY <1>5, <1>6 DEF Range
<1>8. q \in Seq(S)
  BY <1>1, <1>6
<1> QED
  BY <1>7, <1>8 DEF Lists

LEMMA AscendingLists ==
  ASSUME NEW S \in SUBSET Nat, IsFiniteSet(S)
  PROVE  Lists(Ascending(S), S)
<1> DEFINE q == Ascending(S)
<1>1. Sorted(S, q)
  <2>1. \E p \in [1..Cardinality(S) -> S] : \A i, j \in DOMAIN p : i < j => p[i] < p[j]
    BY SortedExists DEF Sorted
  <2> QED BY <2>1 DEF Sorted, Ascending
<1> HIDE DEF q
<1>2. q \in [1..Cardinality(S) -> S] /\ DOMAIN q = 1..Cardinality(S)
  BY <1>1 DEF Sorted
<1>3. ASSUME NEW i \in DOMAIN q, NEW j \in DOMAIN q, q[i] = q[j]
      PROVE  i = j
  <2> DEFINE n == Cardinality(S)
  <2>3. n \in Nat
    BY FS_CardinalityType
  <2>4. q \in [1..n -> S] /\ i \in 1..n /\ j \in 1..n
    BY <1>2
  <2> HIDE DEF n
  <2>5. q[i] \in S /\ i \in Int /\ j \in Int
    BY <2>3, <2>4
  <2>1. q[i] \in Nat /\ i \in Int /\ j \in Int
    BY <2>5
  <2>2. ~(i < j) /\ ~(j < i)
    BY <1>1, <1>3, <2>1 DEF Sorted
  <2> QED BY <2>1, <2>2
<1>4. IsInjective(q)
  BY <1>3 DEF IsInjective
<1> QED
  BY <1>2, <1>4, InjectionLists DEF q

LEMMA SetToSeqLists ==
  ASSUME NEW S, IsFiniteSet(S)
  PROVE  Lists(SetToSeq(S), S)
<1>1. \E f \in [1..Cardinality(S) -> S] : IsInjective(f)
  BY FS_CardinalityType DEF ExistsBijection, Bijection, Injection
<1>2. SetToSeq(S) \in [1..Cardinality(S) -> S] /\ IsInjective(SetToSeq(S))
  BY <1>1 DEF SetToSeq
<1> QED
  BY <1>2, InjectionLists

LEMMA ListsConcat ==
  ASSUME NEW S, NEW T, S \cap T = {}, NEW p, NEW q, Lists(p, S), Lists(q, T)
  PROVE  Lists(p \o q, S \cup T)
<1> DEFINE r == p \o q
           m == Len(p)
           n == Len(q)
<1>1. p \in Seq(S) /\ q \in Seq(T) /\ p \in Seq(S \cup T) /\ q \in Seq(S \cup T)
  BY DEF Lists
<1>2. m \in Nat /\ n \in Nat /\ DOMAIN p = 1..m /\ DOMAIN q = 1..n
  BY <1>1
<1>3. r \in Seq(S \cup T) /\ Len(r) = m + n
      /\ \A i \in 1..(m + n) : r[i] = IF i <= m THEN p[i] ELSE q[i - m]
  BY <1>1
<1>4. DOMAIN r = 1..(m + n)
  BY <1>3
<1> HIDE DEF r, m, n
<1>5. \A i \in 1..m : p[i] \in S
  BY <1>1, <1>2
<1>6. \A i \in 1..n : q[i] \in T
  BY <1>1, <1>2
<1>7. ASSUME NEW i \in 1..(m + n), NEW j \in 1..(m + n), r[i] = r[j]
      PROVE  i = j
  <2>1. CASE i <= m /\ j <= m
    <3>1. r[i] = p[i] /\ r[j] = p[j] /\ i \in 1..m /\ j \in 1..m
      BY <2>1, <1>3, <1>2
    <3> QED BY <3>1, <1>7, <1>2 DEF Lists, IsInjective
  <2>2. CASE ~(i <= m) /\ ~(j <= m)
    <3>1. r[i] = q[i - m] /\ r[j] = q[j - m] /\ i - m \in 1..n /\ j - m \in 1..n
      BY <2>2, <1>3, <1>2
    <3>2. i - m = j - m
      BY <3>1, <1>7, <1>2 DEF Lists, IsInjective
    <3> QED BY <3>2, <1>2
  <2>3. CASE i <= m /\ ~(j <= m)
    <3>1. r[i] = p[i] /\ r[j] = q[j - m] /\ i \in 1..m /\ j - m \in 1..n
      BY <2>3, <1>3, <1>2
    <3> QED BY <3>1, <1>5, <1>6, <1>7
  <2>4. CASE ~(i <= m) /\ j <= m
    <3>1. r[j] = p[j] /\ r[i] = q[i - m] /\ j \in 1..m /\ i - m \in 1..n
      BY <2>4, <1>3, <1>2
    <3> QED BY <3>1, <1>5, <1>6, <1>7
  <2> QED BY <2>1, <2>2, <2>3, <2>4
<1>8. ASSUME NEW x \in S
      PROVE  \E i \in 1..(m + n) : r[i] = x
  <2>1. PICK i \in 1..m : p[i] = x
    BY <1>2 DEF Lists, Range
  <2>2. i \in 1..(m + n) /\ r[i] = x
    BY <2>1, <1>2, <1>3
  <2> QED BY <2>2
<1>9. ASSUME NEW x \in T
      PROVE  \E i \in 1..(m + n) : r[i] = x
  <2>1. PICK i \in 1..n : q[i] = x
    BY <1>2 DEF Lists, Range
  <2>2. i + m \in 1..(m + n) /\ ~(i + m <= m) /\ (i + m) - m = i
    BY <1>2
  <2>3. r[i + m] = x
    BY <2>1, <2>2, <1>3
  <2> QED BY <2>2, <2>3
<1>10. \A i \in 1..(m + n) : r[i] \in S \cup T
  BY <1>3, <1>4, <1>2
<1>11. Range(r) = S \cup T
  BY <1>4, <1>8, <1>9, <1>10 DEF Range
<1>12. IsInjective(r)
  BY <1>4, <1>7 DEF IsInjective
<1> QED
  BY <1>3, <1>11, <1>12 DEF Lists, r

LEMMA RangeMember ==
  ASSUME NEW f, NEW x
  PROVE  x \in Range(f) <=> \E i \in DOMAIN f : f[i] = x
BY DEF Range

LEMMA IntervalLists ==
  ASSUME NEW a \in Int, NEW n \in Int, NEW q, q = [i \in 1..n |-> a + i - 1]
  PROVE  Lists(q, a..(a + n - 1)) /\ DOMAIN q = 1..n
<1>1. DOMAIN q = 1..n /\ \A i \in 1..n : q[i] = a + i - 1
  OBVIOUS
<1>2. q \in Seq(a..(a + n - 1))
  <2>1. \A i \in 1..n : q[i] \in a..(a + n - 1)
    BY <1>1
  <2>2. CASE n >= 0
    <3>1. n \in Nat /\ q \in [1..n -> a..(a + n - 1)]
      BY <2>1, <2>2
    <3> QED BY <3>1
  <2>3. CASE n < 0
    <3>1. 1..n = 1..0
      BY <2>3
    <3>2. q \in [1..0 -> a..(a + n - 1)]
      BY <2>1, <3>1
    <3> QED BY <3>2
  <2> QED BY <2>2, <2>3
<1>3. ASSUME NEW x \in a..(a + n - 1)
      PROVE  \E i \in 1..n : q[i] = x
  <2>1. x - a + 1 \in 1..n /\ q[x - a + 1] = x
    BY <1>1
  <2> QED BY <2>1
<1>4. \A i \in 1..n : q[i] \in a..(a + n - 1)
  BY <1>1
<1>5. Range(q) = a..(a + n - 1)
  <2>1. \A x : x \in Range(q) => x \in a..(a + n - 1)
    BY <1>1, <1>4, RangeMember
  <2>2. \A x \in a..(a + n - 1) : x \in Range(q)
    BY <1>1, <1>3, RangeMember, Zenon
  <2> QED BY <2>1, <2>2
<1>6. IsInjective(q)
  BY <1>1 DEF IsInjective
<1> QED
  BY <1>1, <1>2, <1>5, <1>6 DEF Lists

(* A sequence is what its front f and its last k elements l list.          *)
LEMMA SplitLists ==
  ASSUME NEW S, NEW p, Lists(p, S), NEW k \in Nat, k <= Len(p)
  PROVE  LET f == SubSeq(p, 1, Len(p) - k)
             l == SubSeq(p, Len(p) - k + 1, Len(p)) IN
         /\ Lists(f, Range(f)) /\ Lists(l, Range(l)) /\ DOMAIN l = 1..k
         /\ Range(f) \cap Range(l) = {} /\ Range(f) \cup Range(l) = S
<1> DEFINE n == Len(p)
           f == SubSeq(p, 1, n - k)
           l == SubSeq(p, n - k + 1, n)
<1>2. n \in Nat /\ k <= n /\ p \in Seq(S) /\ Len(p) = n
  BY DEF Lists
<1>3. f \in Seq(S) /\ Len(f) = n - k /\ \A i \in 1..(n - k) : f[i] = p[i]
  BY <1>2
<1>5. l \in Seq(S) /\ Len(l) = k /\ \A i \in 1..k : l[i] = p[n - k + i]
  BY <1>2
<1> SUFFICES /\ Lists(f, Range(f)) /\ Lists(l, Range(l)) /\ DOMAIN l = 1..k
             /\ Range(f) \cap Range(l) = {} /\ Range(f) \cup Range(l) = S
  OBVIOUS
<1> HIDE DEF n, f, l
<1> USE <1>2, <1>3, <1>5
<1>1. DOMAIN p = 1..n /\ p \in Seq(S)
  BY DEF Lists
<1>4. DOMAIN f = 1..(n - k) /\ DOMAIN l = 1..k
  OBVIOUS
<1>6. \A i, j \in 1..n : p[i] = p[j] => i = j
  BY <1>1 DEF Lists, IsInjective
<1>7. ASSUME NEW i \in 1..(n - k), NEW j \in 1..(n - k), f[i] = f[j]
      PROVE  i = j
  <2>1. i \in 1..n /\ j \in 1..n
    OBVIOUS
  <2>3. p[i] = p[j]
    BY <1>7
  <2> QED BY <2>1, <2>3, <1>6
<1>8. ASSUME NEW i \in 1..k, NEW j \in 1..k, l[i] = l[j]
      PROVE  i = j
  <2>1. n - k + i \in 1..n /\ n - k + j \in 1..n /\ p[n - k + i] = p[n - k + j]
    BY <1>1, <1>8
  <2>2. n - k + i = n - k + j
    BY <2>1, <1>6
  <2> QED BY <2>2, <1>1
<1>9. ASSUME NEW i \in 1..(n - k), NEW j \in 1..k, f[i] = l[j]
      PROVE  FALSE
  <2>1. i \in 1..n /\ n - k + j \in 1..n /\ p[i] = p[n - k + j]
    BY <1>1, <1>9
  <2>2. i = n - k + j
    BY <2>1, <1>6
  <2> QED BY <2>2, <1>1
<1>10. Range(f) \subseteq S /\ Range(l) \subseteq S
  <2>1. \A i \in 1..n : p[i] \in S
    BY <1>1
  <2>2. \A i \in 1..(n - k) : f[i] \in S
    BY <2>1
  <2>3. \A i \in 1..k : l[i] \in S
    <3> SUFFICES ASSUME NEW i \in 1..k PROVE l[i] \in S
      OBVIOUS
    <3>1. n - k + i \in 1..n
      OBVIOUS
    <3> QED BY <2>1, <3>1
  <2> QED BY <2>2, <2>3, <1>4, RangeMember
<1>12. ASSUME NEW x \in S
       PROVE  x \in Range(f) \/ x \in Range(l)
  <2>1. PICK i \in 1..n : p[i] = x
    BY <1>1 DEF Lists, Range
  <2>2. CASE i <= n - k
    <3>1. i \in 1..(n - k) /\ f[i] = x
      BY <2>1, <2>2, <1>1
    <3> QED BY <3>1, <1>4, RangeMember
  <2>3. CASE ~(i <= n - k)
    <3>1. i - (n - k) \in 1..k /\ n - k + (i - (n - k)) = i
      BY <2>3, <1>1
    <3>2. l[i - (n - k)] = x
      BY <3>1, <2>1
    <3> QED BY <3>1, <3>2, <1>4, RangeMember
  <2> QED BY <2>2, <2>3
<1>13. Range(f) \cap Range(l) = {}
  <2> SUFFICES ASSUME NEW x \in Range(f), x \in Range(l) PROVE FALSE
    OBVIOUS
  <2>1. PICK i \in 1..(n - k) : f[i] = x
    BY <1>4, RangeMember
  <2>2. PICK j \in 1..k : l[j] = x
    BY <1>4, RangeMember
  <2> QED BY <2>1, <2>2, <1>9
<1>14. Range(f) \cup Range(l) = S
  BY <1>10, <1>12
<1>15. IsInjective(f) /\ IsInjective(l)
  BY <1>4, <1>7, <1>8 DEF IsInjective
<1>18. f \in Seq(Range(f)) /\ l \in Seq(Range(l))
  BY SeqOfRange
<1> QED
  BY <1>4, <1>13, <1>14, <1>15, <1>18 DEF Lists

(* allocate_slot k times: the slots handed out and the pool that is left   *)
(* are what the pool had, and every slot of the ranges that were added.    *)
LEMMA AllocateSlotsLists ==
  ASSUME NEW k \in Nat, NEW P \in SUBSET Nat, Lists(pool, P),
         capacity \in Nat, \A x \in P : x < capacity,
         NEW a, a = AllocateSlots(k)
  PROVE  /\ a.capacity \in Nat /\ a.capacity >= capacity
         /\ DOMAIN a.slots = 1..k
         /\ Lists(a.slots, Range(a.slots)) /\ Lists(a.pool, Range(a.pool))
         /\ Range(a.slots) \cap Range(a.pool) = {}
         /\ Range(a.slots) \cup Range(a.pool) = P \cup capacity..(a.capacity - 1)
<1> DEFINE n == Len(pool)
           c == capacity
           b == base_capacity
           need == k - n
<1>1. n \in Nat /\ pool \in Seq(P) /\ b \in Nat /\ b > 1 /\ c \in Nat /\ need \in Int
  BY TextGeneratorAssumption DEF Lists
<1>2. CASE need <= 0
  <2> DEFINE l == SubSeq(pool, n - k + 1, n)
             f == SubSeq(pool, 1, n - k)
  <2>1. a.slots = l /\ a.pool = f /\ a.capacity = c + 0 * b
    BY <1>2 DEF AllocateSlots
  <2>2. a.capacity = c
    BY <2>1, <1>1
  <2>3. f \in Seq(P) /\ Len(f) = n - k /\ \A i \in 1..(n - k) : f[i] = pool[i]
    BY <1>1, <1>2
  <2>4. l \in Seq(P) /\ Len(l) = k /\ \A i \in 1..k : l[i] = pool[n - k + i]
    BY <1>1, <1>2
  <2>5. k <= n
    BY <1>1, <1>2
  <2>8. n = Len(pool)
    OBVIOUS
  <2> HIDE DEF f, l, c, n
  <2>6. /\ Lists(f, Range(f)) /\ Lists(l, Range(l)) /\ DOMAIN l = 1..k
        /\ Range(f) \cap Range(l) = {} /\ Range(f) \cup Range(l) = P
    BY <2>5, SplitLists DEF f, l, n
  <2>7. c..(c - 1) = {}
    BY <1>1
  <2> QED BY <1>1, <2>1, <2>2, <2>6, <2>7 DEF c
<1>3. CASE ~(need <= 0)
  <2> DEFINE g == (need + b - 1) \div b
             M == (g - 1) * b
             G == g * b
             fresh == [i \in 1..G |-> c + i - 1]
             r == need - M
             X == SubSeq(fresh, 1, M)
             Y == SubSeq(fresh, Len(fresh) - r + 1, Len(fresh))
             Z == [i \in 1..(G - need) |-> (c + M) + i - 1]
  <2>1. a.slots = pool \o X \o Y /\ a.pool = Z /\ a.capacity = c + G
    BY <1>3 DEF AllocateSlots
  <2>2. g \in Int /\ g * b <= need + b - 1 /\ need + b - 1 < (g + 1) * b
    BY <1>1
  <2> HIDE DEF g
  <2>3. (g + 1) * b = g * b + b /\ g * b \in Int /\ (g - 1) * b = g * b - b
    BY <1>1, <2>2
  <2>4. G \in Int /\ M \in Int /\ G = M + b /\ M < need /\ need <= G
    BY <1>1, <2>2, <2>3
  <2>5. M >= 0
    <3>1. g >= 1
      <4> SUFFICES ASSUME g <= 0 PROVE FALSE
        BY <2>2
      <4>1. g * b <= 0 * b
        BY <1>1, <2>2
      <4> QED BY <4>1, <1>1, <1>3, <2>4
    <3>2. (g - 1) * b >= 0 * b
      BY <3>1, <1>1, <2>2
    <3> QED BY <3>2, <1>1
  <2> HIDE DEF M, G
  <2>6. /\ fresh \in Seq(Int) /\ Len(fresh) = G /\ \A i \in 1..G : fresh[i] = c + i - 1
    <3>1. G \in Nat /\ fresh \in [1..G -> Int]
      BY <1>1, <2>4, <2>5
    <3> QED BY <3>1
  <2>7. r \in 1..b /\ r <= G
    BY <1>1, <2>4, <2>5
  <2> HIDE DEF fresh, r
  <2>8. X = [i \in 1..M |-> c + i - 1]
    <3>1. X \in Seq(Int) /\ Len(X) = M /\ \A i \in 1..M : X[i] = fresh[i]
      BY <2>4, <2>5, <2>6, <1>1
    <3>2. \A i \in 1..M : X[i] = c + i - 1
      BY <3>1, <2>6, <2>4, <1>1
    <3>3. X = [i \in 1..M |-> X[i]]
      BY <3>1
    <3> HIDE DEF X
    <3> QED BY <3>2, <3>3
  <2>9. Y = [i \in 1..r |-> (c + G - r) + i - 1]
    <3>1. Y \in Seq(Int) /\ Len(Y) = r /\ \A i \in 1..r : Y[i] = fresh[G - r + i]
      BY <2>4, <2>5, <2>6, <2>7, <1>1
    <3>2. ASSUME NEW i \in 1..r
          PROVE  Y[i] = (c + G - r) + i - 1
      <4>1. G - r + i \in 1..G
        BY <2>4, <2>7
      <4> QED BY <4>1, <3>1, <2>6, <2>4, <2>7, <1>1
    <3>3. Y = [i \in 1..r |-> Y[i]]
      BY <3>1
    <3> HIDE DEF Y
    <3> QED BY <3>2, <3>3
  <2> HIDE DEF X, Y
  <2> DEFINE SX == c..(c + M - 1)
             SY == (c + G - r)..(c + G - r + r - 1)
             SZ == (c + M)..(c + M + (G - need) - 1)
  <2>10. Lists(X, SX) /\ DOMAIN X = 1..M
    BY <2>8, <2>4, <1>1, IntervalLists
  <2>11. Lists(Y, SY) /\ DOMAIN Y = 1..r
    BY <2>9, <2>4, <2>7, <1>1, IntervalLists
  <2>12. Lists(Z, SZ)
    BY <2>4, <1>1, IntervalLists
  <2>13. r = need - M /\ G = M + b
    BY <2>4 DEF r
  <2>14. P \cap SX = {} /\ (P \cup SX) \cap SY = {} /\ (P \cup SX \cup SY) \cap SZ = {}
    <3>1. \A x \in P : x \in Nat /\ x < c
      OBVIOUS
    <3> HIDE DEF c, b, need
    <3>2. P \cap SX = {}
      BY <3>1, <1>1, <2>4
    <3>3. P \cap SY = {}
      BY <3>1, <1>1, <2>4, <2>7
    <3>4. P \cap SZ = {}
      BY <3>1, <1>1, <2>4, <2>5
    <3>5. SX \cap SY = {} /\ SX \cap SZ = {} /\ SY \cap SZ = {}
      BY <1>1, <2>4, <2>5, <2>7, <2>13
    <3> QED BY <3>2, <3>3, <3>4, <3>5
  <2>15. SX \cup SY \cup SZ = c..(c + G - 1)
    <3> HIDE DEF c, b, need
    <3> QED BY <1>1, <2>4, <2>5, <2>7, <2>13
  <2> HIDE DEF SX, SY, SZ, Z, c, need
  <2>16. Lists(pool \o X, P \cup SX)
    BY <2>10, <2>14, ListsConcat
  <2>17. Lists((pool \o X) \o Y, (P \cup SX) \cup SY)
    BY <2>11, <2>14, <2>16, ListsConcat
  <2>18. DOMAIN ((pool \o X) \o Y) = 1..k
    <3>1. pool \in Seq(P \cup SX \cup SY) /\ X \in Seq(P \cup SX \cup SY) /\ Y \in Seq(P \cup SX \cup SY)
      BY <1>1, <2>10, <2>11 DEF Lists
    <3>2. Len(X) = M /\ Len(Y) = r
      BY <2>4, <2>5, <2>7, <2>10, <2>11, <3>1
    <3>3. Len((pool \o X) \o Y) = n + M + r
      BY <3>1, <3>2
    <3>4. n + M + r = k
      BY <1>1, <2>4, <2>13 DEF need
    <3>5. (pool \o X) \o Y \in Seq(P \cup SX \cup SY)
      BY <3>1
    <3> QED BY <3>3, <3>4, <3>5
  <2> DEFINE S == (pool \o X) \o Y
  <2>19. a.slots = S /\ a.pool = Z
    BY <2>1
  <2> HIDE DEF S
  <2>20. Range(S) = P \cup SX \cup SY /\ Range(Z) = SZ /\ Lists(S, Range(S)) /\ Lists(Z, Range(Z))
    BY <2>12, <2>17 DEF Lists, S
  <2>21. Range(S) \cap Range(Z) = {}
    BY <2>14, <2>20
  <2>22. Range(S) \cup Range(Z) = P \cup c..(a.capacity - 1)
    <3>1. a.capacity = c + G
      BY <2>1
    <3>2. c..(a.capacity - 1) = c..(c + G - 1)
      BY <3>1, <1>1, <2>4
    <3>3. Range(S) \cup Range(Z) = P \cup (SX \cup SY \cup SZ)
      BY <2>20
    <3> QED BY <3>2, <3>3, <2>15, Zenon
  <2>23. a.capacity \in Nat /\ a.capacity >= c
    BY <2>1, <2>4, <2>5, <1>1
  <2> QED BY <2>18, <2>19, <2>20, <2>21, <2>22, <2>23 DEF S, c
<1> QED BY <1>1, <1>2, <1>3

-----------------------------------------------------------------------------
(* The context store.  Every slot but the reserved one is free, taken by   *)
(* one sequence, or waits to be cleared after an abort.                    *)
Mapped == DOMAIN sequence_context_slot_map
Slot(s) == sequence_context_slot_map[s]
Free == Range(pool)
Taken == Range(sequence_context_slot_map)
Aborted == Range(aborted_context_handles)

Store ==
  /\ Lists(pool, Free) /\ Lists(aborted_context_handles, Aborted)
  /\ IsInjective(sequence_context_slot_map) /\ Mapped \subseteq Seqs
  /\ capacity \in base_capacity..MaxCapacity
  /\ Free \cap Taken = {} /\ Free \cap Aborted = {} /\ Taken \cap Aborted = {}
  /\ Free \cup Taken \cup Aborted = 1..(capacity - 1)

LEMMA InitStore == Init => Store
<1> SUFFICES ASSUME Init PROVE Store
  OBVIOUS
<1>1. base_capacity \in Nat /\ base_capacity > 1 /\ MaxCapacity \in Nat /\ MaxCapacity >= base_capacity
  BY TextGeneratorAssumption
<1>2. capacity = base_capacity /\ sequence_context_slot_map = <<>> /\ aborted_context_handles = <<>>
  BY DEF Init, None
<1>3. pool = [i \in 1..(base_capacity - 1) |-> 1 + i - 1]
  <2>1. pool = [i \in 1..(base_capacity - 1) |-> i]
    BY DEF Init
  <2>2. \A i \in 1..(base_capacity - 1) : 1 + i - 1 = i
    BY <1>1
  <2> QED BY <2>1, <2>2
<1>4. Lists(pool, 1..(1 + (base_capacity - 1) - 1))
  BY <1>1, <1>3, IntervalLists
<1>5. Free = 1..(capacity - 1)
  BY <1>1, <1>2, <1>4 DEF Lists, Free
<1>6. Lists(pool, Free)
  BY <1>4 DEF Lists, Free
<1>7. Mapped = {} /\ Taken = {} /\ Aborted = {}
  BY <1>2 DEF Mapped, Taken, Aborted, Range
<1>8. Lists(aborted_context_handles, Aborted)
  BY <1>2, <1>7 DEF Lists, IsInjective, Aborted
<1>9. IsInjective(sequence_context_slot_map)
  BY <1>2 DEF IsInjective
<1>10. capacity \in base_capacity..MaxCapacity
  BY <1>1, <1>2
<1> QED
  BY <1>5, <1>6, <1>7, <1>8, <1>9, <1>10 DEF Store

(* The slots of a batch: a sequence keeps its slot, and a new one is given *)
(* a slot that nobody had.                                                 *)
LEMMA GetBatchContextHandlesStore ==
  ASSUME Store, NEW seqs \in SUBSET Seqs, NEW is_prefill,
         GetBatchContextHandles(seqs, is_prefill), UNCHANGED aborted_context_handles
  PROVE  /\ Store' /\ Mapped' = Mapped \cup seqs /\ Aborted' = Aborted
         /\ \A s \in Mapped : Slot(s)' = Slot(s)
         /\ \A s \in seqs \ Mapped : Slot(s)' \notin Taken \cup Aborted
<1> DEFINE new == seqs \ Mapped
           k == Cardinality(new)
           a == AllocateSlots(k)
<1>1. IsFiniteSet(new) /\ k \in Nat
  BY TextGeneratorAssumption, FS_Subset, FS_CardinalityType
<1>2. PICK order \in Bijection(new, 1..k) :
        sequence_context_slot_map' =
          [s \in Mapped \cup seqs |-> IF s \in new THEN a.slots[order[s]] ELSE sequence_context_slot_map[s]]
  BY DEF GetBatchContextHandles, Mapped
<1>3. pool' = a.pool /\ capacity' = a.capacity /\ a.capacity <= MaxCapacity
  BY DEF GetBatchContextHandles, Mapped
<1>4. base_capacity \in Nat /\ MaxCapacity \in Nat /\ capacity \in Nat /\ base_capacity <= capacity
  BY TextGeneratorAssumption DEF Store
<1>5. Free \in SUBSET Nat /\ Lists(pool, Free) /\ \A x \in Free : x < capacity
  BY <1>4 DEF Store
<1> HIDE DEF k, a
<1>6. /\ a.capacity \in Nat /\ a.capacity >= capacity
      /\ DOMAIN a.slots = 1..k
      /\ Lists(a.slots, Range(a.slots)) /\ Lists(a.pool, Range(a.pool))
      /\ Range(a.slots) \cap Range(a.pool) = {}
      /\ Range(a.slots) \cup Range(a.pool) = Free \cup capacity..(a.capacity - 1)
  BY <1>1, <1>4, <1>5, AllocateSlotsLists DEF a
<1>7. /\ order \in [new -> 1..k]
      /\ \A s, t \in new : order[s] = order[t] => s = t
      /\ \A i \in 1..k : \E s \in new : order[s] = i
  BY DEF Bijection, Injection, Surjection, IsInjective
<1>8. Mapped' = Mapped \cup seqs
  BY <1>2 DEF Mapped
<1>9. ASSUME NEW s \in Mapped
      PROVE  Slot(s)' = Slot(s)
  BY <1>2 DEF Mapped, Slot
<1>10. ASSUME NEW s \in new
       PROVE  Slot(s)' = a.slots[order[s]] /\ order[s] \in 1..k /\ Slot(s)' \in Range(a.slots)
  <2>1. order[s] \in 1..k
    BY <1>7
  <2>2. Slot(s)' = a.slots[order[s]]
    BY <1>2 DEF Mapped, Slot
  <2> QED BY <2>1, <2>2, <1>6, RangeMember
<1>11. Range(a.slots) \cap (Taken \cup Aborted) = {} /\ Range(a.pool) \cap (Taken \cup Aborted) = {}
  <2>1. (capacity..(a.capacity - 1)) \cap (1..(capacity - 1)) = {}
    BY <1>4, <1>6
  <2>2. Taken \cup Aborted \subseteq 1..(capacity - 1) /\ Free \cap (Taken \cup Aborted) = {}
    BY DEF Store
  <2> QED BY <2>1, <2>2, <1>6
<1>12. Taken' = Taken \cup Range(a.slots)
  <2>1. ASSUME NEW x \in Taken' PROVE x \in Taken \cup Range(a.slots)
    <3>1. PICK s \in Mapped' : Slot(s)' = x
      BY DEF Taken, Range, Mapped, Slot
    <3>2. CASE s \in Mapped
      BY <3>1, <3>2, <1>9 DEF Taken, Range, Mapped, Slot
    <3>3. CASE s \in new
      BY <3>1, <3>3, <1>10
    <3> QED BY <3>1, <3>2, <3>3, <1>8
  <2>2. ASSUME NEW x \in Taken PROVE x \in Taken'
    <3>1. PICK s \in Mapped : Slot(s) = x
      BY DEF Taken, Range, Mapped, Slot
    <3>2. s \in Mapped' /\ Slot(s)' = x
      BY <3>1, <1>8, <1>9
    <3> QED BY <3>2 DEF Taken, Range, Mapped, Slot
  <2>3. ASSUME NEW x \in Range(a.slots) PROVE x \in Taken'
    <3>1. PICK i \in 1..k : a.slots[i] = x
      <4>1. DOMAIN a.slots = 1..k
        BY <1>6
      <4> QED BY <4>1, RangeMember, Zenon
    <3>2. PICK s \in new : order[s] = i
      BY <1>7
    <3>3. s \in Mapped' /\ Slot(s)' = x
      BY <3>1, <3>2, <1>8, <1>10
    <3> QED BY <3>3 DEF Taken, Range, Mapped, Slot
  <2> QED BY <2>1, <2>2, <2>3
<1>13. ASSUME NEW s \in Mapped', NEW t \in Mapped', Slot(s)' = Slot(t)'
       PROVE  s = t
  <2>1. \A u \in Mapped : Slot(u) \in Taken
    BY DEF Taken, Range, Mapped, Slot
  <2>2. CASE s \in Mapped /\ t \in Mapped
    BY <2>2, <1>9, <1>13 DEF Store, IsInjective, Mapped, Slot
  <2>3. CASE s \in new /\ t \in new
    <3>1. a.slots[order[s]] = a.slots[order[t]] /\ order[s] \in 1..k /\ order[t] \in 1..k
      BY <2>3, <1>10, <1>13
    <3>2. order[s] = order[t]
      BY <3>1, <1>6 DEF Lists, IsInjective
    <3> QED BY <2>3, <3>2, <1>7
  <2>4. CASE s \in Mapped /\ t \in new
    <3>1. Slot(s)' \in Taken /\ Slot(t)' \in Range(a.slots)
      BY <2>4, <2>1, <1>9, <1>10
    <3> QED BY <3>1, <1>11, <1>13
  <2>5. CASE s \in new /\ t \in Mapped
    <3>1. Slot(t)' \in Taken /\ Slot(s)' \in Range(a.slots)
      BY <2>5, <2>1, <1>9, <1>10
    <3> QED BY <3>1, <1>11, <1>13
  <2> QED BY <2>2, <2>3, <2>4, <2>5, <1>8
<1>14. IsInjective(sequence_context_slot_map')
  BY <1>13 DEF IsInjective, Mapped, Slot
<1>15. Aborted' = Aborted /\ Free' = Range(a.pool)
  BY <1>3 DEF Aborted, Free
<1>16. capacity' \in base_capacity..MaxCapacity
  BY <1>3, <1>4, <1>6
<1>17. Free' \cup Taken' \cup Aborted' = 1..(capacity' - 1)
  <2>1. 1..(capacity' - 1) = (1..(capacity - 1)) \cup (capacity..(a.capacity - 1))
    <3>1. capacity' = a.capacity /\ capacity >= 1 /\ a.capacity \in Nat /\ a.capacity >= capacity /\ capacity \in Nat
      BY <1>3, <1>4, <1>6, TextGeneratorAssumption
    <3> QED BY <3>1
  <2>2. Free' \cup Taken' \cup Aborted' = (Range(a.slots) \cup Range(a.pool)) \cup Taken \cup Aborted
    BY <1>12, <1>15
  <2>3. Free \cup Taken \cup Aborted = 1..(capacity - 1)
    BY DEF Store
  <2> QED BY <2>1, <2>2, <2>3, <1>6
<1>18. Free' \cap Taken' = {} /\ Free' \cap Aborted' = {} /\ Taken' \cap Aborted' = {}
  <2>1. Taken \cap Aborted = {}
    BY DEF Store
  <2> QED BY <2>1, <1>6, <1>11, <1>12, <1>15
<1>19. Lists(pool', Free') /\ Lists(aborted_context_handles', Aborted')
  BY <1>3, <1>6, <1>15 DEF Store
<1>20. Mapped' \subseteq Seqs
  BY <1>8 DEF Store
<1>21. Store'
  BY <1>14, <1>16, <1>17, <1>18, <1>19, <1>20 DEF Store
<1> QED
  BY <1>8, <1>9, <1>10, <1>11, <1>15, <1>21

LEMMA WithoutStore ==
  ASSUME Store, NEW S, sequence_context_slot_map' = Without(S)
  PROVE  /\ Mapped' = Mapped \ S
         /\ \A s \in Mapped' : Slot(s)' = Slot(s)
         /\ IsInjective(sequence_context_slot_map')
         /\ Taken = Taken' \cup {Slot(s) : s \in S \cap Mapped}
         /\ Taken' \cap {Slot(s) : s \in S \cap Mapped} = {}
         /\ IsFiniteSet({Slot(s) : s \in S \cap Mapped})
         /\ {Slot(s) : s \in S \cap Mapped} \in SUBSET Nat
<1> DEFINE F == {Slot(s) : s \in S \cap Mapped}
<1>1. Mapped' = Mapped \ S
  BY DEF Without, Restrict, Mapped
<1>2. \A s \in Mapped' : Slot(s)' = Slot(s)
  BY <1>1 DEF Without, Restrict, Mapped, Slot
<1>3. \A s, t \in Mapped : Slot(s) = Slot(t) => s = t
  BY DEF Store, IsInjective, Mapped, Slot
<1>4. \A s, t \in Mapped' : Slot(s)' = Slot(t)' => s = t
  BY <1>1, <1>2, <1>3
<1>5. IsInjective(sequence_context_slot_map')
  BY <1>4 DEF IsInjective, Mapped, Slot
<1>6. \A x : x \in Taken <=> \E s \in Mapped : Slot(s) = x
  BY DEF Taken, Range, Mapped, Slot
<1>7. \A x : x \in Taken' <=> \E s \in Mapped' : Slot(s)' = x
  BY DEF Taken, Range, Mapped, Slot
<1>8. \A x : x \in F <=> \E s \in S \cap Mapped : Slot(s) = x
  OBVIOUS
<1> HIDE DEF F
<1>9. \A x : x \in Taken' <=> \E s \in Mapped \ S : Slot(s) = x
  BY <1>1, <1>2, <1>7
<1>10. Taken = Taken' \cup F
  <2>1. \A x : x \in Taken <=> x \in Taken' \/ x \in F
    BY <1>6, <1>8, <1>9
  <2> QED BY <2>1
<1>11. Taken' \cap F = {}
  <2> SUFFICES ASSUME NEW x, x \in Taken', x \in F PROVE FALSE
    OBVIOUS
  <2>1. PICK s \in Mapped \ S : Slot(s) = x
    BY <1>9
  <2>2. PICK t \in S \cap Mapped : Slot(t) = x
    BY <1>8
  <2> QED BY <2>1, <2>2, <1>3
<1>12. F \in SUBSET (1..(capacity - 1)) /\ capacity \in Nat
  BY <1>10, TextGeneratorAssumption DEF Store
<1>13. IsFiniteSet(F)
  <2>1. IsFiniteSet(1..(capacity - 1))
    BY <1>12, FS_Interval
  <2> QED BY <2>1, <1>12, FS_Subset
<1>14. F \in SUBSET Nat
  BY <1>12
<1> QED
  BY <1>1, <1>2, <1>5, <1>10, <1>11, <1>13, <1>14 DEF F

(* A cleanup: the slots of the sequences wait for the next postprocess.    *)
LEMMA ClearContextBySeqIdsStore ==
  ASSUME Store, NEW seqs, ClearContextBySeqIds(seqs)
  PROVE  /\ Store' /\ Mapped' = Mapped \ seqs
         /\ \A s \in Mapped' : Slot(s)' = Slot(s)
         /\ Aborted' = Aborted \cup {Slot(s) : s \in seqs \cap Mapped}
<1> DEFINE F == {Slot(s) : s \in seqs \cap Mapped}
<1>1. /\ Mapped' = Mapped \ seqs
      /\ \A s \in Mapped' : Slot(s)' = Slot(s)
      /\ IsInjective(sequence_context_slot_map')
      /\ Taken = Taken' \cup F /\ Taken' \cap F = {}
      /\ IsFiniteSet(F)
  BY WithoutStore DEF ClearContextBySeqIds
<1>2. aborted_context_handles' = aborted_context_handles \o SetToSeq(F)
  BY DEF ClearContextBySeqIds, Slot, Mapped
<1>3. pool' = pool /\ capacity' = capacity
  BY DEF ClearContextBySeqIds
<1> HIDE DEF F
<1>4. Lists(SetToSeq(F), F)
  BY <1>1, SetToSeqLists
<1>5. Lists(aborted_context_handles', Aborted \cup F)
  <2>1. Aborted \cap F = {} /\ Lists(aborted_context_handles, Aborted)
    BY <1>1 DEF Store
  <2> QED BY <2>1, <1>2, <1>4, ListsConcat
<1>6. Aborted' = Aborted \cup F
  BY <1>5 DEF Lists, Aborted
<1>7. Free' = Free
  BY <1>3 DEF Free
<1>8. Lists(pool', Free') /\ Lists(aborted_context_handles', Aborted')
  BY <1>3, <1>5, <1>6, <1>7 DEF Store
<1>9. Free' \cap Taken' = {} /\ Free' \cap Aborted' = {} /\ Taken' \cap Aborted' = {}
      /\ Free' \cup Taken' \cup Aborted' = 1..(capacity' - 1)
  <2>1. /\ Free \cap Taken = {} /\ Free \cap Aborted = {} /\ Taken \cap Aborted = {}
        /\ Free \cup Taken \cup Aborted = 1..(capacity - 1)
    BY DEF Store
  <2> QED BY <2>1, <1>1, <1>3, <1>6, <1>7
<1>10. Mapped' \subseteq Seqs /\ capacity' \in base_capacity..MaxCapacity
  BY <1>1, <1>3 DEF Store
<1>11. Store'
  BY <1>1, <1>8, <1>9, <1>10 DEF Store
<1> QED
  BY <1>1, <1>6, <1>11 DEF F

(* A postprocess: the slots of what was flagged and of what was aborted    *)
(* become free.                                                            *)
LEMMA UpdateStoreStore ==
  ASSUME Store, NEW out, NEW finished, UpdateStore(out, finished)
  PROVE  /\ Store' /\ Mapped' = Mapped \ FilterFinishedContext
         /\ \A s \in Mapped' : Slot(s)' = Slot(s)
         /\ Aborted' = {}
         /\ context' = [h \in Slots |-> context'[h]]
         /\ \A h \in Slots : context'[h] =
              IF h \in {Slot(s) : s \in FilterFinishedContext} \cup Aborted THEN Blank
              ELSE IF \E s \in out.seqs : out.cache_ids[s] = h
              THEN Update(context[h], out.tokens[CHOOSE s \in out.seqs : out.cache_ids[s] = h])
              ELSE context[h]
         /\ pending_cleanup_flags' =
              ({out.cache_ids[s] : s \in finished} \ pending_cleanup_flags) \ Aborted
<1> DEFINE C == FilterFinishedContext
           F == {Slot(s) : s \in C}
<1>1. C \cap Mapped = C /\ C \subseteq Mapped
  BY DEF FilterFinishedContext, Mapped
<1>2. /\ Mapped' = Mapped \ C
      /\ \A s \in Mapped' : Slot(s)' = Slot(s)
      /\ IsInjective(sequence_context_slot_map')
      /\ Taken = Taken' \cup {Slot(s) : s \in C \cap Mapped} /\ Taken' \cap {Slot(s) : s \in C \cap Mapped} = {}
      /\ IsFiniteSet({Slot(s) : s \in C \cap Mapped})
      /\ {Slot(s) : s \in C \cap Mapped} \in SUBSET Nat
  <2>1. sequence_context_slot_map' = Without(C)
    BY DEF UpdateStore
  <2> HIDE DEF C
  <2> QED BY <2>1, WithoutStore
<1>3. {Slot(s) : s \in C \cap Mapped} = F
  BY <1>1
<1> DEFINE freed == Ascending(F) \o aborted_context_handles
<1>4. /\ pool' = pool \o freed
      /\ context' = [h \in Slots |-> IF h \in Range(freed) THEN Blank
           ELSE [g \in Slots |->
                   IF \E s \in out.seqs : out.cache_ids[s] = g
                   THEN Update(context[g], out.tokens[CHOOSE s \in out.seqs : out.cache_ids[s] = g])
                   ELSE context[g]][h]]
      /\ aborted_context_handles' = <<>> /\ capacity' = capacity
  BY DEF UpdateStore, Slot
<1>5. pending_cleanup_flags' = ({out.cache_ids[s] : s \in finished} \ pending_cleanup_flags) \ Aborted
  BY DEF UpdateStore, NextFlags, Aborted
<1> HIDE DEF C, F
<1>6. Lists(Ascending(F), F)
  BY <1>2, <1>3, AscendingLists
<1>7. /\ Free \cap Taken = {} /\ Free \cap Aborted = {} /\ Taken \cap Aborted = {}
      /\ Free \cup Taken \cup Aborted = 1..(capacity - 1)
      /\ Lists(pool, Free) /\ Lists(aborted_context_handles, Aborted)
  BY DEF Store
<1>8. Lists(freed, F \cup Aborted)
  <2>1. F \cap Aborted = {}
    BY <1>2, <1>3, <1>7
  <2> QED BY <2>1, <1>6, <1>7, ListsConcat
<1> HIDE DEF freed
<1>9. Range(freed) = F \cup Aborted
  BY <1>8 DEF Lists
<1>10. Lists(pool', Free \cup (F \cup Aborted))
  <2>1. Free \cap (F \cup Aborted) = {}
    BY <1>2, <1>3, <1>7
  <2> QED BY <2>1, <1>4, <1>7, <1>8, ListsConcat
<1>11. Free' = Free \cup (F \cup Aborted) /\ Lists(pool', Free')
  BY <1>10 DEF Lists, Free
<1>12. Aborted' = {} /\ Lists(aborted_context_handles', Aborted')
  <2>1. Aborted' = {}
    BY <1>4 DEF Aborted, Range
  <2>2. aborted_context_handles' = <<>>
    BY <1>4
  <2> QED BY <2>1, <2>2 DEF Lists, IsInjective, Aborted
<1>13. Free' \cap Taken' = {} /\ Free' \cap Aborted' = {} /\ Taken' \cap Aborted' = {}
       /\ Free' \cup Taken' \cup Aborted' = 1..(capacity - 1)
  BY <1>2, <1>3, <1>7, <1>11, <1>12
<1>14. Mapped' \subseteq Seqs /\ capacity' \in base_capacity..MaxCapacity
  BY <1>2, <1>4 DEF Store
<1>15. Store'
  BY <1>2, <1>4, <1>11, <1>12, <1>13, <1>14 DEF Store
<1>16. ASSUME NEW h \in Slots
       PROVE  context'[h] =
              IF h \in F \cup Aborted THEN Blank
              ELSE IF \E s \in out.seqs : out.cache_ids[s] = h
              THEN Update(context[h], out.tokens[CHOOSE s \in out.seqs : out.cache_ids[s] = h])
              ELSE context[h]
  BY <1>4, <1>9, Zenon
<1>17. context' = [h \in Slots |-> context'[h]]
  BY <1>4
<1> QED
  BY <1>2, <1>5, <1>12, <1>15, <1>16, <1>17 DEF C, F

-----------------------------------------------------------------------------
(* The inference queue holds at most one batch, and cleanups before and    *)
(* after it.  The cleanups of a queue without a batch are all before the   *)
(* next one.                                                               *)
Requests ==
  [type : {"MODEL_INFER"}, kind : {"prefill", "decode", "dummy"}, seqs : SUBSET Seqs,
   lens : UNION {[S -> Int] : S \in SUBSET Seqs}]
    \cup [type : {"TEXT_GENERATOR_CLEANUP"}, seqs : SUBSET Seqs]

InfersOf(q) == {i \in DOMAIN q : q[i].type = "MODEL_INFER"}
AskedOf(q) == q[CHOOSE i \in InfersOf(q) : TRUE]
IsBefore(q, s) == \E i \in DOMAIN q : i \notin InfersOf(q) /\ s \in q[i].seqs /\ \A j \in InfersOf(q) : i < j
IsAfter(q, s) == \E i \in DOMAIN q : i \notin InfersOf(q) /\ s \in q[i].seqs /\ \E j \in InfersOf(q) : j < i
AtMostOne(q) == \A i, j \in InfersOf(q) : i = j

LEMMA EmptyQueue ==
  /\ InfersOf(<<>>) = {} /\ AtMostOne(<<>>)
  /\ \A s : ~IsBefore(<<>>, s) /\ ~IsAfter(<<>>, s)
BY DEF InfersOf, AtMostOne, IsBefore, IsAfter

LEMMA AskedUnique ==
  ASSUME NEW q, AtMostOne(q), NEW i \in InfersOf(q)
  PROVE  AskedOf(q) = q[i]
<1>1. (CHOOSE j \in InfersOf(q) : TRUE) \in InfersOf(q)
  OBVIOUS
<1>2. (CHOOSE j \in InfersOf(q) : TRUE) = i
  BY <1>1 DEF AtMostOne
<1> QED BY <1>2 DEF AskedOf

LEMMA AppendDomain ==
  ASSUME NEW R, NEW q \in Seq(R), NEW m \in R
  PROVE  /\ Append(q, m) \in Seq(R) /\ Len(q) \in Nat /\ DOMAIN q = 1..Len(q)
         /\ DOMAIN Append(q, m) = 1..(Len(q) + 1)
         /\ \A i \in 1..Len(q) : Append(q, m)[i] = q[i]
         /\ Append(q, m)[Len(q) + 1] = m
BY AppendProperties

(* A batch is sent to a queue without one.                                 *)
LEMMA SendBatchQueue ==
  ASSUME NEW R, NEW q \in Seq(R), InfersOf(q) = {}, NEW m \in R, m.type = "MODEL_INFER",
         NEW p, p = Append(q, m)
  PROVE  /\ InfersOf(p) # {} /\ AtMostOne(p) /\ AskedOf(p) = m
         /\ \A s : IsBefore(p, s) <=> IsBefore(q, s)
         /\ \A s : ~IsAfter(p, s)
<1> DEFINE n == Len(q)
<1>1. /\ n \in Nat /\ DOMAIN q = 1..n /\ DOMAIN p = 1..(n + 1)
      /\ \A i \in 1..n : p[i] = q[i]
      /\ p[n + 1] = m
  BY AppendDomain
<1> HIDE DEF n
<1>2. \A i \in 1..n : q[i].type # "MODEL_INFER"
  BY <1>1 DEF InfersOf
<1>3. InfersOf(p) = {n + 1}
  <2>1. n + 1 \in InfersOf(p)
    BY <1>1 DEF InfersOf
  <2>2. \A i \in InfersOf(p) : i = n + 1
    <3> SUFFICES ASSUME NEW i \in InfersOf(p), i # n + 1 PROVE FALSE
      OBVIOUS
    <3>1. i \in 1..(n + 1) /\ p[i].type = "MODEL_INFER"
      BY <1>1 DEF InfersOf
    <3>2. i \in 1..n
      BY <3>1, <1>1
    <3> QED BY <3>1, <3>2, <1>1, <1>2
  <2> QED BY <2>1, <2>2
<1>4. AtMostOne(p)
  BY <1>3 DEF AtMostOne
<1>5. AskedOf(p) = m
  BY <1>1, <1>3, <1>4, AskedUnique
<1>6. ASSUME NEW s PROVE ~IsAfter(p, s)
  BY <1>1, <1>3 DEF IsAfter
<1>7. ASSUME NEW s, IsBefore(p, s) PROVE IsBefore(q, s)
  <2>1. PICK i \in 1..(n + 1) : i \notin InfersOf(p) /\ s \in p[i].seqs
    BY <1>1, <1>7 DEF IsBefore
  <2>2. i \in 1..n /\ s \in q[i].seqs
    <3>1. i # n + 1
      BY <2>1, <1>3
    <3>2. i \in 1..n
      BY <3>1, <1>1
    <3> QED BY <2>1, <3>2, <1>1
  <2> QED BY <2>2, <1>1 DEF IsBefore
<1>8. ASSUME NEW s, IsBefore(q, s) PROVE IsBefore(p, s)
  <2>1. PICK i \in 1..n : s \in q[i].seqs
    BY <1>1, <1>8 DEF IsBefore
  <2>2. i \in 1..(n + 1) /\ i < n + 1 /\ i # n + 1
    BY <1>1
  <2>3. s \in p[i].seqs
    BY <2>1, <1>1
  <2> QED BY <2>2, <2>3, <1>1, <1>3 DEF IsBefore
<1> QED
  BY <1>3, <1>4, <1>5, <1>6, <1>7, <1>8

(* A cleanup is sent to a queue with or without a batch.                   *)
LEMMA SendCleanupQueue ==
  ASSUME NEW R, NEW q \in Seq(R), NEW m \in R, m.type # "MODEL_INFER", AtMostOne(q),
         NEW p, p = Append(q, m)
  PROVE  /\ InfersOf(p) = InfersOf(q) /\ AtMostOne(p) /\ (InfersOf(q) # {} => AskedOf(p) = AskedOf(q))
         /\ \A s : IsBefore(p, s) <=> IsBefore(q, s) \/ (InfersOf(q) = {} /\ s \in m.seqs)
         /\ \A s : IsAfter(p, s) <=> IsAfter(q, s) \/ (InfersOf(q) # {} /\ s \in m.seqs)
<1> DEFINE n == Len(q)
<1>1. /\ n \in Nat /\ DOMAIN q = 1..n /\ DOMAIN p = 1..(n + 1)
      /\ \A i \in 1..n : p[i] = q[i]
      /\ p[n + 1] = m
  BY AppendDomain
<1> HIDE DEF n
<1>2. 1..(n + 1) = (1..n) \cup {n + 1}
  BY <1>1
<1>3. InfersOf(p) = InfersOf(q)
  BY <1>1, <1>2 DEF InfersOf
<1>4. InfersOf(q) \subseteq 1..n /\ n + 1 \notin InfersOf(q)
  BY <1>1 DEF InfersOf
<1>5. AtMostOne(p)
  BY <1>3 DEF AtMostOne
<1>6. ASSUME InfersOf(q) # {} PROVE AskedOf(p) = AskedOf(q)
  <2>1. PICK i : i \in InfersOf(q)
    BY <1>6
  <2>2. AskedOf(p) = p[i] /\ AskedOf(q) = q[i]
    BY <2>1, <1>3, <1>5, AskedUnique
  <2> QED BY <2>1, <2>2, <1>1, <1>4
<1>7. \A j \in InfersOf(q) : j \in Int /\ j < n + 1 /\ ~(n + 1 < j)
  BY <1>1, <1>4
<1>8. ASSUME NEW s
      PROVE  IsBefore(p, s) <=> IsBefore(q, s) \/ (InfersOf(q) = {} /\ s \in m.seqs)
  <2>1. ASSUME IsBefore(p, s) PROVE IsBefore(q, s) \/ (InfersOf(q) = {} /\ s \in m.seqs)
    <3>1. PICK i \in 1..(n + 1) : i \notin InfersOf(q) /\ s \in p[i].seqs /\ \A j \in InfersOf(q) : i < j
      BY <1>1, <1>3, <2>1 DEF IsBefore
    <3>2. CASE i \in 1..n
      BY <3>1, <3>2, <1>1 DEF IsBefore
    <3>3. CASE i = n + 1
      BY <3>1, <3>3, <1>1, <1>7
    <3> QED BY <3>2, <3>3, <1>2
  <2>2. ASSUME IsBefore(q, s) PROVE IsBefore(p, s)
    <3>1. PICK i \in 1..n : i \notin InfersOf(q) /\ s \in q[i].seqs /\ \A j \in InfersOf(q) : i < j
      BY <1>1, <2>2 DEF IsBefore
    <3> QED BY <3>1, <1>1, <1>2, <1>3 DEF IsBefore
  <2>3. ASSUME InfersOf(q) = {}, s \in m.seqs PROVE IsBefore(p, s)
    <3>1. n + 1 \in DOMAIN p
      BY <1>1, <1>2
    <3> QED BY <2>3, <3>1, <1>1, <1>3 DEF IsBefore
  <2> QED BY <2>1, <2>2, <2>3
<1>9. ASSUME NEW s
      PROVE  IsAfter(p, s) <=> IsAfter(q, s) \/ (InfersOf(q) # {} /\ s \in m.seqs)
  <2>1. ASSUME IsAfter(p, s) PROVE IsAfter(q, s) \/ (InfersOf(q) # {} /\ s \in m.seqs)
    <3>1. PICK i \in 1..(n + 1) : i \notin InfersOf(q) /\ s \in p[i].seqs /\ \E j \in InfersOf(q) : j < i
      BY <1>1, <1>3, <2>1 DEF IsAfter
    <3>2. CASE i \in 1..n
      BY <3>1, <3>2, <1>1 DEF IsAfter
    <3>3. CASE i = n + 1
      BY <3>1, <3>3, <1>1
    <3> QED BY <3>2, <3>3, <1>2
  <2>2. ASSUME IsAfter(q, s) PROVE IsAfter(p, s)
    <3>1. PICK i \in 1..n : i \notin InfersOf(q) /\ s \in q[i].seqs /\ \E j \in InfersOf(q) : j < i
      BY <1>1, <2>2 DEF IsAfter
    <3> QED BY <3>1, <1>1, <1>2, <1>3 DEF IsAfter
  <2>3. ASSUME InfersOf(q) # {}, s \in m.seqs PROVE IsAfter(p, s)
    <3>1. n + 1 \in DOMAIN p
      BY <1>1, <1>2
    <3>2. \E j \in InfersOf(q) : j < n + 1
      BY <2>3, <1>7
    <3> QED BY <2>3, <3>1, <3>2, <1>1, <1>3, <1>4 DEF IsAfter
  <2> QED BY <2>1, <2>2, <2>3
<1> QED
  BY <1>3, <1>5, <1>6, <1>8, <1>9

LEMMA TailDomain ==
  ASSUME NEW R, NEW q \in Seq(R), q # <<>>
  PROVE  /\ Tail(q) \in Seq(R) /\ Len(q) \in Nat /\ Len(q) >= 1 /\ DOMAIN q = 1..Len(q)
         /\ DOMAIN Tail(q) = 1..(Len(q) - 1) /\ Head(q) = q[1] /\ q[1] \in R
         /\ \A i \in 1..(Len(q) - 1) : Tail(q)[i] = q[i + 1]
<1>1. Len(q) \in Nat /\ Len(q) # 0
  BY EmptySeq
<1>2. Tail(q) \in Seq(R) /\ Len(Tail(q)) = Len(q) - 1 /\ \A i \in 1..(Len(q) - 1) : Tail(q)[i] = q[i + 1]
  BY HeadTailProperties
<1>3. DOMAIN q = 1..Len(q) /\ 1 \in 1..Len(q)
  BY <1>1
<1>4. q[1] \in R /\ Head(q) = q[1]
  BY <1>3
<1>5. DOMAIN Tail(q) = 1..(Len(q) - 1)
  BY <1>2
<1> QED BY <1>1, <1>2, <1>3, <1>4, <1>5

(* The batch leaves the queue: the cleanups after it are the next ones.    *)
LEMMA TakeBatchQueue ==
  ASSUME NEW R, NEW q \in Seq(R), q # <<>>, Head(q).type = "MODEL_INFER", AtMostOne(q),
         NEW p, p = Tail(q)
  PROVE  /\ InfersOf(q) # {} /\ AskedOf(q) = Head(q)
         /\ InfersOf(p) = {} /\ AtMostOne(p)
         /\ \A s : IsBefore(p, s) <=> IsAfter(q, s)
         /\ \A s : ~IsBefore(q, s) /\ ~IsAfter(p, s)
<1> DEFINE n == Len(q)
<1>1. /\ n \in Nat /\ n >= 1 /\ DOMAIN q = 1..n
      /\ DOMAIN p = 1..(n - 1) /\ Head(q) = q[1]
      /\ \A i \in 1..(n - 1) : p[i] = q[i + 1]
  BY TailDomain
<1> HIDE DEF n
<1>2. 1 \in InfersOf(q)
  BY <1>1 DEF InfersOf
<1>3. InfersOf(q) = {1}
  BY <1>2 DEF AtMostOne
<1>4. AskedOf(q) = Head(q)
  BY <1>1, <1>2, AskedUnique
<1>5. InfersOf(p) = {}
  <2> SUFFICES ASSUME NEW i \in InfersOf(p) PROVE FALSE
    OBVIOUS
  <2>1. i \in 1..(n - 1) /\ p[i].type = "MODEL_INFER"
    BY <1>1 DEF InfersOf
  <2>2. i + 1 \in 1..n /\ i + 1 # 1 /\ q[i + 1].type = "MODEL_INFER"
    BY <2>1, <1>1
  <2>3. i + 1 \in InfersOf(q)
    BY <2>2, <1>1 DEF InfersOf
  <2> QED BY <2>2, <2>3, <1>3
<1>6. AtMostOne(p) /\ \A s : ~IsAfter(p, s)
  BY <1>5 DEF AtMostOne, IsAfter
<1>7. ASSUME NEW s, IsBefore(p, s) PROVE IsAfter(q, s)
  <2>1. PICK i \in 1..(n - 1) : s \in p[i].seqs
    BY <1>1, <1>7 DEF IsBefore
  <2>2. i + 1 \in 1..n /\ i + 1 # 1 /\ 1 < i + 1
    BY <1>1
  <2>3. s \in q[i + 1].seqs /\ i + 1 \in DOMAIN q
    BY <2>1, <2>2, <1>1
  <2> QED BY <2>2, <2>3, <1>3 DEF IsAfter
<1>8. ASSUME NEW s, IsAfter(q, s) PROVE IsBefore(p, s)
  <2>1. PICK i \in 1..n : i # 1 /\ s \in q[i].seqs
    BY <1>1, <1>3, <1>8 DEF IsAfter
  <2>2. i - 1 \in 1..(n - 1) /\ (i - 1) + 1 = i
    BY <2>1, <1>1
  <2>3. s \in p[i - 1].seqs
    BY <2>1, <2>2, <1>1
  <2> QED BY <2>2, <2>3, <1>1, <1>5 DEF IsBefore
<1>9. ASSUME NEW s, IsBefore(q, s) PROVE FALSE
  <2>1. PICK i \in 1..n : i < 1
    BY <1>1, <1>2, <1>9 DEF IsBefore
  <2> QED BY <2>1
<1> QED
  BY <1>2, <1>4, <1>5, <1>6, <1>7, <1>8, <1>9

(* A cleanup leaves the queue.                                             *)
LEMMA TakeCleanupQueue ==
  ASSUME NEW R, NEW q \in Seq(R), q # <<>>, Head(q).type # "MODEL_INFER", AtMostOne(q),
         NEW p, p = Tail(q)
  PROVE  /\ InfersOf(p) = {} <=> InfersOf(q) = {}
         /\ AtMostOne(p) /\ (InfersOf(q) # {} => AskedOf(p) = AskedOf(q))
         /\ \A s : IsBefore(q, s) <=> IsBefore(p, s) \/ s \in Head(q).seqs
         /\ \A s : IsAfter(p, s) <=> IsAfter(q, s)
<1> DEFINE n == Len(q)
<1>1. /\ n \in Nat /\ n >= 1 /\ DOMAIN q = 1..n
      /\ DOMAIN p = 1..(n - 1) /\ Head(q) = q[1]
      /\ \A i \in 1..(n - 1) : p[i] = q[i + 1]
  BY TailDomain
<1> HIDE DEF n
<1>2. 1 \notin InfersOf(q) /\ 1 \in 1..n
  BY <1>1 DEF InfersOf
<1>3. \A i \in 1..(n - 1) : i + 1 \in 1..n /\ i + 1 # 1 /\ p[i] = q[i + 1]
  BY <1>1
<1>4. \A i \in 1..n : i # 1 => i - 1 \in 1..(n - 1) /\ (i - 1) + 1 = i
  BY <1>1
<1>5. \A i \in 1..(n - 1) : i \in InfersOf(p) <=> i + 1 \in InfersOf(q)
  BY <1>1, <1>3 DEF InfersOf
<1>6. InfersOf(p) \subseteq 1..(n - 1) /\ InfersOf(q) \subseteq 1..n
  BY <1>1 DEF InfersOf
<1>7. \A i \in InfersOf(q) : i - 1 \in InfersOf(p) /\ (i - 1) + 1 = i /\ i # 1
  BY <1>2, <1>4, <1>5, <1>6
<1>8. InfersOf(p) = {} <=> InfersOf(q) = {}
  BY <1>5, <1>6, <1>7
<1>9. AtMostOne(p)
  <2> SUFFICES ASSUME NEW i \in InfersOf(p), NEW j \in InfersOf(p) PROVE i = j
    BY DEF AtMostOne
  <2>1. i + 1 = j + 1 /\ i \in Int /\ j \in Int
    BY <1>5, <1>6 DEF AtMostOne
  <2> QED BY <2>1
<1>10. ASSUME InfersOf(q) # {} PROVE AskedOf(p) = AskedOf(q)
  <2>1. PICK i : i \in InfersOf(q)
    BY <1>10
  <2>2. i - 1 \in InfersOf(p) /\ (i - 1) + 1 = i
    BY <2>1, <1>7
  <2>3. AskedOf(p) = p[i - 1] /\ AskedOf(q) = q[i]
    BY <2>1, <2>2, <1>9, AskedUnique
  <2> QED BY <2>2, <2>3, <1>3, <1>6
<1>11. ASSUME NEW s
       PROVE  IsBefore(q, s) <=> IsBefore(p, s) \/ s \in Head(q).seqs
  <2>1. ASSUME IsBefore(q, s), s \notin Head(q).seqs PROVE IsBefore(p, s)
    <3>1. PICK i \in 1..n : i \notin InfersOf(q) /\ s \in q[i].seqs /\ \A j \in InfersOf(q) : i < j
      BY <1>1, <2>1 DEF IsBefore
    <3>2. i # 1
      BY <3>1, <2>1, <1>1
    <3>5. i - 1 \in 1..(n - 1) /\ (i - 1) + 1 = i
      BY <3>2, <1>4
    <3>3. i - 1 \in 1..(n - 1) /\ i - 1 \notin InfersOf(p) /\ s \in p[i - 1].seqs
      BY <3>1, <3>5, <1>3, <1>5
    <3>4. \A j \in InfersOf(p) : i - 1 < j
      <4> SUFFICES ASSUME NEW j \in InfersOf(p) PROVE i - 1 < j
        OBVIOUS
      <4>1. j \in 1..(n - 1) /\ j + 1 \in InfersOf(q)
        BY <1>5, <1>6
      <4>2. i < j + 1
        BY <3>1, <4>1
      <4> QED BY <4>1, <4>2
    <3> QED BY <3>3, <3>4, <1>1 DEF IsBefore
  <2>2. ASSUME IsBefore(p, s) PROVE IsBefore(q, s)
    <3>1. PICK i \in 1..(n - 1) : i \notin InfersOf(p) /\ s \in p[i].seqs /\ \A j \in InfersOf(p) : i < j
      BY <1>1, <2>2 DEF IsBefore
    <3>2. i + 1 \in 1..n /\ i + 1 \notin InfersOf(q) /\ s \in q[i + 1].seqs
      BY <3>1, <1>3, <1>5
    <3>3. \A j \in InfersOf(q) : i + 1 < j
      <4> SUFFICES ASSUME NEW j \in InfersOf(q) PROVE i + 1 < j
        OBVIOUS
      <4>1. j - 1 \in InfersOf(p) /\ j \in 1..n
        BY <1>6, <1>7
      <4>2. i < j - 1
        BY <3>1, <4>1
      <4> QED BY <4>1, <4>2
    <3> QED BY <3>2, <3>3, <1>1 DEF IsBefore
  <2>3. ASSUME s \in Head(q).seqs PROVE IsBefore(q, s)
    <3>1. \A j \in InfersOf(q) : 1 < j
      <4> SUFFICES ASSUME NEW j \in InfersOf(q) PROVE 1 < j
        OBVIOUS
      <4>1. j \in 1..n /\ j # 1
        BY <1>2, <1>6
      <4> QED BY <4>1
    <3> QED BY <2>3, <3>1, <1>1, <1>2 DEF IsBefore
  <2> QED BY <2>1, <2>2, <2>3
<1>12. ASSUME NEW s PROVE IsAfter(p, s) <=> IsAfter(q, s)
  <2>1. ASSUME IsAfter(q, s) PROVE IsAfter(p, s)
    <3>1. PICK i \in 1..n : i \notin InfersOf(q) /\ s \in q[i].seqs /\ \E j \in InfersOf(q) : j < i
      BY <1>1, <2>1 DEF IsAfter
    <3>2. PICK j \in InfersOf(q) : j < i
      BY <3>1
    <3>3. j \in 1..n /\ j - 1 \in InfersOf(p) /\ j - 1 < i - 1 /\ i # 1
      BY <3>2, <1>6, <1>7
    <3>4. i - 1 \in 1..(n - 1) /\ i - 1 \notin InfersOf(p) /\ s \in p[i - 1].seqs
      BY <3>1, <3>3, <1>3, <1>4, <1>5
    <3> QED BY <3>3, <3>4, <1>1 DEF IsAfter
  <2>2. ASSUME IsAfter(p, s) PROVE IsAfter(q, s)
    <3>1. PICK i \in 1..(n - 1) : i \notin InfersOf(p) /\ s \in p[i].seqs /\ \E j \in InfersOf(p) : j < i
      BY <1>1, <2>2 DEF IsAfter
    <3>2. PICK j \in InfersOf(p) : j < i
      BY <3>1
    <3>3. j \in 1..(n - 1) /\ j + 1 \in InfersOf(q) /\ j + 1 < i + 1
      BY <3>2, <1>5, <1>6
    <3>4. i + 1 \in 1..n /\ i + 1 \notin InfersOf(q) /\ s \in q[i + 1].seqs
      BY <3>1, <1>3, <1>5
    <3> QED BY <3>3, <3>4, <1>1 DEF IsAfter
  <2> QED BY <2>1, <2>2
<1> QED
  BY <1>8, <1>9, <1>10, <1>11, <1>12

-----------------------------------------------------------------------------
(* The inductive invariant.  First what it speaks of: the batch that is    *)
(* queued, the cleanups before and after it, the batch before the current  *)
(* one with the tokens it will give, and the answer under way.             *)
Queued == InfersOf(inference_queue) # {}
Asked == AskedOf(inference_queue)
AskedFor(s) == Queued /\ s \in Asked.seqs
ToPrefill(s) == Queued /\ Asked.kind = "prefill" /\ s \in Asked.seqs
Before(s) == IsBefore(inference_queue, s)
After(s) == IsAfter(inference_queue, s)

Previous ==
  IF pc = "post" THEN model_output_wrapper
  ELSE IF output_queue # <<>> THEN output_queue[1] ELSE input_queue[1]
PreviousToken(s) ==
  IF pc = "post" \/ output_queue # <<>> THEN Previous.tokens[s] ELSE Sample(s, input_queue[1].inputs[s])
InPrevious(s) == s \in Previous.seqs
InCurrent(s) == pc # "idle" /\ s \in current.seqs

Replied(s) == responses # <<>> /\ s \in responses[1].seqs
Ends(s) == responses # <<>> /\ s \in responses[1].seqs /\ s \in responses[1].finished

Live(s) == phase[s] \in {"running", "preempted"}
Flagged(s) == s \in Mapped /\ Slot(s) \in pending_cleanup_flags
Known(s) == PromptLen + Len(stream[s])
Due(s) == IF Replied(s) THEN Known(s) + 1 ELSE Known(s)

Tokens == {None} \cup (Seqs \X Int)
Inputs == [token : Tokens, len : Int, pos : Int]
Contexts == [last_input_ids : Tokens, seq_lens : Int, cached_seq_idx : Int]

Types ==
  /\ phase \in [Seqs -> {"absent", "waiting", "running", "preempted", "ended"}]
  /\ outstanding \in BOOLEAN /\ TGCleanupSeqIds \subseteq Seqs /\ preempts \in 0..MaxPreempts
  /\ pc \in {"idle", "fetch", "post"} /\ recovery = "none" /\ is_inference_pause = FALSE
  /\ stream \in [Seqs -> Seq(Seqs \X Int)]
  /\ inference_queue \in Seq(Requests)
  /\ context \in [Slots -> Contexts]

(* Between two calls there is one batch in the two queues, and none of     *)
(* their own in a call's second half.                                      *)
Pipeline ==
  /\ pc = "post" => input_queue = <<current>> /\ output_queue = <<>>
  /\ pc # "post" => \/ input_queue = <<>> /\ output_queue = <<output_queue[1]>>
                    \/ output_queue = <<>> /\ input_queue = <<input_queue[1]>>
  /\ responses = <<>> \/ responses = <<responses[1]>>
  /\ output_queue # <<>> => output_queue[1].is_mock = FALSE
  /\ pc = "post" => model_output_wrapper.is_mock = FALSE
  /\ last_sequence_ids = Previous.seqs

(* An outstanding batch is in the queue, in the call or answered.          *)
Turns ==
  /\ AtMostOne(inference_queue)
  /\ outstanding \/ (~Queued /\ pc = "idle" /\ responses = <<>>)
  /\ Queued => pc = "idle" /\ responses = <<>>
  /\ pc # "idle" => responses = <<>>

Batches ==
  /\ Previous.seqs \subseteq Seqs /\ Previous.kind \in {"empty", "prefill", "decode", "dummy"}
  /\ Previous.kind \in {"empty", "dummy"} => Previous.seqs = {}
  /\ \A s, t \in Previous.seqs : Previous.cache_ids[s] = Previous.cache_ids[t] => s = t
  /\ \A s \in Previous.seqs : PreviousToken(s) \in Tokens
  /\ pc # "idle" =>
       /\ current = [kind |-> current.kind, seqs |-> current.seqs, cache_ids |-> current.cache_ids,
                     inputs |-> current.inputs]
       /\ current.seqs \subseteq Seqs /\ current.kind \in {"prefill", "decode", "dummy"}
       /\ current.kind = "dummy" => current.seqs = {}
       /\ \A s \in current.seqs : current.inputs[s] \in Inputs
  /\ Queued =>
       /\ Asked.kind = "dummy" => Asked.seqs = {}
       /\ \A s \in Asked.seqs : Asked.lens[s] \in Int

FlagsKnown == pending_cleanup_flags \subseteq Taken \cup Aborted

(* Who has a slot that a batch in flight uses.                             *)
Owned(s) ==
  /\ InPrevious(s) => \/ s \in Mapped /\ Slot(s) = Previous.cache_ids[s]
                      \/ s \notin Mapped /\ Previous.cache_ids[s] \in Aborted /\ phase[s] = "ended"
  /\ InCurrent(s) => s \in Mapped /\ current.cache_ids[s] = Slot(s) /\ ~Flagged(s)

(* When a flag is set.                                                     *)
Flags(s) ==
  /\ Flagged(s) => phase[s] = "ended" \/ Ends(s)
  /\ Ends(s) /\ s \in Mapped => Flagged(s)
  /\ AskedFor(s) => ~Flagged(s)

(* What the engine thinks of a sequence under way.                         *)
Phases(s) ==
  /\ s \in TGCleanupSeqIds => phase[s] = "ended"
  /\ AskedFor(s) => phase[s] = "running" \/ (phase[s] = "ended" /\ s \in TGCleanupSeqIds)
  /\ InCurrent(s) => phase[s] \in {"running", "ended"}
  /\ InPrevious(s) => Live(s) \/ phase[s] = "ended"
  /\ InPrevious(s) /\ ~Queued /\ pc = "idle" => phase[s] # "preempted"
  /\ Replied(s) => Live(s) \/ phase[s] = "ended"
  /\ InPrevious(s) /\ Queued /\ Asked.kind = "dummy" => phase[s] = "ended"
  /\ InPrevious(s) /\ pc # "idle" /\ current.kind = "dummy" => phase[s] = "ended"

(* When a cleanup may name a sequence.                                     *)
Cleanups(s) ==
  /\ Before(s) => phase[s] \in {"preempted", "ended"} \/ ToPrefill(s)
  /\ After(s) => phase[s] \in {"preempted", "ended"} /\ ~AskedFor(s)
  /\ Before(s) => ~InCurrent(s)
  /\ Before(s) /\ InPrevious(s) => phase[s] = "ended" \/ pc # "idle"
  /\ phase[s] = "running" => s \in Mapped \/ ToPrefill(s)
  /\ AskedFor(s) /\ Asked.kind = "decode" => s \in Mapped /\ ~Before(s)
  /\ InPrevious(s) => ~ToPrefill(s)
  /\ InCurrent(s) /\ current.kind = "prefill" => ~InPrevious(s)

(* What will clear the context of a sequence that has ended.               *)
Leaks(s) ==
  s \in Mapped /\ phase[s] = "ended" =>
    Flagged(s) \/ s \in TGCleanupSeqIds \/ Before(s) \/ After(s)

(* Where the next token of a sequence is, at every stage.                  *)
Received(s) == stream[s] = [i \in 1..Len(stream[s]) |-> <<s, PromptLen + i - 1>>]
Computed(s) == InPrevious(s) /\ Live(s) => PreviousToken(s) = <<s, Due(s)>>
Replying(s) == Replied(s) /\ Live(s) => responses[1].tokens[s] = <<s, Known(s)>>
Asking(s) == AskedFor(s) /\ phase[s] = "running" => Asked.lens[s] = Known(s)
Remembered(s) ==
  s \in Mapped /\ phase[s] = "running" /\ ~ToPrefill(s) =>
    /\ context[Slot(s)].seq_lens = Due(s) /\ context[Slot(s)].cached_seq_idx = Due(s) - 1
    /\ \/ InPrevious(s)
       \/ InCurrent(s) /\ current.kind = "prefill"
       \/ context[Slot(s)].last_input_ids = <<s, Due(s) - 1>>
Composed(s) ==
  pc = "fetch" /\ InCurrent(s) /\ phase[s] = "running" =>
    IF InPrevious(s)
    THEN current.kind = "decode" /\ current.inputs[s].len = Known(s) /\ current.inputs[s].pos = Known(s)
    ELSE /\ current.inputs[s].token = <<s, Known(s) - 1>>
         /\ current.inputs[s].len = Known(s) /\ current.inputs[s].pos = Known(s) - 1
FilledIn(s) ==
  pc = "post" /\ InCurrent(s) /\ phase[s] = "running" =>
    Sample(s, current.inputs[s]) = <<s, IF InPrevious(s) THEN Known(s) + 1 ELSE Known(s)>>
Exact(s) ==
  /\ Received(s) /\ Computed(s) /\ Replying(s) /\ Asking(s) /\ Remembered(s) /\ Composed(s) /\ FilledIn(s)

SInv(s) == Owned(s) /\ Flags(s) /\ Phases(s) /\ Cleanups(s) /\ Leaks(s) /\ Exact(s)

IInv ==
  /\ Types /\ Store /\ Pipeline /\ Turns /\ Batches /\ FlagsKnown
  /\ \A s \in Seqs : SInv(s)

-----------------------------------------------------------------------------
(* What the views depend on.                                               *)
LEMMA QueueFrame ==
  ASSUME inference_queue' = inference_queue, NEW s
  PROVE  /\ Queued' <=> Queued
         /\ Asked' = Asked
         /\ AtMostOne(inference_queue)' <=> AtMostOne(inference_queue)
         /\ AskedFor(s)' <=> AskedFor(s)
         /\ ToPrefill(s)' <=> ToPrefill(s)
         /\ Before(s)' <=> Before(s)
         /\ After(s)' <=> After(s)
BY DEF Queued, Asked, AskedFor, ToPrefill, Before, After

LEMMA StoreFrame ==
  ASSUME pool' = pool, capacity' = capacity, sequence_context_slot_map' = sequence_context_slot_map,
         aborted_context_handles' = aborted_context_handles, NEW s
  PROVE  /\ Store' <=> Store
         /\ Mapped' = Mapped /\ Taken' = Taken /\ Aborted' = Aborted
         /\ Slot(s)' = Slot(s)
         /\ pending_cleanup_flags' = pending_cleanup_flags => (Flagged(s)' <=> Flagged(s))
         /\ pending_cleanup_flags' = pending_cleanup_flags => (FlagsKnown' <=> FlagsKnown)
BY DEF Store, Mapped, Taken, Free, Aborted, Slot, Flagged, FlagsKnown

LEMMA PreviousFrame ==
  ASSUME output_queue' = output_queue, input_queue' = input_queue,
         model_output_wrapper' = model_output_wrapper, pc = "post" <=> pc' = "post", NEW s
  PROVE  /\ Previous' = Previous /\ PreviousToken(s)' = PreviousToken(s)
         /\ InPrevious(s)' <=> InPrevious(s)
<1>1. Previous' = Previous
  BY DEF Previous
<1>2. PreviousToken(s)' = PreviousToken(s)
  BY <1>1 DEF PreviousToken, Sample
<1>3. InPrevious(s)' <=> InPrevious(s)
  BY <1>1 DEF InPrevious
<1> QED BY <1>1, <1>2, <1>3

LEMMA ReplyFrame ==
  ASSUME responses' = responses, NEW s
  PROVE  /\ Replied(s)' <=> Replied(s)
         /\ Ends(s)' <=> Ends(s)
         /\ stream' = stream => Known(s)' = Known(s) /\ Due(s)' = Due(s) /\ (Received(s)' <=> Received(s))
BY DEF Replied, Ends, Known, Due, Received

(* A step of the engine that changes nothing but phases and its list of    *)
(* aborted sequences.                                                      *)
EngineOnly ==
  UNCHANGED <<stream, outstanding, preempts, inference_queue, input_queue, output_queue,
              responses, threadVars, storeVars, recoveryVars>>

LEMMA EngineFrameAt ==
  ASSUME EngineOnly, NEW s
  PROVE  /\ Queued' <=> Queued
         /\ Asked' = Asked
         /\ AskedFor(s)' <=> AskedFor(s)
         /\ ToPrefill(s)' <=> ToPrefill(s)
         /\ Before(s)' <=> Before(s)
         /\ After(s)' <=> After(s)
         /\ Mapped' = Mapped /\ Aborted' = Aborted
         /\ Slot(s)' = Slot(s)
         /\ Flagged(s)' <=> Flagged(s)
         /\ Previous' = Previous
         /\ PreviousToken(s)' = PreviousToken(s)
         /\ InPrevious(s)' <=> InPrevious(s)
         /\ InCurrent(s)' <=> InCurrent(s)
         /\ Replied(s)' <=> Replied(s)
         /\ Ends(s)' <=> Ends(s)
         /\ Known(s)' = Known(s) /\ Due(s)' = Due(s) /\ (Received(s)' <=> Received(s))
         /\ UNCHANGED <<pc, current, context, responses>>
<1>1. UNCHANGED <<stream, inference_queue, input_queue, output_queue, responses>>
  BY DEF EngineOnly
<1>2. UNCHANGED <<pc, current, model_output_wrapper, last_sequence_ids>>
  BY DEF EngineOnly, threadVars
<1>3. UNCHANGED <<pool, capacity, sequence_context_slot_map, context, pending_cleanup_flags, aborted_context_handles>>
  BY DEF EngineOnly, storeVars
<1>4. Previous' = Previous /\ PreviousToken(s)' = PreviousToken(s) /\ (InPrevious(s)' <=> InPrevious(s))
  BY <1>1, <1>2, PreviousFrame
<1>5. /\ Queued' <=> Queued
      /\ Asked' = Asked
      /\ AskedFor(s)' <=> AskedFor(s)
      /\ ToPrefill(s)' <=> ToPrefill(s)
      /\ Before(s)' <=> Before(s)
      /\ After(s)' <=> After(s)
  BY <1>1, QueueFrame
<1>6. Mapped' = Mapped /\ Aborted' = Aborted /\ Slot(s)' = Slot(s) /\ (Flagged(s)' <=> Flagged(s))
  BY <1>3, StoreFrame
<1>7. InCurrent(s)' <=> InCurrent(s)
  BY <1>2 DEF InCurrent
<1>8. /\ Replied(s)' <=> Replied(s)
      /\ Ends(s)' <=> Ends(s)
      /\ Known(s)' = Known(s) /\ Due(s)' = Due(s) /\ (Received(s)' <=> Received(s))
  BY <1>1, ReplyFrame
<1> QED
  BY <1>1, <1>2, <1>3, <1>4, <1>5, <1>6, <1>7, <1>8

LEMMA EngineFrame ==
  ASSUME IInv, EngineOnly
  PROVE  Store' /\ Pipeline' /\ Turns' /\ Batches' /\ FlagsKnown'
<1>1. UNCHANGED <<stream, outstanding, inference_queue, input_queue, output_queue, responses>>
  BY DEF EngineOnly
<1>2. UNCHANGED <<pc, current, model_output_wrapper, last_sequence_ids>>
  BY DEF EngineOnly, threadVars
<1>3. UNCHANGED <<pool, capacity, sequence_context_slot_map, context, pending_cleanup_flags, aborted_context_handles>>
  BY DEF EngineOnly, storeVars
<1>4. Previous' = Previous /\ \A s : PreviousToken(s)' = PreviousToken(s)
  BY <1>1, <1>2, PreviousFrame
<1>5. /\ Queued' <=> Queued
      /\ Asked' = Asked
      /\ AtMostOne(inference_queue)' <=> AtMostOne(inference_queue)
  BY <1>1, QueueFrame
<1>6. Store' /\ FlagsKnown'
  BY <1>3, StoreFrame DEF IInv
<1>7. Pipeline'
  BY <1>1, <1>2, <1>4 DEF IInv, Pipeline
<1>8. Turns'
  BY <1>1, <1>2, <1>5 DEF IInv, Turns
<1>9. Batches'
  BY <1>1, <1>2, <1>4, <1>5 DEF IInv, Batches
<1> QED
  BY <1>6, <1>7, <1>8, <1>9

LEMMA AddRequestKeeps ==
  ASSUME IInv, NEW s0 \in Seqs, AddRequest(s0)
  PROVE  IInv'
<1>1. EngineOnly
  BY DEF AddRequest, EngineOnly
<1>2. TGCleanupSeqIds' = TGCleanupSeqIds /\ phase[s0] = "absent"
      /\ phase' = [phase EXCEPT ![s0] = "waiting"]
  BY DEF AddRequest
<1>3. Store' /\ Pipeline' /\ Turns' /\ Batches' /\ FlagsKnown'
  BY <1>1, EngineFrame
<1>4. Types'
  BY <1>1, <1>2 DEF IInv, Types, EngineOnly, threadVars, storeVars, recoveryVars
<1>5. ASSUME NEW s \in Seqs
      PROVE  SInv(s)'
  <2>1. phase'[s] = IF s = s0 THEN "waiting" ELSE phase[s]
    BY <1>2 DEF IInv, Types
  <2>2. Owned(s) /\ Flags(s) /\ Phases(s) /\ Cleanups(s) /\ Leaks(s) /\ Exact(s)
    BY DEF IInv, SInv
  <2>3. s = s0 => /\ ~AskedFor(s) /\ ~InCurrent(s) /\ ~InPrevious(s) /\ ~Replied(s) /\ s \notin TGCleanupSeqIds
                  /\ ~ToPrefill(s) /\ ~Before(s) /\ ~After(s) /\ ~Flagged(s) /\ ~Ends(s)
    BY <2>2, <1>2 DEF Phases, Live, Cleanups, Flags, Ends, Replied, ToPrefill, AskedFor
  <2>4. Owned(s)'
    BY <2>1, <2>2, <2>3, <1>1, EngineFrameAt DEF Owned
  <2>5. Flags(s)'
    BY <2>1, <2>2, <2>3, <1>1, EngineFrameAt DEF Flags
  <2>6. Phases(s)'
    BY <2>1, <2>2, <2>3, <1>1, <1>2, EngineFrameAt DEF Phases, Live
  <2>7. Cleanups(s)'
    BY <2>1, <2>2, <2>3, <1>1, EngineFrameAt DEF Cleanups
  <2>8. Leaks(s)'
    BY <2>1, <2>2, <2>3, <1>1, <1>2, EngineFrameAt DEF Leaks
  <2>9. Exact(s)'
    BY <2>1, <2>2, <2>3, <1>1, EngineFrameAt
    DEF Exact, Live, Computed, Replying, Asking, Remembered, Composed, FilledIn, Sample
  <2> QED BY <2>4, <2>5, <2>6, <2>7, <2>8, <2>9 DEF SInv
<1> QED
  BY <1>3, <1>4, <1>5 DEF IInv

LEMMA AbortRequestKeeps ==
  ASSUME IInv, NEW s0 \in Seqs, AbortRequest(s0)
  PROVE  IInv'
<1>1. EngineOnly
  BY DEF AbortRequest, EngineOnly
<1>2. TGCleanupSeqIds' = TGCleanupSeqIds \cup {s0} /\ phase' = [phase EXCEPT ![s0] = "ended"]
  BY DEF AbortRequest
<1>3. Store' /\ Pipeline' /\ Turns' /\ Batches' /\ FlagsKnown'
  BY <1>1, EngineFrame
<1>4. Types'
  BY <1>1, <1>2 DEF IInv, Types, EngineOnly, threadVars, storeVars, recoveryVars
<1>5. ASSUME NEW s \in Seqs
      PROVE  SInv(s)'
  <2>1. phase'[s] = IF s = s0 THEN "ended" ELSE phase[s]
    BY <1>2 DEF IInv, Types
  <2>2. Owned(s) /\ Flags(s) /\ Phases(s) /\ Cleanups(s) /\ Leaks(s) /\ Exact(s)
    BY DEF IInv, SInv
  <2>3. s \in TGCleanupSeqIds' <=> s \in TGCleanupSeqIds \/ s = s0
    BY <1>2
  <2>4. Owned(s)'
    BY <2>1, <2>2, <1>1, EngineFrameAt DEF Owned
  <2>5. Flags(s)'
    BY <2>1, <2>2, <1>1, EngineFrameAt DEF Flags
  <2>6. Phases(s)'
    BY <2>1, <2>2, <2>3, <1>1, EngineFrameAt DEF Phases, Live
  <2>7. Cleanups(s)'
    BY <2>1, <2>2, <1>1, EngineFrameAt DEF Cleanups
  <2>8. Leaks(s)'
    BY <2>1, <2>2, <2>3, <1>1, EngineFrameAt DEF Leaks
  <2>9. Exact(s)'
    BY <2>1, <2>2, <1>1, EngineFrameAt
    DEF Exact, Live, Computed, Replying, Asking, Remembered, Composed, FilledIn, Sample
  <2> QED BY <2>4, <2>5, <2>6, <2>7, <2>8, <2>9 DEF SInv
<1> QED
  BY <1>3, <1>4, <1>5 DEF IInv

(* A round: Send to a queue without a batch.  The sequences of the batch   *)
(* and of the cleanup, and what becomes of the views.                      *)
LEMMA SendQueue ==
  ASSUME IInv, MayRound, NEW kind \in {"prefill", "decode", "dummy"}, NEW seqs \in SUBSET Seqs,
         NEW cleanup \in SUBSET Seqs, Send(kind, seqs, cleanup)
  PROVE  /\ inference_queue' \in Seq(Requests) /\ AtMostOne(inference_queue)'
         /\ ~Queued /\ pc = "idle" /\ responses = <<>>
         /\ Queued' /\ Asked'.kind = kind /\ Asked'.seqs = seqs
         /\ \A s \in seqs : Asked'.lens[s] = Known(s)
         /\ \A s \in Seqs : Before(s)' <=> Before(s)
         /\ \A s \in Seqs : After(s)' <=> s \in cleanup
<1> DEFINE q == inference_queue
           m == [type |-> "MODEL_INFER", kind |-> kind, seqs |-> seqs,
                 lens |-> [s \in seqs |-> PromptLen + Len(stream[s])]]
           c == [type |-> "TEXT_GENERATOR_CLEANUP", seqs |-> cleanup]
           p == Append(q, m)
<1>1. ~outstanding /\ q \in Seq(Requests) /\ ~Queued /\ pc = "idle" /\ responses = <<>>
  BY DEF IInv, Types, Turns, MayRound
<1>2. m \in Requests /\ m.type = "MODEL_INFER" /\ m.kind = kind /\ m.seqs = seqs
      /\ \A s \in seqs : m.lens[s] = Known(s)
  <2>1. \A s \in Seqs : PromptLen + Len(stream[s]) \in Int
    <3> SUFFICES ASSUME NEW s \in Seqs PROVE PromptLen + Len(stream[s]) \in Int
      OBVIOUS
    <3>1. stream[s] \in Seq(Seqs \X Int) /\ PromptLen \in Int
      BY TextGeneratorAssumption DEF IInv, Types
    <3>2. Len(stream[s]) \in Nat
      BY <3>1
    <3> QED BY <3>1, <3>2
  <2>2. [s \in seqs |-> PromptLen + Len(stream[s])] \in [seqs -> Int]
    BY <2>1
  <2>3. m.lens \in UNION {[S -> Int] : S \in SUBSET Seqs}
    BY <2>2
  <2> QED BY <2>3 DEF Requests, Known
<1>3. c \in Requests /\ c.type # "MODEL_INFER" /\ c.seqs = cleanup
  BY DEF Requests
<1>4. inference_queue' = q \o <<m>> \o (IF cleanup = {} THEN <<>> ELSE <<c>>)
  BY DEF Send
<1> HIDE DEF m, c
<1>5. q \o <<m>> = p /\ p \in Seq(Requests)
  BY <1>1, <1>2, AppendIsConcat, AppendProperties
<1>6. /\ InfersOf(p) # {} /\ AtMostOne(p) /\ AskedOf(p) = m
      /\ \A s : IsBefore(p, s) <=> IsBefore(q, s)
      /\ \A s : ~IsAfter(p, s)
  <2>1. InfersOf(q) = {}
    BY <1>1 DEF Queued
  <2> QED BY <2>1, <1>1, <1>2, SendBatchQueue
<1> HIDE DEF p
<1>7. CASE cleanup = {}
  <2>1. inference_queue' = p
    <3>1. p \o <<>> = p
      BY <1>5, ConcatEmptySeq
    <3> QED BY <3>1, <1>4, <1>5, <1>7
  <2>2. /\ InfersOf(inference_queue') # {} /\ AtMostOne(inference_queue') /\ AskedOf(inference_queue') = m
        /\ \A s : IsBefore(inference_queue', s) <=> IsBefore(q, s)
        /\ \A s : ~IsAfter(inference_queue', s)
    BY <2>1, <1>6
  <2> QED BY <2>1, <2>2, <1>1, <1>2, <1>5, <1>7 DEF Queued, Asked, Before, After
<1>8. CASE cleanup # {}
  <2> DEFINE r == Append(p, c)
  <2>1. inference_queue' = r /\ r \in Seq(Requests)
    <3>1. p \o <<c>> = Append(p, c)
      BY <1>3, <1>5, AppendIsConcat
    <3>2. inference_queue' = p \o <<c>>
      BY <1>4, <1>5, <1>8
    <3> QED BY <3>1, <3>2, <1>3, <1>5, AppendProperties
  <2>2. /\ InfersOf(r) = InfersOf(p) /\ AtMostOne(r) /\ AskedOf(r) = AskedOf(p)
        /\ \A s : IsBefore(r, s) <=> IsBefore(p, s)
        /\ \A s : IsAfter(r, s) <=> s \in c.seqs
    <3>1. /\ InfersOf(r) = InfersOf(p) /\ AtMostOne(r) /\ (InfersOf(p) # {} => AskedOf(r) = AskedOf(p))
          /\ \A s : IsBefore(r, s) <=> IsBefore(p, s) \/ (InfersOf(p) = {} /\ s \in c.seqs)
          /\ \A s : IsAfter(r, s) <=> IsAfter(p, s) \/ (InfersOf(p) # {} /\ s \in c.seqs)
      <4>1. p \in Seq(Requests) /\ AtMostOne(p) /\ c \in Requests /\ c.type # "MODEL_INFER"
        BY <1>3, <1>5, <1>6
      <4> HIDE DEF r
      <4> QED BY <4>1, SendCleanupQueue DEF r
    <3> HIDE DEF r
    <3> QED BY <3>1, <1>6
  <2> HIDE DEF r
  <2>3. /\ InfersOf(inference_queue') # {} /\ AtMostOne(inference_queue') /\ AskedOf(inference_queue') = m
        /\ \A s : IsBefore(inference_queue', s) <=> IsBefore(q, s)
        /\ \A s : IsAfter(inference_queue', s) <=> s \in cleanup
    BY <2>1, <2>2, <1>3, <1>6
  <2> QED BY <2>1, <2>3, <1>1, <1>2 DEF Queued, Asked, Before, After
<1> QED BY <1>7, <1>8

(* The three rounds with a batch, by what they have in common.             *)
LEMMA SendKeeps ==
  ASSUME IInv, MayRound, NEW kind \in {"prefill", "decode", "dummy"}, NEW seqs \in SUBSET Seqs,
         NEW victims \in SUBSET Seqs, Send(kind, seqs, TGCleanupSeqIds \cup victims),
         phase' = [s \in Seqs |-> IF s \in seqs THEN "running" ELSE IF s \in victims THEN "preempted" ELSE phase[s]],
         seqs \cap victims = {}, preempts' \in 0..MaxPreempts,
         kind = "prefill" => \A s \in seqs : phase[s] \in {"waiting", "preempted"},
         kind = "decode" => \A s \in seqs : phase[s] = "running",
         kind = "dummy" => seqs = {} /\ \A s \in Seqs : phase[s] # "running",
         \A s \in victims : phase[s] = "running" /\ kind = "decode"
  PROVE  IInv'
<1> DEFINE cleanup == TGCleanupSeqIds \cup victims
<1>1. cleanup \in SUBSET Seqs
  BY DEF IInv, Types
<1>2. UNCHANGED <<stream, input_queue, output_queue, responses, pc, current, model_output_wrapper,
                  last_sequence_ids, pool, capacity, sequence_context_slot_map, context,
                  pending_cleanup_flags, aborted_context_handles, is_inference_pause, recovery>>
      /\ outstanding' = TRUE /\ TGCleanupSeqIds' = {}
  BY DEF Send, threadVars, storeVars, recoveryVars
<1>3. /\ inference_queue' \in Seq(Requests) /\ AtMostOne(inference_queue)'
      /\ ~Queued /\ pc = "idle" /\ responses = <<>>
      /\ Queued' /\ Asked'.kind = kind /\ Asked'.seqs = seqs
      /\ \A s \in seqs : Asked'.lens[s] = Known(s)
      /\ \A s \in Seqs : Before(s)' <=> Before(s)
      /\ \A s \in Seqs : After(s)' <=> s \in cleanup
  BY <1>1, SendQueue
<1>4. /\ Previous' = Previous /\ \A s : PreviousToken(s)' = PreviousToken(s)
      /\ \A s : InPrevious(s)' <=> InPrevious(s)
  BY <1>2, PreviousFrame
<1>5. Store' /\ FlagsKnown'
  BY <1>2, StoreFrame DEF IInv
<1>6. Pipeline'
  BY <1>2, <1>4 DEF IInv, Pipeline
<1>7. Turns'
  BY <1>2, <1>3 DEF Turns
<1>8. Batches'
  <2>1. \A s \in seqs : Known(s) \in Int
    <3> SUFFICES ASSUME NEW s \in seqs PROVE Known(s) \in Int
      OBVIOUS
    <3>1. stream[s] \in Seq(Seqs \X Int) /\ PromptLen \in Int
      BY TextGeneratorAssumption DEF IInv, Types
    <3>2. Len(stream[s]) \in Nat
      BY <3>1
    <3> QED BY <3>1, <3>2 DEF Known
  <2> QED BY <2>1, <1>2, <1>3, <1>4 DEF IInv, Batches
<1>9. Types'
  <2>1. phase' \in [Seqs -> {"absent", "waiting", "running", "preempted", "ended"}]
    BY DEF IInv, Types
  <2> QED BY <2>1, <1>2, <1>3 DEF IInv, Types
<1>10. ASSUME NEW s \in Seqs
       PROVE  SInv(s)'
  <2>1. phase'[s] = IF s \in seqs THEN "running" ELSE IF s \in victims THEN "preempted" ELSE phase[s]
    OBVIOUS
  <2>2. Owned(s) /\ Flags(s) /\ Phases(s) /\ Cleanups(s) /\ Leaks(s) /\ Exact(s)
    BY DEF IInv, SInv
  <2>3. /\ ~Queued /\ ~AskedFor(s) /\ ~ToPrefill(s)
        /\ (AskedFor(s)' <=> s \in seqs) /\ (ToPrefill(s)' <=> s \in seqs /\ kind = "prefill")
    BY <1>3 DEF AskedFor, ToPrefill
  <2>4. Mapped' = Mapped /\ Aborted' = Aborted /\ Slot(s)' = Slot(s) /\ (Flagged(s)' <=> Flagged(s))
    BY <1>2, StoreFrame
  <2>5. ~InCurrent(s) /\ ~InCurrent(s)' /\ ~Replied(s) /\ ~Replied(s)' /\ ~Ends(s) /\ ~Ends(s)'
    BY <1>2, <1>3 DEF InCurrent, Replied, Ends
  <2>6. Known(s)' = Known(s) /\ Due(s)' = Due(s) /\ (Received(s)' <=> Received(s))
    BY <1>2, ReplyFrame
  <2>7. (InPrevious(s)' <=> InPrevious(s)) /\ Previous' = Previous
    BY <1>4
  <2>8. s \in TGCleanupSeqIds => phase[s] = "ended"
    BY <2>2 DEF Phases
  <2>9. (Before(s)' <=> Before(s)) /\ (After(s)' <=> s \in TGCleanupSeqIds \/ s \in victims)
    BY <1>3
  <2>10. /\ ~(s \in seqs /\ s \in victims)
         /\ s \in seqs => kind # "dummy" /\ (kind = "prefill" => phase[s] \in {"waiting", "preempted"})
                          /\ (kind = "decode" => phase[s] = "running")
         /\ s \in victims => phase[s] = "running" /\ kind = "decode"
         /\ kind = "dummy" => phase[s] # "running"
    OBVIOUS
  <2>11. Owned(s)'
    BY <2>1, <2>2, <2>4, <2>5, <2>7, <2>8, <2>10 DEF Owned
  <2>12. Flags(s)'
    BY <2>1, <2>2, <2>3, <2>4, <2>5, <2>10 DEF Flags
  <2>13. Phases(s)'
    BY <2>1, <2>2, <2>3, <2>5, <2>7, <2>10, <1>2, <1>3 DEF Phases, Live
  <2>14. Cleanups(s)'
    BY <2>1, <2>2, <2>3, <2>4, <2>5, <2>7, <2>8, <2>9, <2>10, <1>2, <1>3 DEF Cleanups, Phases, Live
  <2>15. Leaks(s)'
    <3>1. ~After(s)
      BY <1>3 DEF After, IsAfter, Queued
    <3> QED BY <3>1, <2>1, <2>2, <2>4, <2>9, <2>10, <1>2 DEF Leaks
  <2>16. Exact(s)'
    <3>1. Received(s)' /\ Replying(s)' /\ Composed(s)' /\ FilledIn(s)'
      BY <2>2, <2>5, <2>6 DEF Exact, Replying, Composed, FilledIn
    <3>2. PreviousToken(s)' = PreviousToken(s)
      BY <1>4
    <3>3. InPrevious(s) /\ Live(s)' => Live(s)
      BY <2>1, <2>2, <2>10 DEF Phases, Live
    <3>4. Computed(s)'
      BY <3>2, <3>3, <2>2, <2>6, <2>7 DEF Exact, Computed
    <3>5. s \in seqs => Asked'.lens[s] = Known(s)
      BY <1>3
    <3>6. Asking(s)'
      BY <3>5, <2>3, <2>6 DEF Asking
    <3>7. phase'[s] = "running" /\ ~ToPrefill(s)' => phase[s] = "running"
      BY <2>1, <2>3, <2>10
    <3>8. Remembered(s)'
      BY <3>7, <2>2, <2>3, <2>4, <2>5, <2>6, <2>7, <1>2 DEF Exact, Remembered
    <3> QED BY <3>1, <3>4, <3>6, <3>8 DEF Exact
  <2> QED BY <2>11, <2>12, <2>13, <2>14, <2>15, <2>16 DEF SInv
<1> QED
  BY <1>5, <1>6, <1>7, <1>8, <1>9, <1>10 DEF IInv

LEMMA SchedulePrefillKeeps ==
  ASSUME IInv, NEW seqs \in SUBSET Seqs, SchedulePrefill(seqs)
  PROVE  IInv'
<1>1. \A s \in seqs : phase[s] \in {"waiting", "preempted"}
  BY DEF SchedulePrefill, With
<1>2. phase' = [s \in Seqs |-> IF s \in seqs THEN "running" ELSE IF s \in {} THEN "preempted" ELSE phase[s]]
  BY DEF SchedulePrefill
<1>3. Send("prefill", seqs, TGCleanupSeqIds \cup {}) /\ MayRound
  <2>1. TGCleanupSeqIds \cup {} = TGCleanupSeqIds
    OBVIOUS
  <2> QED BY <2>1, Zenon DEF SchedulePrefill
<1>4. preempts' \in 0..MaxPreempts
  BY DEF SchedulePrefill, IInv, Types
<1>5. {} \in SUBSET Seqs /\ seqs \cap {} = {}
  OBVIOUS
<1> QED
  BY <1>1, <1>2, <1>3, <1>4, <1>5, SendKeeps

LEMMA ScheduleDecodeKeeps ==
  ASSUME IInv, NEW victims \in SUBSET Seqs, ScheduleDecode(victims)
  PROVE  IInv'
<1> DEFINE seqs == With({"running"}) \ victims
<1>1. seqs \in SUBSET Seqs /\ seqs \cap victims = {}
      /\ (\A s \in seqs : phase[s] = "running") /\ (\A s \in victims : phase[s] = "running")
  BY DEF ScheduleDecode, With
<1>2. Send("decode", seqs, TGCleanupSeqIds \cup victims) /\ MayRound
  BY DEF ScheduleDecode
<1>3. phase' = [s \in Seqs |-> IF s \in seqs THEN "running" ELSE IF s \in victims THEN "preempted" ELSE phase[s]]
  <2>1. phase' = [s \in Seqs |-> IF s \in victims THEN "preempted" ELSE phase[s]]
    BY DEF ScheduleDecode
  <2> QED BY <2>1, <1>1
<1>4. preempts' \in 0..MaxPreempts
  <2>1. IsFiniteSet(victims)
    BY TextGeneratorAssumption, FS_Subset
  <2>2. Cardinality(victims) \in Nat
    BY <2>1, FS_CardinalityType
  <2>3. preempts' = preempts + Cardinality(victims) /\ preempts + Cardinality(victims) <= MaxPreempts
    BY DEF ScheduleDecode
  <2>4. preempts \in Nat /\ MaxPreempts \in Nat
    BY TextGeneratorAssumption DEF IInv, Types
  <2> QED BY <2>2, <2>3, <2>4
<1> HIDE DEF seqs
<1> QED
  BY <1>1, <1>2, <1>3, <1>4, SendKeeps

LEMMA ExecuteDummyKeeps ==
  ASSUME IInv, ExecuteDummy
  PROVE  IInv'
<1>1. \A s \in Seqs : phase[s] # "running"
  BY DEF ExecuteDummy, With
<1>2. phase' = [s \in Seqs |-> IF s \in {} THEN "running" ELSE IF s \in {} THEN "preempted" ELSE phase[s]]
  BY DEF ExecuteDummy, IInv, Types
<1>3. Send("dummy", {}, TGCleanupSeqIds \cup {}) /\ MayRound
  <2>1. TGCleanupSeqIds \cup {} = TGCleanupSeqIds
    OBVIOUS
  <2> QED BY <2>1, Zenon DEF ExecuteDummy
<1>4. preempts' \in 0..MaxPreempts
  BY DEF ExecuteDummy, IInv, Types
<1>5. {} \in SUBSET Seqs /\ {} \cap {} = {}
  OBVIOUS
<1> QED
  BY <1>1, <1>2, <1>3, <1>4, <1>5, SendKeeps

LEMMA EmptyRoundKeeps ==
  ASSUME IInv, EmptyRound
  PROVE  IInv'
<1> DEFINE q == inference_queue
           c == [type |-> "TEXT_GENERATOR_CLEANUP", seqs |-> TGCleanupSeqIds]
<1>1. UNCHANGED <<phase, stream, outstanding, preempts, input_queue, output_queue, responses, pc, current,
                  model_output_wrapper, last_sequence_ids, pool, capacity, sequence_context_slot_map, context,
                  pending_cleanup_flags, aborted_context_handles, is_inference_pause, recovery>>
      /\ TGCleanupSeqIds' = {}
  BY DEF EmptyRound, threadVars, storeVars, recoveryVars
<1>2. ~outstanding /\ q \in Seq(Requests) /\ ~Queued /\ pc = "idle" /\ responses = <<>> /\ AtMostOne(q)
  BY DEF IInv, Types, Turns, EmptyRound, MayRound
<1>3. c \in Requests /\ c.type # "MODEL_INFER" /\ c.seqs = TGCleanupSeqIds
  BY DEF Requests, IInv, Types
<1>4. inference_queue' = Append(q, c)
  BY DEF EmptyRound
<1> HIDE DEF c
<1>5. /\ InfersOf(inference_queue') = InfersOf(q) /\ AtMostOne(inference_queue')
      /\ \A s : IsBefore(inference_queue', s) <=> IsBefore(q, s) \/ (InfersOf(q) = {} /\ s \in c.seqs)
      /\ \A s : IsAfter(inference_queue', s) <=> IsAfter(q, s) \/ (InfersOf(q) # {} /\ s \in c.seqs)
  BY <1>2, <1>3, <1>4, SendCleanupQueue
<1>6. ~Queued' /\ AtMostOne(inference_queue)' /\ inference_queue' \in Seq(Requests)
      /\ \A s : Before(s)' <=> Before(s) \/ s \in TGCleanupSeqIds
  BY <1>2, <1>3, <1>4, <1>5 DEF Queued, Before
<1>7. /\ Previous' = Previous /\ \A s : PreviousToken(s)' = PreviousToken(s)
      /\ \A s : InPrevious(s)' <=> InPrevious(s)
  BY <1>1, PreviousFrame
<1>8. Store' /\ FlagsKnown'
  BY <1>1, StoreFrame DEF IInv
<1>9. Pipeline'
  BY <1>1, <1>7 DEF IInv, Pipeline
<1>10. Turns'
  BY <1>1, <1>2, <1>6 DEF Turns
<1>11. Batches'
  BY <1>1, <1>2, <1>6, <1>7 DEF IInv, Batches
<1>12. Types'
  BY <1>1, <1>6 DEF IInv, Types
<1>13. ASSUME NEW s \in Seqs
       PROVE  SInv(s)'
  <2>1. Owned(s) /\ Flags(s) /\ Phases(s) /\ Cleanups(s) /\ Leaks(s) /\ Exact(s)
    BY DEF IInv, SInv
  <2>2. ~Queued /\ ~Queued' /\ ~AskedFor(s) /\ ~ToPrefill(s) /\ ~AskedFor(s)' /\ ~ToPrefill(s)'
    BY <1>2, <1>6 DEF AskedFor, ToPrefill
  <2>3. Mapped' = Mapped /\ Aborted' = Aborted /\ Slot(s)' = Slot(s) /\ (Flagged(s)' <=> Flagged(s))
    BY <1>1, StoreFrame
  <2>4. ~InCurrent(s) /\ ~InCurrent(s)' /\ ~Replied(s) /\ ~Replied(s)' /\ ~Ends(s) /\ ~Ends(s)'
    BY <1>1, <1>2 DEF InCurrent, Replied, Ends
  <2>5. Known(s)' = Known(s) /\ Due(s)' = Due(s) /\ (Received(s)' <=> Received(s))
    BY <1>1, ReplyFrame
  <2>6. (InPrevious(s)' <=> InPrevious(s)) /\ Previous' = Previous /\ PreviousToken(s)' = PreviousToken(s)
    BY <1>7
  <2>7. (Before(s)' <=> Before(s) \/ s \in TGCleanupSeqIds) /\ (s \in TGCleanupSeqIds => phase[s] = "ended")
    BY <1>6, <2>1 DEF Phases
  <2>8. ~After(s) /\ ~After(s)'
    BY <2>2 DEF After, IsAfter, Queued
  <2>9. phase' = phase /\ pc' = pc /\ pc = "idle" /\ context' = context
    BY <1>1, <1>2
  <2>10. Owned(s)' /\ Flags(s)'
    BY <2>1, <2>2, <2>3, <2>4, <2>6, <2>9 DEF Owned, Flags
  <2>11. Phases(s)'
    BY <2>1, <2>2, <2>4, <2>6, <2>9, <1>1 DEF Phases, Live
  <2>12. Cleanups(s)'
    BY <2>1, <2>2, <2>3, <2>4, <2>6, <2>7, <2>8, <2>9 DEF Cleanups
  <2>13. Leaks(s)'
    BY <2>1, <2>3, <2>7, <2>8, <2>9 DEF Leaks
  <2>14. Exact(s)'
    BY <2>1, <2>2, <2>3, <2>4, <2>5, <2>6, <2>9
    DEF Exact, Live, Computed, Replying, Asking, Remembered, Composed, FilledIn
  <2> QED BY <2>10, <2>11, <2>12, <2>13, <2>14 DEF SInv
<1> QED
  BY <1>8, <1>9, <1>10, <1>11, <1>12, <1>13 DEF IInv

(* A queue with one message.                                               *)
LEMMA Singleton ==
  ASSUME NEW x
  PROVE  /\ Head(<<x>>) = x /\ Tail(<<x>>) = <<>> /\ <<x>>[1] = x /\ <<x>> # <<>>
         /\ Append(<<>>, x) = <<x>>
OBVIOUS

LEMMA OneMessage ==
  ASSUME NEW q, NEW x, q = <<x>>
  PROVE  Head(q) = x /\ Tail(q) = <<>> /\ q[1] = x /\ q # <<>>
BY Singleton

OwnTokens(e, s) == e = [i \in 1..Len(e) |-> <<s, PromptLen + i - 1>>]

LEMMA AppendExact ==
  ASSUME NEW T, NEW e \in Seq(T), NEW s, OwnTokens(e, s),
         NEW x \in T, x = <<s, PromptLen + Len(e)>>
  PROVE  /\ Append(e, x) \in Seq(T) /\ Len(Append(e, x)) = Len(e) + 1
         /\ OwnTokens(Append(e, x), s)
<1> DEFINE f == Append(e, x)
           P == PromptLen
<1>0. P \in Int /\ e = [i \in 1..Len(e) |-> <<s, P + i - 1>>] /\ x = <<s, P + Len(e)>>
  BY TextGeneratorAssumption DEF OwnTokens
<1>1. /\ f \in Seq(T) /\ Len(f) = Len(e) + 1 /\ Len(e) \in Nat
      /\ \A i \in 1..Len(e) : f[i] = e[i]
      /\ f[Len(e) + 1] = x
  BY AppendProperties
<1> HIDE DEF f, P
<1>2. ASSUME NEW i \in 1..Len(f) PROVE f[i] = <<s, P + i - 1>>
  <2>1. CASE i = Len(e) + 1
    <3>1. P + i - 1 = P + Len(e)
      BY <2>1, <1>0, <1>1
    <3> QED BY <2>1, <3>1, <1>0, <1>1
  <2>2. CASE i # Len(e) + 1
    <3>1. i \in 1..Len(e)
      BY <2>2, <1>1
    <3>2. e[i] = <<s, P + i - 1>>
      BY <3>1, <1>0
    <3> QED BY <3>1, <3>2, <1>1
  <2> QED BY <2>1, <2>2
<1>3. f = [i \in 1..Len(f) |-> f[i]]
  BY <1>1
<1>4. f = [i \in 1..Len(f) |-> <<s, P + i - 1>>]
  BY <1>2, <1>3
<1> QED BY <1>1, <1>4 DEF f, P, OwnTokens

LEMMA ReceiveKeeps ==
  ASSUME IInv, Receive
  PROVE  IInv'
<1> DEFINE r == responses[1]
           Got(s) == s \in r.seqs /\ phase[s] \in {"running", "preempted"}
<1>1. responses = <<r>> /\ responses # <<>> /\ ~Queued /\ pc = "idle"
  BY DEF IInv, Pipeline, Turns, Receive
<1>2. Head(responses) = r /\ Tail(responses) = <<>>
  <2> HIDE DEF r
  <2> QED BY <1>1, OneMessage
<1>3. UNCHANGED <<TGCleanupSeqIds, preempts, inference_queue, input_queue, output_queue, pc, current,
                  model_output_wrapper, last_sequence_ids, pool, capacity, sequence_context_slot_map, context,
                  pending_cleanup_flags, aborted_context_handles, is_inference_pause, recovery>>
      /\ responses' = <<>> /\ outstanding' = FALSE
  BY <1>2 DEF Receive, threadVars, storeVars, recoveryVars
<1>4. /\ stream' = [s \in Seqs |-> IF Got(s) THEN Append(stream[s], r.tokens[s]) ELSE stream[s]]
      /\ phase' = [s \in Seqs |-> IF Got(s) /\ s \in r.finished THEN "ended" ELSE phase[s]]
  BY <1>2 DEF Receive
<1>5. /\ Previous' = Previous /\ \A s : PreviousToken(s)' = PreviousToken(s)
      /\ \A s : InPrevious(s)' <=> InPrevious(s)
  BY <1>3, PreviousFrame
<1>6. Store' /\ FlagsKnown'
  BY <1>3, StoreFrame DEF IInv
<1>7. Pipeline'
  BY <1>3, <1>5 DEF IInv, Pipeline
<1>8. ~Queued' /\ AtMostOne(inference_queue)'
  BY <1>1, <1>3, QueueFrame DEF IInv, Turns
<1>9. Turns'
  BY <1>1, <1>3, <1>8 DEF Turns
<1>10. Batches'
  BY <1>1, <1>3, <1>5, <1>8 DEF IInv, Batches
<1>11. ASSUME NEW s \in Seqs
       PROVE  /\ Got(s) <=> Replied(s) /\ Live(s)
              /\ stream'[s] \in Seq(Seqs \X Int)
              /\ Known(s) \in Int
              /\ Known(s)' = IF Got(s) THEN Known(s) + 1 ELSE Known(s)
              /\ Received(s)'
  <2>1. Got(s) <=> Replied(s) /\ Live(s)
    BY <1>1 DEF Replied, Live
  <2>2. Exact(s) /\ stream[s] \in Seq(Seqs \X Int) /\ PromptLen \in Int
    BY TextGeneratorAssumption DEF IInv, SInv, Types
  <2>3. Len(stream[s]) \in Nat /\ Known(s) \in Int
    BY <2>2 DEF Known
  <2> HIDE DEF Got, r
  <2>4. CASE Got(s)
    <3>1. r.tokens[s] = <<s, PromptLen + Len(stream[s])>>
      BY <2>1, <2>2, <2>4 DEF Exact, Replying, Known, r
    <3>2. stream[s] = [i \in 1..Len(stream[s]) |-> <<s, PromptLen + i - 1>>]
      BY <2>2 DEF Exact, Received
    <3>3. stream'[s] = Append(stream[s], r.tokens[s])
      BY <1>4, <2>4
    <3>4. r.tokens[s] \in Seqs \X Int
      BY <3>1, <2>2, <2>3
    <3>5. /\ stream'[s] \in Seq(Seqs \X Int) /\ Len(stream'[s]) = Len(stream[s]) + 1
          /\ stream'[s] = [i \in 1..Len(stream'[s]) |-> <<s, PromptLen + i - 1>>]
      <4> DEFINE e == stream[s]
                 x == r.tokens[s]
                 T == Seqs \X Int
      <4>1. e \in Seq(T) /\ OwnTokens(e, s) /\ x \in T /\ x = <<s, PromptLen + Len(e)>>
        BY <3>1, <3>2, <3>4, <2>2 DEF OwnTokens
      <4> HIDE DEF e, x, T
      <4>2. Append(e, x) \in Seq(T) /\ Len(Append(e, x)) = Len(e) + 1 /\ OwnTokens(Append(e, x), s)
        BY <4>1, AppendExact
      <4> QED BY <4>2, <3>3 DEF e, x, T, OwnTokens
    <3> QED BY <3>5, <2>1, <2>2, <2>3, <2>4 DEF Received, Known
  <2>5. CASE ~Got(s)
    <3>1. stream'[s] = stream[s]
      BY <1>4, <2>5
    <3> QED BY <3>1, <2>1, <2>2, <2>3, <2>5 DEF Received, Known, Exact
  <2> QED BY <2>4, <2>5
<1>12. Types'
  <2>1. phase' \in [Seqs -> {"absent", "waiting", "running", "preempted", "ended"}]
    BY <1>4 DEF IInv, Types
  <2>2. stream' \in [Seqs -> Seq(Seqs \X Int)]
    BY <1>4, <1>11
  <2> QED BY <2>1, <2>2, <1>3 DEF IInv, Types
<1>13. ASSUME NEW s \in Seqs
       PROVE  SInv(s)'
  <2>1. Owned(s) /\ Flags(s) /\ Phases(s) /\ Cleanups(s) /\ Leaks(s) /\ Exact(s)
    BY DEF IInv, SInv
  <2>2. ~Queued /\ ~Queued' /\ ~AskedFor(s) /\ ~ToPrefill(s) /\ ~AskedFor(s)' /\ ~ToPrefill(s)'
        /\ (Before(s)' <=> Before(s)) /\ (After(s)' <=> After(s))
    BY <1>1, <1>3, <1>8, QueueFrame DEF AskedFor, ToPrefill
  <2>3. Mapped' = Mapped /\ Aborted' = Aborted /\ Slot(s)' = Slot(s) /\ (Flagged(s)' <=> Flagged(s))
    BY <1>3, StoreFrame
  <2>4. ~InCurrent(s) /\ ~InCurrent(s)' /\ ~Replied(s)' /\ ~Ends(s)'
    BY <1>1, <1>3 DEF InCurrent, Replied, Ends
  <2>5. (InPrevious(s)' <=> InPrevious(s)) /\ Previous' = Previous /\ PreviousToken(s)' = PreviousToken(s)
    BY <1>5
  <2>6. phase'[s] = IF Ends(s) /\ Live(s) THEN "ended" ELSE phase[s]
    <3>1. phase'[s] = IF Got(s) /\ s \in r.finished THEN "ended" ELSE phase[s]
      BY <1>4
    <3>2. (Got(s) /\ s \in r.finished) <=> (Ends(s) /\ Live(s))
      BY <1>1 DEF Ends, Live
    <3> QED BY <3>1, <3>2
  <2>7. Ends(s) => Replied(s) /\ (Live(s) \/ phase[s] = "ended")
    BY <2>1 DEF Ends, Replied, Phases
  <2>8. Due(s)' = Known(s)' /\ (Live(s) => Due(s)' = Due(s))
    BY <2>4, <1>11 DEF Due
  <2>9. pc' = pc /\ pc = "idle" /\ context' = context /\ TGCleanupSeqIds' = TGCleanupSeqIds
    BY <1>1, <1>3
  <2>10. Received(s)'
    BY <1>11
  <2> HIDE DEF r, Got
  <2>11. Owned(s)'
    BY <2>1, <2>3, <2>4, <2>5, <2>6 DEF Owned
  <2>12. Flags(s)'
    BY <2>1, <2>2, <2>3, <2>4, <2>6, <2>7 DEF Flags
  <2>13. Phases(s)'
    BY <2>1, <2>2, <2>4, <2>5, <2>6, <2>9 DEF Phases, Live
  <2>14. Cleanups(s)'
    BY <2>1, <2>2, <2>3, <2>4, <2>5, <2>6, <2>9 DEF Cleanups
  <2>15. Leaks(s)'
    BY <2>1, <2>2, <2>3, <2>6, <2>7, <2>9 DEF Leaks, Flags
  <2>16. Exact(s)'
    <3>1. Live(s)' => Live(s)
      BY <2>6 DEF Live
    <3>2. phase'[s] = "running" => phase[s] = "running" /\ Live(s)
      BY <2>6 DEF Live
    <3>3. Computed(s)'
      BY <3>1, <2>1, <2>5, <2>8 DEF Exact, Computed
    <3>4. Replying(s)' /\ Asking(s)' /\ Composed(s)' /\ FilledIn(s)'
      BY <2>2, <2>4 DEF Replying, Asking, Composed, FilledIn
    <3>5. Remembered(s)'
      BY <3>2, <2>1, <2>2, <2>3, <2>4, <2>5, <2>8, <2>9 DEF Exact, Remembered
    <3> QED BY <2>10, <3>3, <3>4, <3>5 DEF Exact
  <2> QED BY <2>11, <2>12, <2>13, <2>14, <2>15, <2>16 DEF SInv
<1> QED
  BY <1>6, <1>7, <1>9, <1>10, <1>12, <1>13 DEF IInv

(* A cleanup frees no slot that a batch uses: the sequence has ended, and  *)
(* its slot waits for the postprocess.                                     *)
LEMMA SeqCtrlKeeps ==
  ASSUME IInv, SeqCtrl
  PROVE  IInv'
<1> DEFINE q == inference_queue
           C == Head(inference_queue).seqs
<1>1. q \in Seq(Requests) /\ q # <<>> /\ Head(q).type # "MODEL_INFER" /\ AtMostOne(q)
      /\ inference_queue' = Tail(q) /\ pc = "idle"
  BY DEF IInv, Types, Turns, SeqCtrl
<1>2. UNCHANGED <<phase, stream, outstanding, TGCleanupSeqIds, preempts, input_queue, output_queue, responses,
                  pc, current, model_output_wrapper, last_sequence_ids, pool, capacity, context,
                  pending_cleanup_flags, is_inference_pause, recovery>>
  BY DEF SeqCtrl, ClearContextBySeqIds, engineVars, threadVars, recoveryVars
<1>3. ClearContextBySeqIds(C) /\ Store
  BY DEF SeqCtrl, IInv
<1> HIDE DEF C
<1>4. /\ Store' /\ Mapped' = Mapped \ C
      /\ \A s \in Mapped' : Slot(s)' = Slot(s)
      /\ Aborted' = Aborted \cup {Slot(s) : s \in C \cap Mapped}
  BY <1>3, ClearContextBySeqIdsStore
<1>5. /\ InfersOf(inference_queue') = {} <=> InfersOf(q) = {}
      /\ AtMostOne(inference_queue') /\ (InfersOf(q) # {} => AskedOf(inference_queue') = AskedOf(q))
      /\ \A s : IsBefore(q, s) <=> IsBefore(inference_queue', s) \/ s \in Head(q).seqs
      /\ \A s : IsAfter(inference_queue', s) <=> IsAfter(q, s)
  BY <1>1, TakeCleanupQueue
<1>6. /\ Queued' <=> Queued
      /\ AtMostOne(inference_queue)'
      /\ Queued => Asked' = Asked
      /\ \A s : Before(s) <=> Before(s)' \/ s \in C
      /\ \A s : After(s)' <=> After(s)
  BY <1>5 DEF Queued, Asked, Before, After, C
<1>7. inference_queue' \in Seq(Requests)
  BY <1>1, TailDomain
<1>8. /\ Previous' = Previous /\ \A s : PreviousToken(s)' = PreviousToken(s)
      /\ \A s : InPrevious(s)' <=> InPrevious(s)
  BY <1>2, PreviousFrame
<1>9. Pipeline'
  BY <1>2, <1>8 DEF IInv, Pipeline
<1>10. Turns'
  BY <1>2, <1>6 DEF IInv, Turns
<1>11. Batches'
  BY <1>1, <1>2, <1>6, <1>8 DEF IInv, Batches
<1>12. Types'
  BY <1>2, <1>7 DEF IInv, Types
<1>13. FlagsKnown'
  <2>1. Free' = Free /\ capacity' = capacity
    BY <1>2 DEF Free
  <2>2. /\ Free \cap (Taken \cup Aborted) = {} /\ Free \cup Taken \cup Aborted = 1..(capacity - 1)
        /\ Free \cup Taken' \cup Aborted' = 1..(capacity - 1)
    BY <2>1, <1>3, <1>4 DEF Store
  <2>3. Taken \cup Aborted \subseteq Taken' \cup Aborted'
    BY <2>2
  <2> QED BY <2>3, <1>2 DEF IInv, FlagsKnown
<1>14. ASSUME NEW s \in Seqs
       PROVE  SInv(s)'
  <2>1. Owned(s) /\ Flags(s) /\ Phases(s) /\ Cleanups(s) /\ Leaks(s) /\ Exact(s)
    BY DEF IInv, SInv
  <2>2. /\ (AskedFor(s)' <=> AskedFor(s)) /\ (ToPrefill(s)' <=> ToPrefill(s))
        /\ (Queued' <=> Queued) /\ (Queued => Asked' = Asked) /\ (AskedFor(s) => Queued)
    BY <1>6 DEF AskedFor, ToPrefill
  <2>3. (Before(s) <=> Before(s)' \/ s \in C) /\ (After(s)' <=> After(s))
    BY <1>6
  <2>4. (s \in Mapped' <=> s \in Mapped /\ s \notin C) /\ (s \in Mapped' => Slot(s)' = Slot(s))
    BY <1>4
  <2>5. Flagged(s)' <=> Flagged(s) /\ s \notin C
    BY <2>4, <1>2 DEF Flagged
  <2>6. (s \in Mapped /\ s \in C => Slot(s) \in Aborted') /\ Aborted \subseteq Aborted'
    BY <1>4
  <2>7. ~InCurrent(s) /\ ~InCurrent(s)' /\ pc' = pc /\ pc = "idle"
    BY <1>1, <1>2 DEF InCurrent
  <2>8. /\ (Replied(s)' <=> Replied(s)) /\ (Ends(s)' <=> Ends(s)) /\ responses' = responses
        /\ Known(s)' = Known(s) /\ Due(s)' = Due(s) /\ (Received(s)' <=> Received(s))
    BY <1>2, ReplyFrame
  <2>9. (InPrevious(s)' <=> InPrevious(s)) /\ Previous' = Previous /\ PreviousToken(s)' = PreviousToken(s)
    BY <1>8
  <2>10. phase' = phase /\ TGCleanupSeqIds' = TGCleanupSeqIds /\ context' = context
    BY <1>2
  <2>11. s \in C => phase[s] # "running" \/ ToPrefill(s)
    BY <2>1, <2>3 DEF Cleanups
  <2>12. s \in C /\ InPrevious(s) => phase[s] = "ended"
    BY <2>1, <2>3, <2>7 DEF Cleanups
  <2>13. AskedFor(s) /\ Asked.kind = "decode" => s \notin C
    BY <2>1, <2>3 DEF Cleanups
  <2>14. Owned(s)'
    BY <2>1, <2>4, <2>6, <2>7, <2>9, <2>10, <2>12 DEF Owned
  <2>15. Flags(s)'
    BY <2>1, <2>2, <2>4, <2>5, <2>8, <2>10 DEF Flags
  <2>16. Phases(s)'
    BY <2>1, <2>2, <2>7, <2>8, <2>9, <2>10 DEF Phases, Live
  <2>17. Cleanups(s)'
    BY <2>1, <2>2, <2>3, <2>4, <2>7, <2>9, <2>10, <2>11, <2>13, <1>2 DEF Cleanups
  <2>18. Leaks(s)'
    BY <2>1, <2>3, <2>4, <2>5, <2>10 DEF Leaks
  <2>19. Exact(s)'
    <3>1. Received(s)' /\ Computed(s)' /\ Replying(s)' /\ Composed(s)' /\ FilledIn(s)'
      BY <2>1, <2>7, <2>8, <2>9, <2>10 DEF Exact, Live, Computed, Replying, Composed, FilledIn
    <3>2. Asking(s)'
      BY <2>1, <2>2, <2>8, <2>10 DEF Exact, Asking, AskedFor
    <3>3. Remembered(s)'
      BY <2>1, <2>2, <2>4, <2>7, <2>8, <2>9, <2>10 DEF Exact, Remembered
    <3> QED BY <3>1, <3>2, <3>3 DEF Exact
  <2> QED BY <2>14, <2>15, <2>16, <2>17, <2>18, <2>19 DEF SInv
<1> QED
  BY <1>4, <1>9, <1>10, <1>11, <1>12, <1>13, <1>14 DEF IInv

(* The forward pass: the batch keeps its sequences and slots, and what it  *)
(* was about to compute is what it has computed.                           *)
LEMMA ForwardKeeps ==
  ASSUME IInv, NEW eos, Forward(eos)
  PROVE  IInv'
<1> DEFINE b == input_queue[1]
           o == [kind |-> b.kind, seqs |-> b.seqs, cache_ids |-> b.cache_ids,
                 tokens |-> [s \in b.seqs |-> Sample(s, b.inputs[s])], eos |-> eos, is_mock |-> FALSE]
<1>1. input_queue # <<>> /\ pc # "post"
  BY DEF IInv, Types, Forward
<1>2. output_queue = <<>> /\ input_queue = <<b>>
  BY <1>1 DEF IInv, Pipeline
<1>3. Head(input_queue) = b /\ Tail(input_queue) = <<>>
  <2> HIDE DEF b
  <2> QED BY <1>2, OneMessage
<1>4. output_queue' = <<o>> /\ input_queue' = <<>>
  <2>1. output_queue' = Append(<<>>, o) /\ input_queue' = <<>>
    BY <1>2, <1>3 DEF Forward
  <2> HIDE DEF o
  <2> QED BY <2>1, Singleton
<1>5. UNCHANGED <<phase, stream, outstanding, TGCleanupSeqIds, preempts, inference_queue, responses, pc, current,
                  model_output_wrapper, last_sequence_ids, pool, capacity, sequence_context_slot_map, context,
                  pending_cleanup_flags, aborted_context_handles, is_inference_pause, recovery>>
  BY DEF Forward, engineVars, threadVars, storeVars, recoveryVars
<1>6. Previous = b /\ \A s : PreviousToken(s) = Sample(s, b.inputs[s])
  BY <1>1, <1>2 DEF Previous, PreviousToken
<1>7. output_queue' # <<>> /\ output_queue'[1] = o
  <2> HIDE DEF o
  <2> QED BY <1>4, OneMessage
<1>8. Previous' = o /\ \A s : PreviousToken(s)' = o.tokens[s]
  <2> HIDE DEF o
  <2>1. Previous' = o
    BY <1>1, <1>5, <1>7 DEF Previous
  <2> QED BY <2>1, <1>1, <1>5, <1>7 DEF PreviousToken
<1>9. /\ Previous'.kind = Previous.kind /\ Previous'.seqs = Previous.seqs /\ Previous'.cache_ids = Previous.cache_ids
      /\ \A s \in Previous.seqs : PreviousToken(s)' = PreviousToken(s)
      /\ output_queue'[1].is_mock = FALSE
  <2>1. o.kind = b.kind /\ o.seqs = b.seqs /\ o.cache_ids = b.cache_ids /\ o.is_mock = FALSE
    OBVIOUS
  <2>2. \A s \in b.seqs : o.tokens[s] = Sample(s, b.inputs[s])
    <3> DEFINE T == [s \in b.seqs |-> Sample(s, b.inputs[s])]
    <3>1. o.tokens = T
      OBVIOUS
    <3>2. \A s \in b.seqs : T[s] = Sample(s, b.inputs[s])
      OBVIOUS
    <3> QED BY <3>1, <3>2
  <2> HIDE DEF o, b
  <2> QED BY <2>1, <2>2, <1>6, <1>7, <1>8
<1>10. output_queue' = <<output_queue'[1]>>
  <2> HIDE DEF o
  <2> QED BY <1>4, <1>7
<1> HIDE DEF b, o
<1>11. Store' /\ FlagsKnown'
  BY <1>5, StoreFrame DEF IInv
<1>12. Pipeline'
  <2>1. pc' # "post" /\ last_sequence_ids' = Previous'.seqs
    BY <1>1, <1>5, <1>9 DEF IInv, Pipeline
  <2>2. responses' = <<>> \/ responses' = <<responses'[1]>>
    BY <1>5 DEF IInv, Pipeline
  <2> QED BY <2>1, <2>2, <1>4, <1>9, <1>10 DEF Pipeline
<1>13. (Queued' <=> Queued) /\ Asked' = Asked /\ (AtMostOne(inference_queue)' <=> AtMostOne(inference_queue))
  BY <1>5, QueueFrame
<1>14. Turns'
  BY <1>5, <1>13 DEF IInv, Turns
<1>15. Batches'
  BY <1>5, <1>9, <1>13 DEF IInv, Batches
<1>16. Types'
  BY <1>5 DEF IInv, Types
<1>17. ASSUME NEW s \in Seqs
       PROVE  SInv(s)'
  <2>1. Owned(s) /\ Flags(s) /\ Phases(s) /\ Cleanups(s) /\ Leaks(s) /\ Exact(s)
    BY DEF IInv, SInv
  <2>2. /\ (Queued' <=> Queued) /\ Asked' = Asked
        /\ (AskedFor(s)' <=> AskedFor(s)) /\ (ToPrefill(s)' <=> ToPrefill(s))
        /\ (Before(s)' <=> Before(s)) /\ (After(s)' <=> After(s))
    BY <1>5, QueueFrame
  <2>3. Mapped' = Mapped /\ Aborted' = Aborted /\ Slot(s)' = Slot(s) /\ (Flagged(s)' <=> Flagged(s))
    BY <1>5, StoreFrame
  <2>4. /\ InPrevious(s)' <=> InPrevious(s)
        /\ InPrevious(s) => PreviousToken(s)' = PreviousToken(s)
        /\ Previous'.cache_ids[s] = Previous.cache_ids[s]
    BY <1>9 DEF InPrevious
  <2>5. InCurrent(s)' <=> InCurrent(s)
    BY <1>5 DEF InCurrent
  <2>6. /\ (Replied(s)' <=> Replied(s)) /\ (Ends(s)' <=> Ends(s))
        /\ Known(s)' = Known(s) /\ Due(s)' = Due(s) /\ (Received(s)' <=> Received(s))
    BY <1>5, ReplyFrame
  <2>7. UNCHANGED <<phase, TGCleanupSeqIds, pc, current, context, responses>>
    BY <1>5
  <2>8. Owned(s)'
    BY <2>1, <2>3, <2>4, <2>5, <2>7 DEF Owned
  <2>9. Flags(s)'
    BY <2>1, <2>2, <2>3, <2>6, <2>7 DEF Flags
  <2>10. Phases(s)'
    BY <2>1, <2>2, <2>4, <2>5, <2>6, <2>7 DEF Phases, Live
  <2>11. Cleanups(s)'
    BY <2>1, <2>2, <2>3, <2>4, <2>5, <2>7 DEF Cleanups
  <2>12. Leaks(s)'
    BY <2>1, <2>2, <2>3, <2>7 DEF Leaks
  <2>13. Exact(s)'
    BY <2>1, <2>2, <2>3, <2>4, <2>5, <2>6, <2>7
    DEF Exact, Live, Computed, Replying, Asking, Remembered, Composed, FilledIn, Sample
  <2> QED BY <2>8, <2>9, <2>10, <2>11, <2>12, <2>13 DEF SInv
<1> QED
  BY <1>11, <1>12, <1>14, <1>15, <1>16, <1>17 DEF IInv

(* The inputs after the fill: a sequence of the batch before takes the     *)
(* token that batch gave it.                                               *)
LEMMA FillInput ==
  ASSUME IInv, pc = "fetch", output_queue # <<>>, NEW s \in current.seqs
  PROVE  FillInModelResult(current, output_queue[1])[s] =
           IF current.kind = "decode" /\ InPrevious(s)
           THEN [current.inputs[s] EXCEPT !.token = PreviousToken(s), !.len = @ + 1]
           ELSE current.inputs[s]
<1> DEFINE o == output_queue[1]
<1>1. Previous = o /\ PreviousToken(s) = o.tokens[s] /\ (InPrevious(s) <=> s \in o.seqs)
  BY DEF Previous, PreviousToken, InPrevious
<1>2. o.is_mock = FALSE /\ last_sequence_ids = o.seqs /\ (o.kind = "empty" => o.seqs = {})
  BY <1>1 DEF IInv, Pipeline, Batches
<1> HIDE DEF o
<1>3. CASE current.kind # "decode" \/ o.kind = "empty"
  <2>1. FillInModelResult(current, o) = current.inputs
    BY <1>3 DEF FillInModelResult
  <2>2. ~(current.kind = "decode" /\ InPrevious(s))
    BY <1>1, <1>2, <1>3
  <2> QED BY <2>1, <2>2 DEF o
<1>4. CASE ~(current.kind # "decode" \/ o.kind = "empty")
  <2> DEFINE F(t) == IF t \notin last_sequence_ids THEN current.inputs[t]
                     ELSE [current.inputs[t] EXCEPT !.token = IF t \in o.seqs THEN o.tokens[t] ELSE None,
                                                    !.len = @ + 1]
  <2>1. FillInModelResult(current, o) = [t \in current.seqs |-> F(t)]
    BY <1>2, <1>4 DEF FillInModelResult
  <2>2. FillInModelResult(current, o)[s] = F(s)
    <3> HIDE DEF F
    <3> QED BY <2>1
  <2>3. CASE s \in o.seqs
    <3>1. F(s) = [current.inputs[s] EXCEPT !.token = o.tokens[s], !.len = @ + 1]
      BY <1>2, <2>3
    <3> QED BY <2>2, <2>3, <3>1, <1>1, <1>4 DEF o
  <2>4. CASE s \notin o.seqs
    BY <2>2, <2>4, <1>1, <1>2, <1>4 DEF o
  <2> QED BY <2>3, <2>4
<1> QED BY <1>3, <1>4

LEMMA FilledType ==
  ASSUME NEW A, NEW i \in [token : A, len : Int, pos : Int], NEW T \in A
  PROVE  [i EXCEPT !.token = T, !.len = @ + 1] \in [token : A, len : Int, pos : Int]
<1> DEFINE j == [i EXCEPT !.token = T]
           k == [i EXCEPT !.token = T, !.len = @ + 1]
<1>1. j \in [token : A, len : Int, pos : Int] /\ i.len \in Int
  OBVIOUS
<1>2. k = [j EXCEPT !.len = i.len + 1]
  OBVIOUS
<1> HIDE DEF j, k
<1>3. k \in [token : A, len : Int, pos : Int]
  BY <1>1, <1>2
<1> QED BY <1>3 DEF k

LEMMA FirstUpdateType ==
  ASSUME NEW A, NEW x \in [last_input_ids : A, seq_lens : Int, cached_seq_idx : Int], NEW l \in Int
  PROVE  /\ FirstUpdate(x, l) \in [last_input_ids : A, seq_lens : Int, cached_seq_idx : Int]
         /\ FirstUpdate(x, l).seq_lens = l /\ FirstUpdate(x, l).cached_seq_idx = l - 1
<1> DEFINE y == [x EXCEPT !.seq_lens = l]
           z == [x EXCEPT !.seq_lens = l, !.cached_seq_idx = l - 1]
<1>1. y \in [last_input_ids : A, seq_lens : Int, cached_seq_idx : Int]
  OBVIOUS
<1>2. z = [y EXCEPT !.cached_seq_idx = l - 1]
  OBVIOUS
<1>3. z.seq_lens = l /\ z.cached_seq_idx = l - 1
  OBVIOUS
<1> HIDE DEF y, z
<1>4. z \in [last_input_ids : A, seq_lens : Int, cached_seq_idx : Int]
  BY <1>1, <1>2
<1> QED BY <1>3, <1>4 DEF z, FirstUpdate

LEMMA FetchKeeps ==
  ASSUME IInv, Fetch
  PROVE  IInv'
<1> DEFINE o == output_queue[1]
           b == [current EXCEPT !.inputs = FillInModelResult(current, o)]
<1>1. output_queue # <<>> /\ pc = "fetch" /\ pc' = "post" /\ responses = <<>> /\ ~Queued
  BY DEF IInv, Turns, Fetch
<1>2. input_queue = <<>> /\ output_queue = <<o>>
  BY <1>1 DEF IInv, Pipeline
<1>3. Head(output_queue) = o /\ Tail(output_queue) = <<>>
  <2> HIDE DEF o
  <2> QED BY <1>2, OneMessage
<1>4. model_output_wrapper' = o /\ output_queue' = <<>> /\ current' = b /\ input_queue' = <<current'>>
  <2>1. model_output_wrapper' = o /\ output_queue' = <<>> /\ current' = b /\ input_queue' = Append(<<>>, b)
    BY <1>2, <1>3 DEF Fetch
  <2> HIDE DEF b
  <2> QED BY <2>1, Singleton
<1>5. UNCHANGED <<phase, stream, outstanding, TGCleanupSeqIds, preempts, inference_queue, responses,
                  last_sequence_ids, pool, capacity, sequence_context_slot_map, context,
                  pending_cleanup_flags, aborted_context_handles, is_inference_pause, recovery>>
  BY DEF Fetch, engineVars, storeVars, recoveryVars
<1>6. Previous = o /\ \A s : PreviousToken(s) = o.tokens[s]
  BY <1>1 DEF Previous, PreviousToken
<1>7. Previous' = Previous /\ \A s : PreviousToken(s)' = PreviousToken(s)
  <2>1. Previous' = o
    BY <1>1, <1>4 DEF Previous
  <2> QED BY <2>1, <1>1, <1>6 DEF PreviousToken
<1>8. /\ current' = [kind |-> current'.kind, seqs |-> current'.seqs, cache_ids |-> current'.cache_ids,
                     inputs |-> current'.inputs]
      /\ current'.kind = current.kind /\ current'.seqs = current.seqs /\ current'.cache_ids = current.cache_ids
      /\ current'.inputs = FillInModelResult(current, o)
  <2> DEFINE F == FillInModelResult(current, o)
             k == current.kind
             S == current.seqs
             c == current.cache_ids
             i == current.inputs
  <2>1. current = [kind |-> k, seqs |-> S, cache_ids |-> c, inputs |-> i]
    BY <1>1 DEF IInv, Batches
  <2>2. current' = [current EXCEPT !.inputs = F]
    BY <1>4
  <2> HIDE DEF F, k, S, c, i
  <2>3. current' = [kind |-> k, seqs |-> S, cache_ids |-> c, inputs |-> F]
    BY <2>1, <2>2
  <2> QED BY <2>3 DEF F, k, S, c
<1> HIDE DEF o, b
<1>9. ASSUME NEW s \in current.seqs
      PROVE  /\ current'.inputs[s] = IF current.kind = "decode" /\ InPrevious(s)
                  THEN [current.inputs[s] EXCEPT !.token = PreviousToken(s), !.len = @ + 1]
                  ELSE current.inputs[s]
             /\ current.inputs[s] \in Inputs /\ s \in Seqs
             /\ InPrevious(s) => PreviousToken(s) \in Tokens
  BY <1>1, <1>8, FillInput DEF o, IInv, Batches, InPrevious
<1>10. ASSUME NEW s \in current.seqs
       PROVE  current'.inputs[s] \in Inputs
  <2> DEFINE i == current.inputs[s]
             T == PreviousToken(s)
  <2>1. i \in [token : Tokens, len : Int, pos : Int] /\ (InPrevious(s) => T \in Tokens)
        /\ current'.inputs[s] = IF current.kind = "decode" /\ InPrevious(s)
                                THEN [i EXCEPT !.token = T, !.len = @ + 1] ELSE i
    BY <1>9 DEF Inputs
  <2> HIDE DEF i, T
  <2>2. T \in Tokens => [i EXCEPT !.token = T, !.len = @ + 1] \in [token : Tokens, len : Int, pos : Int]
    BY <2>1, FilledType
  <2> QED BY <2>1, <2>2 DEF Inputs
<1>11. Store' /\ FlagsKnown'
  BY <1>5, StoreFrame DEF IInv
<1>12. Pipeline'
  <2>1. model_output_wrapper'.is_mock = FALSE
    BY <1>1, <1>4 DEF IInv, Pipeline, o
  <2>2. last_sequence_ids' = Previous'.seqs
    BY <1>5, <1>7 DEF IInv, Pipeline
  <2> QED BY <2>1, <2>2, <1>1, <1>4, <1>5 DEF Pipeline
<1>13. (Queued' <=> Queued) /\ Asked' = Asked /\ (AtMostOne(inference_queue)' <=> AtMostOne(inference_queue))
  BY <1>5, QueueFrame
<1>14. Turns'
  BY <1>1, <1>5, <1>13 DEF IInv, Turns
<1>15. Batches'
  <2>1. /\ current.seqs \subseteq Seqs /\ current.kind \in {"prefill", "decode", "dummy"}
        /\ current.kind = "dummy" => current.seqs = {}
    BY <1>1 DEF IInv, Batches
  <2>2. pc' # "idle" =>
       /\ current' = [kind |-> current'.kind, seqs |-> current'.seqs, cache_ids |-> current'.cache_ids,
                     inputs |-> current'.inputs]
       /\ current'.seqs \subseteq Seqs /\ current'.kind \in {"prefill", "decode", "dummy"}
       /\ current'.kind = "dummy" => current'.seqs = {}
       /\ \A s \in current'.seqs : current'.inputs[s] \in Inputs
    BY <2>1, <1>8, <1>10
  <2>3. /\ Previous.seqs \subseteq Seqs /\ Previous.kind \in {"empty", "prefill", "decode", "dummy"}
        /\ Previous.kind \in {"empty", "dummy"} => Previous.seqs = {}
        /\ \A s, t \in Previous.seqs : Previous.cache_ids[s] = Previous.cache_ids[t] => s = t
        /\ \A s \in Previous.seqs : PreviousToken(s) \in Tokens
    BY DEF IInv, Batches
  <2> QED BY <2>2, <2>3, <1>1, <1>7, <1>13 DEF Batches
<1>16. Types'
  BY <1>1, <1>5 DEF IInv, Types
<1>17. ASSUME NEW s \in Seqs
       PROVE  SInv(s)'
  <2>1. Owned(s) /\ Flags(s) /\ Phases(s) /\ Cleanups(s) /\ Leaks(s) /\ Exact(s)
    BY DEF IInv, SInv
  <2>2. /\ ~Queued /\ (Queued' <=> Queued) /\ ~AskedFor(s) /\ ~AskedFor(s)' /\ ~ToPrefill(s) /\ ~ToPrefill(s)'
        /\ (Before(s)' <=> Before(s)) /\ (After(s)' <=> After(s))
    BY <1>1, <1>5, QueueFrame DEF AskedFor, ToPrefill
  <2>3. Mapped' = Mapped /\ Aborted' = Aborted /\ Slot(s)' = Slot(s) /\ (Flagged(s)' <=> Flagged(s))
    BY <1>5, StoreFrame
  <2>4. (InPrevious(s)' <=> InPrevious(s)) /\ Previous' = Previous /\ PreviousToken(s)' = PreviousToken(s)
    BY <1>7 DEF InPrevious
  <2>5. (InCurrent(s)' <=> InCurrent(s)) /\ (InCurrent(s) <=> s \in current.seqs)
    BY <1>1, <1>8 DEF InCurrent
  <2>6. ~Replied(s) /\ ~Replied(s)' /\ ~Ends(s) /\ ~Ends(s)'
    BY <1>1, <1>5 DEF Replied, Ends
  <2>7. Known(s)' = Known(s) /\ Due(s)' = Due(s) /\ Due(s) = Known(s) /\ (Received(s)' <=> Received(s))
    BY <2>6, <1>5, ReplyFrame DEF Due
  <2>8. UNCHANGED <<phase, TGCleanupSeqIds, context>> /\ current'.kind = current.kind
        /\ current'.cache_ids = current.cache_ids /\ pc = "fetch" /\ pc' = "post"
    BY <1>1, <1>5, <1>8
  <2>9. Owned(s)'
    BY <2>1, <2>3, <2>4, <2>5, <2>8 DEF Owned
  <2>10. Flags(s)'
    BY <2>1, <2>2, <2>3, <2>6, <2>8 DEF Flags
  <2>11. Phases(s)'
    BY <2>1, <2>2, <2>4, <2>5, <2>6, <2>8 DEF Phases, Live
  <2>12. Cleanups(s)'
    BY <2>1, <2>2, <2>3, <2>4, <2>5, <2>8 DEF Cleanups
  <2>13. Leaks(s)'
    BY <2>1, <2>2, <2>3, <2>8 DEF Leaks
  <2>14. Known(s) \in Int
    <3>1. stream[s] \in Seq(Seqs \X Int) /\ PromptLen \in Int
      BY TextGeneratorAssumption DEF IInv, Types
    <3>2. Len(stream[s]) \in Nat
      BY <3>1
    <3> QED BY <3>1, <3>2 DEF Known
  <2>15. ASSUME InCurrent(s), phase[s] = "running"
         PROVE  Sample(s, current'.inputs[s]) = <<s, IF InPrevious(s) THEN Known(s) + 1 ELSE Known(s)>>
    <3> DEFINE i == current.inputs[s]
               j == current'.inputs[s]
               k == Known(s)
    <3>1. Composed(s) /\ Computed(s) /\ k \in Int /\ s \in current.seqs
      BY <2>1, <2>5, <2>14, <2>15 DEF Exact
    <3>2. i \in [token : Tokens, len : Int, pos : Int]
      BY <3>1, <1>9 DEF Inputs
    <3>3. CASE InPrevious(s)
      <4> DEFINE T == PreviousToken(s)
      <4>1. current.kind = "decode" /\ i.len = k /\ i.pos = k
        BY <3>1, <3>3, <2>8, <2>15 DEF Composed
      <4>2. T = <<s, k>>
        BY <3>1, <3>3, <2>7, <2>15 DEF Computed, Live
      <4>3. j = [i EXCEPT !.token = T, !.len = @ + 1]
        BY <3>1, <3>3, <4>1, <1>9
      <4> HIDE DEF i, j, k, T
      <4>4. j.token = T /\ j.len = i.len + 1 /\ j.pos = i.pos
        BY <4>3, <3>2
      <4>5. j.token = <<s, k>> /\ j.len = k + 1 /\ j.pos = k /\ (k + 1) - 1 = k
        BY <4>1, <4>2, <4>4, <3>1
      <4>6. Sample(s, j) = <<s, k + 1>>
        BY <4>5 DEF Sample
      <4> QED BY <4>6, <3>3 DEF j, k
    <3>4. CASE ~InPrevious(s)
      <4>1. i.token = <<s, k - 1>> /\ i.len = k /\ i.pos = k - 1
        BY <3>1, <3>4, <2>8, <2>15 DEF Composed
      <4>2. j = i
        BY <3>1, <3>4, <1>9
      <4> HIDE DEF i, j, k
      <4>3. Sample(s, j) = <<s, k>>
        BY <4>1, <4>2, <3>1 DEF Sample
      <4> QED BY <4>3, <3>4 DEF j, k
    <3> QED BY <3>3, <3>4
  <2>16. FilledIn(s)'
    <3> DEFINE i == current.inputs[s]
    <3>1. (Sample(s, i))' = Sample(s, i')
      BY DEF Sample
    <3> QED BY <3>1, <2>4, <2>5, <2>7, <2>8, <2>15 DEF FilledIn
  <2>17. Exact(s)'
    BY <2>1, <2>2, <2>3, <2>4, <2>5, <2>6, <2>7, <2>8, <2>16
    DEF Exact, Live, Computed, Replying, Asking, Remembered, Composed
  <2> QED BY <2>9, <2>10, <2>11, <2>12, <2>13, <2>17 DEF SInv
<1> QED
  BY <1>11, <1>12, <1>14, <1>15, <1>16, <1>17 DEF IInv

(* The contexts of a prefill batch get the lengths of their own sequences, *)
(* and nobody else's context changes.                                      *)
LEMMA PreprocessContext ==
  ASSUME IInv, Preprocess, Store', Mapped' = Mapped \cup Asked.seqs, Asked = Head(inference_queue), Queued
  PROVE  /\ \A s \in Mapped' : Slot(s)' \in Slots
         /\ \A s \in Mapped' : context'[Slot(s)'] =
              IF Asked.kind = "prefill" /\ s \in Asked.seqs
              THEN FirstUpdate(context[Slot(s)'], Asked.lens[s]) ELSE context[Slot(s)']
         /\ context' \in [Slots -> Contexts]
<1> DEFINE m == Asked
           N == sequence_context_slot_map'
           G(h) == m.kind = "prefill" /\ \E s \in m.seqs : N[s] = h
           C(h) == CHOOSE s \in m.seqs : N[s] = h
           U(h) == FirstUpdate(context[h], m.lens[C(h)])
<1>1. context' = [h \in Slots |-> IF G(h) THEN U(h) ELSE context[h]]
  BY DEF Preprocess, PreprocessBatch, Slot
<1>2. \A s, t \in Mapped' : N[s] = N[t] => s = t
  BY DEF Store, IsInjective, Mapped, Slot
<1>3. ASSUME NEW s \in Mapped' PROVE N[s] \in Slots
  <2>1. N[s] \in Taken'
    BY DEF Taken, Range, Mapped, Slot
  <2>2. Taken' \subseteq 1..(capacity' - 1) /\ capacity' \in base_capacity..MaxCapacity
    BY DEF Store
  <2>3. base_capacity \in Nat /\ MaxCapacity \in Nat
    BY TextGeneratorAssumption
  <2>4. capacity' \in Int /\ capacity' <= MaxCapacity
    BY <2>2, <2>3
  <2> HIDE DEF N
  <2>5. N[s] \in 1..(capacity' - 1)
    BY <2>1, <2>2
  <2> QED BY <2>3, <2>4, <2>5 DEF Slots
<1>4. ASSUME NEW h, NEW s \in m.seqs, N[s] = h PROVE C(h) = s
  <2>1. C(h) \in m.seqs /\ N[C(h)] = h
    BY <1>4
  <2> HIDE DEF C
  <2>2. C(h) \in Mapped' /\ s \in Mapped'
    BY <2>1
  <2> QED BY <2>1, <2>2, <1>2, <1>4
<1> HIDE DEF C
<1>5. ASSUME NEW s \in Mapped'
      PROVE  context'[N[s]] = IF m.kind = "prefill" /\ s \in m.seqs
               THEN FirstUpdate(context[N[s]], m.lens[s]) ELSE context[N[s]]
  <2> DEFINE h == N[s]
  <2>1. h \in Slots
    BY <1>3
  <2>2. G(h) <=> m.kind = "prefill" /\ s \in m.seqs
    <3>1. ASSUME NEW t \in m.seqs, N[t] = h PROVE t = s
      BY <3>1, <1>2
    <3> QED BY <3>1
  <2>3. s \in m.seqs => C(h) = s
    BY <1>4
  <2> HIDE DEF G, h
  <2>4. context'[h] = IF G(h) THEN U(h) ELSE context[h]
    BY <1>1, <2>1
  <2> QED BY <2>2, <2>3, <2>4 DEF h
<1>6. ASSUME NEW h \in Slots PROVE (IF G(h) THEN U(h) ELSE context[h]) \in Contexts
  <2>1. context[h] \in Contexts
    BY DEF IInv, Types
  <2>2. CASE G(h)
    <3>1. PICK s \in m.seqs : N[s] = h
      BY <2>2
    <3>2. C(h) = s /\ m.lens[s] \in Int
      BY <3>1, <1>4 DEF IInv, Batches
    <3> DEFINE l == m.lens[s]
               c == context[h]
    <3>3. U(h) = FirstUpdate(c, l)
      BY <3>2
    <3>4. c \in [last_input_ids : Tokens, seq_lens : Int, cached_seq_idx : Int] /\ l \in Int
      BY <2>1, <3>2 DEF Contexts
    <3> HIDE DEF c, l
    <3>5. FirstUpdate(c, l) \in [last_input_ids : Tokens, seq_lens : Int, cached_seq_idx : Int]
      BY <3>4, FirstUpdateType
    <3> QED BY <2>2, <3>3, <3>5 DEF Contexts
  <2> QED BY <2>1, <2>2
<1>7. context' \in [Slots -> Contexts]
  <2> HIDE DEF G, U
  <2> QED BY <1>1, <1>6
<1> QED BY <1>3, <1>5, <1>7 DEF Slot

LEMMA KnownType ==
  ASSUME IInv, NEW s \in Seqs
  PROVE  Known(s) \in Int
<1>1. stream[s] \in Seq(Seqs \X Int) /\ PromptLen \in Int
  BY TextGeneratorAssumption DEF IInv, Types
<1>2. Len(stream[s]) \in Nat
  BY <1>1
<1> QED BY <1>1, <1>2 DEF Known

LEMMA PreprocessKeeps ==
  ASSUME IInv, Preprocess
  PROVE  IInv'
<1> DEFINE q == inference_queue
           m == Asked
           I(s) == ComposeModelInput(m, s, context[Slot(s)'])
<1>1. q \in Seq(Requests) /\ q # <<>> /\ Head(q).type = "MODEL_INFER" /\ AtMostOne(q)
      /\ inference_queue' = Tail(q) /\ pc = "idle" /\ pc' = "fetch"
  BY DEF IInv, Types, Turns, Preprocess
<1>2. UNCHANGED <<phase, stream, outstanding, TGCleanupSeqIds, preempts, input_queue, output_queue, responses,
                  model_output_wrapper, last_sequence_ids, pending_cleanup_flags, aborted_context_handles,
                  is_inference_pause, recovery>>
  BY DEF Preprocess, engineVars, recoveryVars
<1>3. /\ InfersOf(q) # {} /\ AskedOf(q) = Head(q)
      /\ InfersOf(inference_queue') = {} /\ AtMostOne(inference_queue')
      /\ \A s : IsBefore(inference_queue', s) <=> IsAfter(q, s)
      /\ \A s : ~IsBefore(q, s) /\ ~IsAfter(inference_queue', s)
  BY <1>1, TakeBatchQueue
<1>4. /\ Queued /\ Asked = Head(q) /\ ~Queued' /\ AtMostOne(inference_queue)'
      /\ \A s : Before(s)' <=> After(s)
      /\ \A s : ~Before(s) /\ ~After(s)'
  BY <1>3 DEF Queued, Asked, Before, After
<1>5. responses = <<>> /\ outstanding
  BY <1>4 DEF IInv, Turns
<1>6. inference_queue' \in Seq(Requests) /\ Head(q) \in Requests
  BY <1>1, TailDomain
<1>7. m.seqs \in SUBSET Seqs /\ m.kind \in {"prefill", "decode", "dummy"}
  <2>1. m \in Requests /\ m.type = "MODEL_INFER"
    BY <1>1, <1>4, <1>6
  <2> HIDE DEF m
  <2> QED BY <2>1 DEF Requests
<1>8. GetBatchContextHandles(m.seqs, m.kind = "prefill") /\ Store
  BY <1>4 DEF Preprocess, PreprocessBatch, IInv
<1>9. /\ Store' /\ Mapped' = Mapped \cup m.seqs /\ Aborted' = Aborted
      /\ \A s \in Mapped : Slot(s)' = Slot(s)
      /\ \A s \in m.seqs \ Mapped : Slot(s)' \notin Taken \cup Aborted
  <2> HIDE DEF m
  <2> QED BY <1>2, <1>7, <1>8, GetBatchContextHandlesStore
<1>10. /\ \A s \in Mapped' : Slot(s)' \in Slots
       /\ \A s \in Mapped' : context'[Slot(s)'] =
              IF m.kind = "prefill" /\ s \in m.seqs
              THEN FirstUpdate(context[Slot(s)'], m.lens[s]) ELSE context[Slot(s)']
       /\ context' \in [Slots -> Contexts]
  BY <1>4, <1>9, PreprocessContext
<1>11. current' = [kind |-> m.kind, seqs |-> m.seqs, cache_ids |-> [s \in m.seqs |-> Slot(s)'],
                   inputs |-> [s \in m.seqs |-> I(s)]]
  BY <1>4 DEF Preprocess, PreprocessBatch, Slot
<1> HIDE DEF I, m
<1>12. /\ current' = [kind |-> current'.kind, seqs |-> current'.seqs, cache_ids |-> current'.cache_ids,
                      inputs |-> current'.inputs]
       /\ current'.kind = m.kind /\ current'.seqs = m.seqs
       /\ \A s \in m.seqs : current'.cache_ids[s] = Slot(s)' /\ current'.inputs[s] = I(s)
  <2> DEFINE C == [s \in m.seqs |-> Slot(s)']
             J == [s \in m.seqs |-> I(s)]
  <2>1. \A s \in m.seqs : C[s] = Slot(s)' /\ J[s] = I(s)
    OBVIOUS
  <2>2. current' = [kind |-> m.kind, seqs |-> m.seqs, cache_ids |-> C, inputs |-> J]
    BY <1>11
  <2> HIDE DEF C, J
  <2> QED BY <2>1, <2>2
<1>13. /\ Previous' = Previous /\ \A s : PreviousToken(s)' = PreviousToken(s)
       /\ \A s : InPrevious(s)' <=> InPrevious(s)
  BY <1>1, <1>2, PreviousFrame
<1>14. Pipeline'
  BY <1>1, <1>2, <1>13 DEF IInv, Pipeline
<1>15. Turns'
  BY <1>1, <1>2, <1>4, <1>5 DEF Turns
<1>16. /\ m.kind = "dummy" => m.seqs = {}
       /\ \A s \in m.seqs : m.lens[s] \in Int
  BY <1>4 DEF IInv, Batches, m
<1>17. ASSUME NEW s \in m.seqs
       PROVE  I(s) = IF m.kind = "prefill"
                     THEN [token |-> <<s, m.lens[s] - 1>>, len |-> m.lens[s], pos |-> m.lens[s] - 1]
                     ELSE [token |-> context[Slot(s)'].last_input_ids, len |-> context[Slot(s)'].seq_lens,
                           pos |-> context[Slot(s)'].cached_seq_idx + (IF InPrevious(s) THEN 1 ELSE 0)]
  <2>1. s \in last_sequence_ids <=> InPrevious(s)
    BY DEF IInv, Pipeline, InPrevious
  <2> QED BY <2>1 DEF I, ComposeModelInput
<1>18. ASSUME NEW s \in m.seqs
       PROVE  I(s) \in Inputs
  <2>1. s \in Seqs /\ m.lens[s] \in Int /\ Slot(s)' \in Slots
    BY <1>7, <1>9, <1>10, <1>16
  <2>2. context[Slot(s)'] \in Contexts
    BY <2>1 DEF IInv, Types
  <2> DEFINE c == context[Slot(s)']
  <2>3. c.last_input_ids \in Tokens /\ c.seq_lens \in Int /\ c.cached_seq_idx \in Int
    <3> HIDE DEF c
    <3>1. c \in Contexts
      BY <2>2 DEF c
    <3> QED BY <3>1 DEF Contexts
  <2>4. <<s, m.lens[s] - 1>> \in Tokens
    BY <2>1 DEF Tokens
  <2> HIDE DEF c
  <2>5. CASE m.kind = "prefill"
    BY <2>1, <2>4, <2>5, <1>17 DEF Inputs
  <2>6. CASE m.kind # "prefill"
    <3> DEFINE p == c.cached_seq_idx + (IF InPrevious(s) THEN 1 ELSE 0)
    <3>1. p \in Int
      BY <2>3
    <3>2. I(s) = [token |-> c.last_input_ids, len |-> c.seq_lens, pos |-> p]
      BY <2>6, <1>17 DEF c
    <3> HIDE DEF p
    <3> QED BY <2>3, <3>1, <3>2 DEF Inputs
  <2> QED BY <2>5, <2>6
<1>19. Batches'
  <2>1. /\ current'.seqs \subseteq Seqs /\ current'.kind \in {"prefill", "decode", "dummy"}
        /\ current'.kind = "dummy" => current'.seqs = {}
        /\ \A s \in current'.seqs : current'.inputs[s] \in Inputs
    BY <1>7, <1>12, <1>16, <1>18
  <2>2. /\ Previous.seqs \subseteq Seqs /\ Previous.kind \in {"empty", "prefill", "decode", "dummy"}
        /\ Previous.kind \in {"empty", "dummy"} => Previous.seqs = {}
        /\ \A s, t \in Previous.seqs : Previous.cache_ids[s] = Previous.cache_ids[t] => s = t
        /\ \A s \in Previous.seqs : PreviousToken(s) \in Tokens
    BY DEF IInv, Batches
  <2> QED BY <2>1, <2>2, <1>4, <1>12, <1>13 DEF Batches
<1>20. Types'
  BY <1>1, <1>2, <1>6, <1>10 DEF IInv, Types
<1>21. FlagsKnown'
  <2>1. Taken \subseteq Taken'
    <3> SUFFICES ASSUME NEW x \in Taken PROVE x \in Taken'
      OBVIOUS
    <3>1. PICK s \in Mapped : Slot(s) = x
      BY DEF Taken, Range, Mapped, Slot
    <3>2. s \in Mapped' /\ Slot(s)' = x
      BY <3>1, <1>9
    <3> QED BY <3>2 DEF Taken, Range, Mapped, Slot
  <2> QED BY <2>1, <1>2, <1>9 DEF IInv, FlagsKnown
<1>22. ASSUME NEW s \in Seqs
       PROVE  SInv(s)'
  <2>1. Owned(s) /\ Flags(s) /\ Phases(s) /\ Cleanups(s) /\ Leaks(s) /\ Exact(s)
    BY DEF IInv, SInv
  <2>2. /\ Queued /\ ~Queued' /\ (AskedFor(s) <=> s \in m.seqs)
        /\ (ToPrefill(s) <=> s \in m.seqs /\ m.kind = "prefill")
        /\ ~AskedFor(s)' /\ ~ToPrefill(s)'
        /\ (Before(s)' <=> After(s)) /\ ~Before(s) /\ ~After(s)'
    BY <1>4 DEF AskedFor, ToPrefill, m
  <2>3. /\ (s \in Mapped' <=> s \in Mapped \/ s \in m.seqs) /\ (s \in Mapped => Slot(s)' = Slot(s))
        /\ Aborted' = Aborted
    BY <1>9
  <2>4. Flagged(s)' <=> Flagged(s)
    <3>1. CASE s \in Mapped
      BY <3>1, <2>3, <1>2 DEF Flagged
    <3>2. CASE s \notin Mapped
      <4>1. s \in m.seqs => Slot(s)' \notin pending_cleanup_flags
        BY <3>2, <1>9 DEF IInv, FlagsKnown
      <4> QED BY <3>2, <4>1, <2>3, <1>2 DEF Flagged
    <3> QED BY <3>1, <3>2
  <2>5. ~InCurrent(s) /\ (InCurrent(s)' <=> s \in m.seqs) /\ current'.kind = m.kind
        /\ (s \in m.seqs => current'.cache_ids[s] = Slot(s)')
    BY <1>1, <1>12 DEF InCurrent
  <2>6. ~Replied(s) /\ ~Replied(s)' /\ ~Ends(s) /\ ~Ends(s)'
    BY <1>2, <1>5 DEF Replied, Ends
  <2>7. Known(s)' = Known(s) /\ Due(s)' = Due(s) /\ Due(s) = Known(s) /\ (Received(s)' <=> Received(s))
    BY <2>6, <1>2, ReplyFrame DEF Due
  <2>8. (InPrevious(s)' <=> InPrevious(s)) /\ Previous' = Previous /\ PreviousToken(s)' = PreviousToken(s)
    BY <1>13
  <2>9. phase' = phase /\ TGCleanupSeqIds' = TGCleanupSeqIds /\ pc = "idle" /\ pc' = "fetch"
    BY <1>1, <1>2
  <2>10. s \in m.seqs => m.kind # "dummy" /\ m.kind \in {"prefill", "decode", "dummy"}
    BY <1>7, <1>16
  <2>11. Asked.kind = m.kind
    BY DEF m
  <2>12. InPrevious(s) /\ s \in m.seqs => s \in Mapped /\ m.kind = "decode"
    BY <2>1, <2>2, <2>10, <2>11 DEF Cleanups
  <2>13. Owned(s)'
    BY <2>1, <2>2, <2>3, <2>4, <2>5, <2>8, <2>9, <2>12 DEF Owned, Flags
  <2>14. Flags(s)'
    BY <2>1, <2>2, <2>4, <2>6, <2>9 DEF Flags
  <2>15. Phases(s)'
    BY <2>1, <2>2, <2>5, <2>6, <2>8, <2>9, <2>11 DEF Phases, Live
  <2>16. Cleanups(s)'
    BY <2>1, <2>2, <2>3, <2>5, <2>8, <2>9 DEF Cleanups
  <2>17. Leaks(s)'
    BY <2>1, <2>2, <2>3, <2>4, <2>9 DEF Leaks, Phases
  <2>18. Computed(s)' /\ Replying(s)' /\ Asking(s)' /\ Received(s)' /\ FilledIn(s)'
    BY <2>1, <2>2, <2>6, <2>7, <2>8, <2>9 DEF Exact, Computed, Replying, Asking, FilledIn, Live
  <2> DEFINE h == Slot(s)'
             k == Known(s)
  <2>19. k \in Int
    BY KnownType
  <2>20. s \in m.seqs /\ phase[s] = "running" => m.lens[s] = k
    BY <2>1, <2>2 DEF Exact, Asking, m
  <2>21. s \in Mapped /\ phase[s] = "running" /\ ~ToPrefill(s) =>
           /\ context[h].seq_lens = k /\ context[h].cached_seq_idx = k - 1
           /\ InPrevious(s) \/ context[h].last_input_ids = <<s, k - 1>>
    BY <2>1, <2>3, <2>5, <2>7 DEF Exact, Remembered
  <2>22. Remembered(s)'
    <3> SUFFICES ASSUME s \in Mapped', phase[s] = "running"
                 PROVE  /\ context'[h].seq_lens = k /\ context'[h].cached_seq_idx = k - 1
                        /\ \/ InPrevious(s)
                           \/ s \in m.seqs /\ m.kind = "prefill"
                           \/ context'[h].last_input_ids = <<s, k - 1>>
      BY <2>2, <2>5, <2>7, <2>8, <2>9 DEF Remembered
    <3>1. context'[h] = IF m.kind = "prefill" /\ s \in m.seqs
                        THEN FirstUpdate(context[h], m.lens[s]) ELSE context[h]
      BY <1>10
    <3>2. context[h] \in Contexts
      BY <1>10 DEF IInv, Types
    <3> HIDE DEF h, k
    <3>3. CASE m.kind = "prefill" /\ s \in m.seqs
      <4> DEFINE c == context[h]
      <4>1. c \in [last_input_ids : Tokens, seq_lens : Int, cached_seq_idx : Int]
        BY <3>2 DEF Contexts
      <4>2. context'[h] = FirstUpdate(c, k)
        BY <3>1, <3>3, <2>20
      <4> HIDE DEF c
      <4>3. FirstUpdate(c, k).seq_lens = k /\ FirstUpdate(c, k).cached_seq_idx = k - 1
        BY <4>1, <2>19, FirstUpdateType
      <4> QED BY <4>2, <4>3, <3>3
    <3>4. CASE ~(m.kind = "prefill" /\ s \in m.seqs)
      <4>1. context'[h] = context[h] /\ ~ToPrefill(s)
        BY <3>1, <3>4, <2>2
      <4>2. s \in Mapped
        BY <4>1, <2>1 DEF Cleanups
      <4> QED BY <4>1, <4>2, <2>21
    <3> QED BY <3>3, <3>4
  <2>23. Composed(s)'
    <3> SUFFICES ASSUME s \in m.seqs, phase[s] = "running"
                 PROVE  IF InPrevious(s)
                        THEN m.kind = "decode" /\ I(s).len = k /\ I(s).pos = k
                        ELSE I(s).token = <<s, k - 1>> /\ I(s).len = k /\ I(s).pos = k - 1
      BY <2>5, <2>7, <2>8, <2>9, <1>12 DEF Composed
    <3>1. CASE m.kind = "prefill"
      <4>1. ~InPrevious(s)
        BY <3>1, <2>12
      <4>2. I(s) = [token |-> <<s, m.lens[s] - 1>>, len |-> m.lens[s], pos |-> m.lens[s] - 1]
        BY <3>1, <1>17
      <4> HIDE DEF k
      <4> QED BY <4>1, <4>2, <2>20
    <3>2. CASE m.kind # "prefill"
      <4>1. m.kind = "decode" /\ AskedFor(s) /\ ~ToPrefill(s)
        BY <3>2, <2>2, <2>10
      <4>2. s \in Mapped
        BY <4>1, <2>1, <2>11 DEF Cleanups
      <4>3. /\ context[h].seq_lens = k /\ context[h].cached_seq_idx = k - 1
            /\ InPrevious(s) \/ context[h].last_input_ids = <<s, k - 1>>
        BY <4>1, <4>2, <2>21
      <4>4. I(s) = [token |-> context[h].last_input_ids, len |-> context[h].seq_lens,
                    pos |-> context[h].cached_seq_idx + (IF InPrevious(s) THEN 1 ELSE 0)]
        BY <3>2, <1>17
      <4> HIDE DEF h, k
      <4>5. /\ I(s).token = context[h].last_input_ids /\ I(s).len = k
            /\ I(s).pos = (k - 1) + (IF InPrevious(s) THEN 1 ELSE 0)
        BY <4>3, <4>4
      <4>6. (k - 1) + 1 = k /\ (k - 1) + 0 = k - 1
        BY <2>19
      <4> QED BY <4>1, <4>3, <4>5, <4>6
    <3> QED BY <3>1, <3>2
  <2> QED BY <2>13, <2>14, <2>15, <2>16, <2>17, <2>18, <2>22, <2>23 DEF SInv, Exact
<1> QED
  BY <1>9, <1>14, <1>15, <1>19, <1>20, <1>21, <1>22 DEF IInv

(* What the two postprocesses have in common: the batch of the call is now *)
(* the batch before.                                                       *)
LEMMA PostprocessFrame ==
  ASSUME IInv, Postprocess(FALSE)
  PROVE  /\ pc = "post" /\ pc' = "idle" /\ ~Queued /\ ~Queued' /\ outstanding /\ responses = <<>>
         /\ Previous = model_output_wrapper /\ \A s : PreviousToken(s) = Previous.tokens[s]
         /\ Previous' = current /\ \A s : PreviousToken(s)' = Sample(s, current.inputs[s])
         /\ UNCHANGED <<phase, stream, outstanding, TGCleanupSeqIds, preempts, inference_queue, input_queue,
                        output_queue, is_inference_pause, recovery>>
         /\ \A s : InCurrent(s) <=> s \in current.seqs
         /\ \A s : InPrevious(s)' <=> InCurrent(s)
         /\ \A s : ~InCurrent(s)'
         /\ \A r : responses' = Append(responses, r) => Pipeline' /\ Turns' /\ Batches' /\ responses' = <<r>>
<1>1. pc = "post" /\ pc' = "idle" /\ last_sequence_ids' = current.seqs
  BY DEF Postprocess
<1>2. UNCHANGED <<phase, stream, outstanding, TGCleanupSeqIds, preempts, inference_queue, input_queue,
                  output_queue, is_inference_pause, recovery>>
  BY DEF Postprocess, engineVars, recoveryVars
<1>3. ~Queued /\ outstanding /\ responses = <<>> /\ AtMostOne(inference_queue)
  BY <1>1 DEF IInv, Turns
<1>4. ~Queued' /\ AtMostOne(inference_queue)'
  BY <1>2, <1>3, QueueFrame
<1>5. input_queue = <<current>> /\ output_queue = <<>>
  BY <1>1 DEF IInv, Pipeline
<1>6. input_queue' = <<current>> /\ output_queue' = <<>> /\ input_queue'[1] = current
  BY <1>2, <1>5, OneMessage
<1>7. Previous = model_output_wrapper /\ \A s : PreviousToken(s) = Previous.tokens[s]
  BY <1>1 DEF Previous, PreviousToken
<1>8. Previous' = current
  BY <1>1, <1>6 DEF Previous
<1>9. ASSUME NEW s PROVE PreviousToken(s)' = Sample(s, current.inputs[s])
  BY <1>1, <1>6 DEF PreviousToken, Sample
<1>10. \A s : (InCurrent(s) <=> s \in current.seqs) /\ (InPrevious(s)' <=> InCurrent(s)) /\ ~InCurrent(s)'
  BY <1>1, <1>8 DEF InCurrent, InPrevious
<1>11. ASSUME NEW r, responses' = Append(responses, r)
       PROVE  Pipeline' /\ Turns' /\ responses' = <<r>>
  <2>1. responses' = <<r>>
    BY <1>3, <1>11, Singleton
  <2>2. responses' = <<responses'[1]>>
    BY <2>1, OneMessage
  <2>3. input_queue' = <<input_queue'[1]>>
    BY <1>6
  <2>4. Pipeline'
    BY <2>2, <2>3, <1>1, <1>6, <1>8 DEF Pipeline
  <2>5. Turns'
    BY <1>1, <1>2, <1>3, <1>4 DEF Turns
  <2> QED BY <2>1, <2>4, <2>5
<1>12. Batches'
  <2>1. /\ current.seqs \subseteq Seqs /\ current.kind \in {"prefill", "decode", "dummy"}
        /\ current.kind = "dummy" => current.seqs = {}
        /\ \A s \in current.seqs : current.inputs[s] \in Inputs
    BY <1>1 DEF IInv, Batches
  <2>2. ASSUME NEW s \in current.seqs PROVE s \in Mapped /\ current.cache_ids[s] = Slot(s)
    BY <2>1, <1>10 DEF IInv, SInv, Owned
  <2>3. \A s, t \in Mapped : Slot(s) = Slot(t) => s = t
    BY DEF IInv, Store, IsInjective, Mapped, Slot
  <2>4. \A s, t \in current.seqs : current.cache_ids[s] = current.cache_ids[t] => s = t
    BY <2>2, <2>3
  <2>5. ASSUME NEW s \in current.seqs PROVE Sample(s, current.inputs[s]) \in Tokens
    <3> DEFINE i == current.inputs[s]
    <3>1. i \in Inputs /\ s \in Seqs
      BY <2>1
    <3> HIDE DEF i
    <3>2. i.len \in Int
      BY <3>1 DEF Inputs
    <3>3. Sample(s, i) \in Tokens
      BY <3>1, <3>2 DEF Sample, Tokens
    <3> QED BY <3>3 DEF i
  <2> QED BY <2>1, <2>4, <2>5, <1>1, <1>4, <1>8, <1>9 DEF Batches
<1> QED
  BY <1>1, <1>2, <1>3, <1>4, <1>7, <1>8, <1>9, <1>10, <1>11, <1>12

(* After an empty or a dummy batch there is nothing to postprocess.        *)
LEMMA PostprocessNothingKeeps ==
  ASSUME IInv, Postprocess(FALSE), model_output_wrapper.kind \in {"empty", "dummy"}
  PROVE  IInv'
<1>1. /\ pc = "post" /\ pc' = "idle" /\ ~Queued /\ ~Queued' /\ outstanding /\ responses = <<>>
      /\ Previous = model_output_wrapper
      /\ Previous' = current /\ \A s : PreviousToken(s)' = Sample(s, current.inputs[s])
      /\ UNCHANGED <<phase, stream, outstanding, TGCleanupSeqIds, preempts, inference_queue, input_queue,
                     output_queue, is_inference_pause, recovery>>
      /\ \A s : InCurrent(s) <=> s \in current.seqs
      /\ \A s : InPrevious(s)' <=> InCurrent(s)
      /\ \A s : ~InCurrent(s)'
      /\ \A r : responses' = Append(responses, r) => Pipeline' /\ Turns' /\ Batches' /\ responses' = <<r>>
  BY PostprocessFrame
<1>2. responses' = Append(responses, NoResponse)
      /\ UNCHANGED <<pool, capacity, sequence_context_slot_map, context, pending_cleanup_flags, aborted_context_handles>>
  BY DEF Postprocess, storeVars
<1>3. Pipeline' /\ Turns' /\ Batches' /\ responses' = <<NoResponse>>
  BY <1>1, <1>2
<1>4. responses'[1].seqs = {}
  <2>1. responses'[1] = NoResponse
    BY <1>3, OneMessage
  <2> QED BY <2>1 DEF NoResponse
<1>5. Store' /\ FlagsKnown'
  BY <1>2, StoreFrame DEF IInv
<1>6. Types'
  BY <1>1, <1>2 DEF IInv, Types
<1>7. ASSUME NEW s \in Seqs
      PROVE  SInv(s)'
  <2>1. Owned(s) /\ Flags(s) /\ Phases(s) /\ Cleanups(s) /\ Leaks(s) /\ Exact(s)
    BY DEF IInv, SInv
  <2>2. /\ ~Queued /\ ~Queued' /\ ~AskedFor(s) /\ ~AskedFor(s)' /\ ~ToPrefill(s) /\ ~ToPrefill(s)'
        /\ (Before(s)' <=> Before(s)) /\ (After(s)' <=> After(s))
    BY <1>1, QueueFrame DEF AskedFor, ToPrefill
  <2>3. Mapped' = Mapped /\ Aborted' = Aborted /\ Slot(s)' = Slot(s) /\ (Flagged(s)' <=> Flagged(s))
    BY <1>2, StoreFrame
  <2>4. ~InPrevious(s)
    BY <1>1 DEF IInv, Batches, InPrevious
  <2>5. /\ (InPrevious(s)' <=> InCurrent(s)) /\ Previous' = current /\ ~InCurrent(s)'
        /\ PreviousToken(s)' = Sample(s, current.inputs[s])
    BY <1>1
  <2>6. ~Replied(s) /\ ~Replied(s)' /\ ~Ends(s) /\ ~Ends(s)'
    BY <1>1, <1>4 DEF Replied, Ends
  <2>7. Known(s)' = Known(s) /\ Due(s)' = Known(s) /\ Due(s) = Known(s) /\ (Received(s)' <=> Received(s))
    BY <2>6, <1>1 DEF Due, Known, Received
  <2>8. UNCHANGED <<phase, TGCleanupSeqIds, context>> /\ pc = "post" /\ pc' = "idle"
    BY <1>1, <1>2
  <2>9. Owned(s)'
    BY <2>1, <2>3, <2>5, <2>8 DEF Owned
  <2>10. Flags(s)'
    BY <2>1, <2>2, <2>3, <2>6, <2>8 DEF Flags
  <2>11. Phases(s)'
    BY <2>1, <2>2, <2>5, <2>6, <2>8 DEF Phases, Live
  <2>12. Cleanups(s)'
    BY <2>1, <2>2, <2>3, <2>5, <2>8 DEF Cleanups
  <2>13. Leaks(s)'
    BY <2>1, <2>2, <2>3, <2>8 DEF Leaks
  <2>14. Computed(s)'
    BY <2>1, <2>4, <2>5, <2>7, <2>8 DEF Exact, Computed, FilledIn, Live, Phases
  <2>15. Remembered(s)'
    BY <2>1, <2>2, <2>3, <2>4, <2>5, <2>7, <2>8 DEF Exact, Remembered
  <2>16. Received(s)' /\ Replying(s)' /\ Asking(s)' /\ Composed(s)' /\ FilledIn(s)'
    BY <2>1, <2>2, <2>6, <2>7, <2>8 DEF Exact, Replying, Asking, Composed, FilledIn
  <2> QED BY <2>9, <2>10, <2>11, <2>12, <2>13, <2>14, <2>15, <2>16 DEF SInv, Exact
<1> QED
  BY <1>3, <1>5, <1>6, <1>7 DEF IInv

(* A postprocess: what it clears was flagged one batch earlier, so the     *)
(* batch in flight does not use it; what ends now is flagged for the next. *)
LEMMA PostprocessOutputKeeps ==
  ASSUME IInv, Postprocess(FALSE), model_output_wrapper.kind \notin {"empty", "dummy"}
  PROVE  IInv'
<1> DEFINE out == Previous
           Fin == FilterFinishedSequences(out)
           r == Response(out, Fin)
           F == {Slot(s) : s \in FilterFinishedContext}
           P(h) == CHOOSE s \in out.seqs : out.cache_ids[s] = h
<1>1. /\ pc = "post" /\ pc' = "idle" /\ ~Queued /\ ~Queued' /\ outstanding /\ responses = <<>>
      /\ Previous = model_output_wrapper /\ \A s : PreviousToken(s) = Previous.tokens[s]
      /\ Previous' = current /\ \A s : PreviousToken(s)' = Sample(s, current.inputs[s])
      /\ UNCHANGED <<phase, stream, outstanding, TGCleanupSeqIds, preempts, inference_queue, input_queue,
                     output_queue, is_inference_pause, recovery>>
      /\ \A s : InCurrent(s) <=> s \in current.seqs
      /\ \A s : InPrevious(s)' <=> InCurrent(s)
      /\ \A s : ~InCurrent(s)'
      /\ \A x : responses' = Append(responses, x) => Pipeline' /\ Turns' /\ Batches' /\ responses' = <<x>>
  BY PostprocessFrame
<1>2. UpdateStore(out, Fin) /\ responses' = Append(responses, r)
  <2>1. model_output_wrapper.is_mock = FALSE
    BY <1>1 DEF IInv, Pipeline
  <2> QED BY <1>1, <2>1 DEF Postprocess, PostprocessOutput
<1>3. /\ r.seqs = (IF current.kind = "dummy" THEN {} ELSE out.seqs \ FilterFinishedContext)
      /\ r.tokens = out.tokens /\ r.finished = Fin
  BY DEF Response
<1>4. Fin \subseteq out.seqs
  BY DEF FilterFinishedSequences
<1>5. \A s : s \in FilterFinishedContext <=> Flagged(s)
  BY DEF FilterFinishedContext, Flagged, Mapped, Slot
<1>6. Store /\ FlagsKnown
  BY DEF IInv
<1> HIDE DEF r, Fin
<1>7. /\ Store' /\ Mapped' = Mapped \ FilterFinishedContext
      /\ \A s \in Mapped' : Slot(s)' = Slot(s)
      /\ Aborted' = {}
      /\ context' = [h \in Slots |-> context'[h]]
      /\ \A h \in Slots : context'[h] =
              IF h \in F \cup Aborted THEN Blank
              ELSE IF \E s \in out.seqs : out.cache_ids[s] = h
              THEN Update(context[h], out.tokens[P(h)])
              ELSE context[h]
      /\ pending_cleanup_flags' =
              ({out.cache_ids[s] : s \in Fin} \ pending_cleanup_flags) \ Aborted
  <2> HIDE DEF out
  <2>1. UpdateStore(out, Fin) /\ Store
    BY <1>2, <1>6
  <2>2. /\ Store' /\ Mapped' = Mapped \ FilterFinishedContext
        /\ \A s \in Mapped' : Slot(s)' = Slot(s)
        /\ Aborted' = {}
        /\ context' = [h \in Slots |-> context'[h]]
        /\ pending_cleanup_flags' =
              ({out.cache_ids[s] : s \in Fin} \ pending_cleanup_flags) \ Aborted
    BY <2>1, UpdateStoreStore
  <2>3. \A h \in Slots : context'[h] =
              IF h \in F \cup Aborted THEN Blank
              ELSE IF \E s \in out.seqs : out.cache_ids[s] = h
              THEN Update(context[h], out.tokens[P(h)])
              ELSE context[h]
    BY <2>1, UpdateStoreStore, Zenon
  <2> HIDE DEF F, P
  <2> QED BY <2>2, <2>3
<1>8. Pipeline' /\ Turns' /\ Batches' /\ responses' = <<r>> /\ responses' # <<>> /\ responses'[1] = r
  BY <1>1, <1>2, OneMessage
<1>9. /\ out.seqs \subseteq Seqs
      /\ \A s, t \in out.seqs : out.cache_ids[s] = out.cache_ids[t] => s = t
      /\ \A s \in out.seqs : out.tokens[s] \in Tokens
  BY <1>1 DEF IInv, Batches
<1>10. ASSUME NEW s \in out.seqs
       PROVE  \/ s \in Mapped /\ Slot(s) = out.cache_ids[s]
              \/ s \notin Mapped /\ out.cache_ids[s] \in Aborted
  BY <1>9 DEF IInv, SInv, Owned, InPrevious
<1> HIDE DEF out
<1>11. ASSUME NEW h, NEW s \in out.seqs, out.cache_ids[s] = h PROVE P(h) = s
  <2>1. P(h) \in out.seqs /\ out.cache_ids[P(h)] = h
    BY <1>11
  <2> HIDE DEF P
  <2> QED BY <2>1, <1>9, <1>11
<1> HIDE DEF P
<1>12. \A s, t \in Mapped : Slot(s) = Slot(t) => s = t
  BY <1>6 DEF Store, IsInjective, Mapped, Slot
<1>13. \A s \in Mapped : Slot(s) \notin Aborted /\ Slot(s) \in Slots
  <2> SUFFICES ASSUME NEW s \in Mapped PROVE Slot(s) \notin Aborted /\ Slot(s) \in Slots
    OBVIOUS
  <2>1. Slot(s) \in Taken
    BY DEF Taken, Range, Mapped, Slot
  <2>2. Taken \subseteq 1..(capacity - 1) /\ Taken \cap Aborted = {} /\ capacity \in base_capacity..MaxCapacity
    BY <1>6 DEF Store
  <2>3. base_capacity \in Nat /\ MaxCapacity \in Nat
    BY TextGeneratorAssumption
  <2>4. capacity \in Int /\ capacity <= MaxCapacity
    BY <2>2, <2>3
  <2>5. Slot(s) \in 1..(capacity - 1)
    BY <2>1, <2>2
  <2> QED BY <2>1, <2>2, <2>3, <2>4, <2>5 DEF Slots
<1>14. ASSUME NEW s \in Mapped, NEW t \in out.seqs, out.cache_ids[t] = Slot(s)
       PROVE  t = s
  BY <1>10, <1>12, <1>13, <1>14
<1>15. \A s : s \in Mapped' <=> s \in Mapped /\ ~Flagged(s)
  BY <1>5, <1>7
<1>16. FlagsKnown'
  <2> SUFFICES ASSUME NEW x \in pending_cleanup_flags' PROVE x \in Taken'
    BY DEF FlagsKnown
  <2>1. PICK t \in Fin : out.cache_ids[t] = x
    BY <1>7
  <2>2. x \notin pending_cleanup_flags /\ x \notin Aborted
    BY <1>7
  <2>3. t \in Mapped /\ Slot(t) = x
    BY <2>1, <2>2, <1>4, <1>10
  <2>4. t \in Mapped' /\ Slot(t)' = x
    BY <2>2, <2>3, <1>7, <1>15 DEF Flagged
  <2> QED BY <2>4 DEF Taken, Range, Mapped, Slot
<1>17. ASSUME NEW h \in Slots PROVE context'[h] \in Contexts
  <2>1. context[h] \in Contexts
    BY DEF IInv, Types
  <2>2. Blank \in Contexts
    BY DEF Blank, Contexts, Tokens
  <2>3. ASSUME NEW s \in out.seqs, out.cache_ids[s] = h
        PROVE  Update(context[h], out.tokens[P(h)]) \in Contexts
    <3> DEFINE T == out.tokens[P(h)]
               c == context[h]
    <3>1. T \in Tokens
      BY <2>3, <1>9, <1>11
    <3>2. c \in Contexts
      BY <2>1
    <3> HIDE DEF T, c
    <3>3. c.seq_lens \in Int /\ c.cached_seq_idx \in Int
      BY <3>2 DEF Contexts
    <3>4. Update(c, T) \in Contexts
      BY <3>1, <3>3 DEF Update, Contexts
    <3> QED BY <3>4 DEF T, c
  <2> QED BY <2>1, <2>2, <2>3, <1>7
<1>18. Types'
  <2>1. context' \in [Slots -> Contexts]
    BY <1>7, <1>17
  <2> QED BY <2>1, <1>1 DEF IInv, Types
<1>19. ASSUME NEW s \in Seqs
       PROVE  SInv(s)'
  <2>1. Owned(s) /\ Flags(s) /\ Phases(s) /\ Cleanups(s) /\ Leaks(s) /\ Exact(s)
    BY DEF IInv, SInv
  <2>2. /\ ~Queued /\ ~Queued' /\ ~AskedFor(s) /\ ~AskedFor(s)' /\ ~ToPrefill(s) /\ ~ToPrefill(s)'
        /\ (Before(s)' <=> Before(s)) /\ (After(s)' <=> After(s))
    BY <1>1, QueueFrame DEF AskedFor, ToPrefill
  <2>3. (s \in Mapped' <=> s \in Mapped /\ ~Flagged(s)) /\ (s \in Mapped' => Slot(s)' = Slot(s))
    BY <1>7, <1>15
  <2>4. InPrevious(s) <=> s \in out.seqs
    BY DEF InPrevious, out
  <2>5. /\ (InPrevious(s)' <=> InCurrent(s)) /\ Previous' = current /\ ~InCurrent(s)'
        /\ PreviousToken(s)' = Sample(s, current.inputs[s]) /\ PreviousToken(s) = out.tokens[s]
        /\ (InCurrent(s) <=> s \in current.seqs)
    BY <1>1 DEF out
  <2>6. /\ ~Replied(s) /\ ~Ends(s)
        /\ (Replied(s)' <=> current.kind # "dummy" /\ InPrevious(s) /\ ~Flagged(s))
        /\ (Ends(s)' <=> Replied(s)' /\ s \in Fin)
        /\ responses'[1].tokens[s] = out.tokens[s]
    <3>1. s \in r.seqs <=> current.kind # "dummy" /\ InPrevious(s) /\ ~Flagged(s)
      BY <2>4, <1>3, <1>5
    <3>2. Replied(s)' <=> s \in r.seqs
      BY <1>8 DEF Replied
    <3>3. Ends(s)' <=> s \in r.seqs /\ s \in Fin
      BY <1>3, <1>8 DEF Ends
    <3>4. ~Replied(s) /\ ~Ends(s)
      BY <1>1 DEF Replied, Ends
    <3> QED BY <3>1, <3>2, <3>3, <3>4, <1>3, <1>8
  <2>7. Known(s)' = Known(s) /\ Due(s) = Known(s) /\ (Received(s)' <=> Received(s))
        /\ Due(s)' = (IF Replied(s)' THEN Known(s) + 1 ELSE Known(s)) /\ Known(s) \in Int
    BY <2>6, <1>1, KnownType DEF Due, Known, Received
  <2>8. UNCHANGED <<phase, TGCleanupSeqIds>> /\ pc = "post" /\ pc' = "idle"
    BY <1>1
  <2>9. Flagged(s)' <=> s \in Mapped /\ ~Flagged(s) /\ s \in Fin
    <3>1. ASSUME Flagged(s)' PROVE s \in Mapped /\ ~Flagged(s) /\ s \in Fin
      <4>1. s \in Mapped' /\ Slot(s) \in pending_cleanup_flags'
        BY <3>1, <2>3 DEF Flagged
      <4>2. PICK t \in Fin : out.cache_ids[t] = Slot(s)
        BY <4>1, <1>7
      <4>3. s \in Mapped /\ ~Flagged(s)
        BY <4>1, <2>3
      <4>4. t = s
        BY <4>2, <4>3, <1>4, <1>14
      <4> QED BY <4>2, <4>3, <4>4
    <3>2. ASSUME s \in Mapped, ~Flagged(s), s \in Fin PROVE Flagged(s)'
      <4>1. s \in Mapped' /\ Slot(s)' = Slot(s)
        BY <3>2, <2>3
      <4>2. out.cache_ids[s] = Slot(s) /\ Slot(s) \notin Aborted
        BY <3>2, <1>4, <1>10, <1>13
      <4>3. Slot(s) \notin pending_cleanup_flags
        BY <3>2 DEF Flagged
      <4>4. Slot(s) \in pending_cleanup_flags'
        BY <3>2, <4>2, <4>3, <1>7
      <4> QED BY <4>1, <4>4 DEF Flagged
    <3> QED BY <3>1, <3>2
  <2>10. s \in Fin => InPrevious(s)
    BY <2>4, <1>4
  <2>11. /\ InCurrent(s) => s \in Mapped /\ current.cache_ids[s] = Slot(s) /\ ~Flagged(s)
         /\ InCurrent(s) => phase[s] \in {"running", "ended"}
         /\ InPrevious(s) /\ current.kind = "dummy" => phase[s] = "ended"
         /\ InPrevious(s) => Live(s) \/ phase[s] = "ended"
         /\ Flagged(s) => phase[s] = "ended"
    BY <2>1, <2>6, <2>8 DEF Owned, Phases, Flags
  <2>12. Owned(s)'
    BY <2>3, <2>5, <2>11 DEF Owned
  <2>13. Flags(s)'
    BY <2>2, <2>3, <2>6, <2>8, <2>9, <2>10, <2>11 DEF Flags
  <2>14. Phases(s)'
    BY <2>1, <2>2, <2>5, <2>6, <2>8, <2>11 DEF Phases, Live
  <2>15. Cleanups(s)'
    BY <2>1, <2>2, <2>3, <2>5, <2>8, <2>11 DEF Cleanups
  <2>16. Leaks(s)'
    BY <2>1, <2>2, <2>3, <2>8 DEF Leaks
  <2>17. current.kind = "dummy" => ~InCurrent(s)
    BY <2>5, <1>1 DEF IInv, Batches
  <2>18. Computed(s)'
    <3> SUFFICES ASSUME InCurrent(s), Live(s)
                 PROVE  PreviousToken(s)' = <<s, Due(s)'>>
      BY <2>5, <2>8 DEF Computed, Live
    <3>1. phase[s] = "running"
      BY <2>11 DEF Live
    <3>2. Sample(s, current.inputs[s]) = <<s, IF InPrevious(s) THEN Known(s) + 1 ELSE Known(s)>>
      BY <3>1, <2>1, <2>8 DEF Exact, FilledIn
    <3>3. Replied(s)' <=> InPrevious(s)
      BY <2>6, <2>11, <2>17
    <3> QED BY <3>2, <3>3, <2>5, <2>7
  <2>19. InPrevious(s) /\ Live(s) => out.tokens[s] = <<s, Known(s)>>
    BY <2>1, <2>5, <2>7 DEF Exact, Computed
  <2>20. Replying(s)'
    BY <2>6, <2>7, <2>8, <2>19 DEF Replying, Live
  <2>21. Remembered(s)'
    <3> DEFINE h == Slot(s)
               k == Known(s)
               c == context[h]
    <3> SUFFICES ASSUME s \in Mapped', phase[s] = "running"
                 PROVE  /\ context'[h].seq_lens = Due(s)' /\ context'[h].cached_seq_idx = Due(s)' - 1
                        /\ \/ InCurrent(s)
                           \/ context'[h].last_input_ids = <<s, Due(s)' - 1>>
      BY <2>2, <2>3, <2>5, <2>8 DEF Remembered
    <3>1. s \in Mapped /\ ~Flagged(s) /\ h \in Slots /\ h \notin Aborted
      BY <2>3, <1>13
    <3>2. h \notin F
      BY <3>1, <1>5, <1>12 DEF Flagged
    <3>3. c.seq_lens = k /\ c.cached_seq_idx = k - 1
          /\ (InPrevious(s) \/ InCurrent(s) \/ c.last_input_ids = <<s, k - 1>>)
      BY <3>1, <2>1, <2>2, <2>7 DEF Exact, Remembered
    <3>4. CASE InPrevious(s)
      <4>1. s \in out.seqs /\ out.cache_ids[s] = h
        BY <3>1, <3>4, <2>4, <1>10
      <4>2. P(h) = s /\ out.tokens[s] = <<s, k>>
        BY <3>4, <4>1, <2>19, <1>11 DEF Live
      <4>3. context'[h] = Update(c, <<s, k>>)
        BY <3>1, <3>2, <4>1, <4>2, <1>7
      <4>4. Replied(s)'
        BY <3>1, <3>4, <2>6, <2>11
      <4>5. Due(s)' = k + 1 /\ k \in Int
        BY <4>4, <2>7
      <4> HIDE DEF h, k, c
      <4>6. /\ context'[h].seq_lens = k + 1 /\ context'[h].cached_seq_idx = (k - 1) + 1
            /\ context'[h].last_input_ids = <<s, k>>
        BY <4>3, <3>3 DEF Update
      <4>7. (k - 1) + 1 = k /\ (k + 1) - 1 = k
        BY <4>5
      <4> QED BY <4>5, <4>6, <4>7
    <3>5. CASE ~InPrevious(s)
      <4>1. ~\E t \in out.seqs : out.cache_ids[t] = h
        BY <3>1, <3>5, <2>4, <1>14
      <4>2. context'[h] = c
        BY <3>1, <3>2, <4>1, <1>7
      <4>3. Due(s)' = k
        BY <3>5, <2>6, <2>7
      <4> QED BY <4>2, <4>3, <3>3, <3>5
    <3> QED BY <3>4, <3>5
  <2>22. Received(s)' /\ Asking(s)' /\ Composed(s)' /\ FilledIn(s)'
    BY <2>1, <2>2, <2>7, <2>8 DEF Exact, Asking, Composed, FilledIn
  <2> QED BY <2>12, <2>13, <2>14, <2>15, <2>16, <2>18, <2>20, <2>21, <2>22 DEF SInv, Exact
<1> QED
  BY <1>7, <1>8, <1>16, <1>18, <1>19 DEF IInv

-----------------------------------------------------------------------------
LEMMA InitIInv == Init => IInv
<1> SUFFICES ASSUME Init PROVE IInv
  OBVIOUS
<1>1. /\ phase = [s \in Seqs |-> "absent"] /\ stream = [s \in Seqs |-> <<>>]
      /\ outstanding = FALSE /\ TGCleanupSeqIds = {} /\ preempts = 0
      /\ inference_queue = <<>> /\ input_queue = <<>> /\ responses = <<>>
      /\ output_queue = <<EmptyOutput>>
      /\ pc = "idle" /\ last_sequence_ids = {}
      /\ sequence_context_slot_map = <<>> /\ context = [h \in Slots |-> Blank]
      /\ pending_cleanup_flags = {} /\ is_inference_pause = FALSE /\ recovery = "none"
  BY DEF Init, None
<1>2. output_queue # <<>> /\ output_queue[1] = EmptyOutput
  BY <1>1, OneMessage
<1>3. Previous = EmptyOutput /\ EmptyOutput.seqs = {} /\ EmptyOutput.kind = "empty" /\ EmptyOutput.is_mock = FALSE
  BY <1>1, <1>2 DEF Previous, EmptyOutput
<1>4. ~Queued /\ AtMostOne(inference_queue) /\ \A s : ~Before(s) /\ ~After(s)
  BY <1>1, EmptyQueue DEF Queued, Before, After
<1>5. Types
  <2>1. Blank \in Contexts
    BY DEF Blank, Contexts, Tokens
  <2>2. stream \in [Seqs -> Seq(Seqs \X Int)] /\ inference_queue \in Seq(Requests)
    BY <1>1
  <2>3. preempts \in 0..MaxPreempts
    BY <1>1, TextGeneratorAssumption
  <2> QED BY <2>1, <2>2, <2>3, <1>1 DEF Types
<1>6. Store
  BY InitStore
<1>7. Pipeline
  BY <1>1, <1>2, <1>3 DEF Pipeline
<1>8. Turns
  BY <1>1, <1>4 DEF Turns
<1>9. Batches
  BY <1>1, <1>3, <1>4 DEF Batches
<1>10. FlagsKnown
  BY <1>1 DEF FlagsKnown
<1>11. ASSUME NEW s \in Seqs
       PROVE  SInv(s)
  <2>1. /\ ~AskedFor(s) /\ ~ToPrefill(s) /\ ~Before(s) /\ ~After(s) /\ ~InCurrent(s) /\ ~InPrevious(s)
        /\ ~Replied(s) /\ ~Ends(s) /\ s \notin Mapped /\ ~Flagged(s) /\ ~Queued
        /\ phase[s] = "absent" /\ ~Live(s) /\ s \notin TGCleanupSeqIds /\ pc = "idle"
    BY <1>1, <1>3, <1>4
    DEF AskedFor, ToPrefill, InCurrent, InPrevious, Replied, Ends, Mapped, Flagged, Live
  <2>2. Received(s)
    <3>1. stream[s] = <<>>
      BY <1>1
    <3>2. Len(<<>>) = 0 /\ 1..0 = {}
      OBVIOUS
    <3> QED BY <3>1, <3>2 DEF Received
  <2>3. Owned(s) /\ Flags(s) /\ Phases(s) /\ Cleanups(s) /\ Leaks(s)
    BY <2>1 DEF Owned, Flags, Phases, Cleanups, Leaks
  <2>4. Computed(s) /\ Replying(s) /\ Asking(s) /\ Remembered(s) /\ Composed(s) /\ FilledIn(s)
    BY <2>1 DEF Computed, Replying, Asking, Remembered, Composed, FilledIn
  <2> QED BY <2>2, <2>3, <2>4 DEF SInv, Exact
<1> QED
  BY <1>5, <1>6, <1>7, <1>8, <1>9, <1>10, <1>11 DEF IInv

LEMMA StutterKeeps ==
  ASSUME IInv, UNCHANGED vars
  PROVE  IInv'
<1>1. EngineOnly /\ UNCHANGED <<phase, TGCleanupSeqIds, stream, preempts, inference_queue, context, outstanding, pc, recovery, is_inference_pause>>
  BY DEF vars, EngineOnly, engineVars, threadVars, storeVars, recoveryVars
<1>2. Store' /\ Pipeline' /\ Turns' /\ Batches' /\ FlagsKnown'
  BY <1>1, EngineFrame
<1>3. Types'
  BY <1>1 DEF IInv, Types
<1>4. ASSUME NEW s \in Seqs
      PROVE  SInv(s)'
  <2>1. Owned(s) /\ Flags(s) /\ Phases(s) /\ Cleanups(s) /\ Leaks(s) /\ Exact(s)
    BY DEF IInv, SInv
  <2>2. Owned(s)' /\ Flags(s)' /\ Leaks(s)'
    BY <2>1, <1>1, EngineFrameAt DEF Owned, Flags, Leaks
  <2>3. Phases(s)' /\ Cleanups(s)'
    BY <2>1, <1>1, EngineFrameAt DEF Phases, Live, Cleanups
  <2>4. Exact(s)'
    BY <2>1, <1>1, EngineFrameAt
    DEF Exact, Live, Computed, Replying, Asking, Remembered, Composed, FilledIn, Sample
  <2> QED BY <2>2, <2>3, <2>4 DEF SInv
<1> QED
  BY <1>2, <1>3, <1>4 DEF IInv

LEMMA NextKeeps ==
  ASSUME IInv, [Next]_vars
  PROVE  IInv'
<1>1. CASE \E s \in Seqs : AddRequest(s) \/ AbortRequest(s)
  BY <1>1, AddRequestKeeps, AbortRequestKeeps
<1>2. CASE Round
  BY <1>2, SchedulePrefillKeeps, ScheduleDecodeKeeps, ExecuteDummyKeeps, EmptyRoundKeeps DEF Round
<1>3. CASE Receive
  BY <1>3, ReceiveKeeps
<1>4. CASE Preprocess
  BY <1>4, PreprocessKeeps
<1>5. CASE Fetch
  BY <1>5, FetchKeeps
<1>6. CASE Postprocess(FALSE)
  BY <1>6, PostprocessNothingKeeps, PostprocessOutputKeeps
<1>7. CASE SeqCtrl
  BY <1>7, SeqCtrlKeeps
<1>8. CASE ForwardLoop
  BY <1>8, ForwardKeeps DEF ForwardLoop
<1>9. CASE UNCHANGED vars
  BY <1>9, StutterKeeps
<1> QED
  BY <1>1, <1>2, <1>3, <1>4, <1>5, <1>6, <1>7, <1>8, <1>9 DEF Next

(* The pipeline of the two threads, its context store and the engine's     *)
(* view of every sequence stay in step, for any number of sequences, any   *)
(* growth of the store and any number of preemptions.                      *)
THEOREM Invariance == Spec => []IInv
BY InitIInv, NextKeeps, PTL DEF Spec

(* Every variable of the model process keeps its type: in particular the   *)
(* free slots and the capacity stay within the arrays.                     *)
THEOREM TypeCorrect == Spec => []TypeOK
<1>1. IInv => TypeOK
  <2> SUFFICES ASSUME IInv PROVE TypeOK
    OBVIOUS
  <2>1. /\ phase \in [Seqs -> {"absent", "waiting", "running", "preempted", "ended"}]
        /\ outstanding \in BOOLEAN /\ TGCleanupSeqIds \subseteq Seqs /\ preempts \in 0 .. MaxPreempts
        /\ pc \in {"idle", "fetch", "post"}
        /\ recovery \in {"none", "paused", "ready", "done"} /\ is_inference_pause \in BOOLEAN
    BY DEF IInv, Types
  <2>2. last_sequence_ids \subseteq Seqs
    BY DEF IInv, Pipeline, Batches
  <2>3. /\ Free \subseteq 1..(capacity - 1) /\ Taken \subseteq 1..(capacity - 1) /\ Aborted \subseteq 1..(capacity - 1)
        /\ capacity \in base_capacity..MaxCapacity /\ Mapped \subseteq Seqs
    BY DEF IInv, Store
  <2>4. 1..(capacity - 1) \subseteq Slots
    <3>1. base_capacity \in Nat /\ MaxCapacity \in Nat
      BY TextGeneratorAssumption
    <3>2. capacity \in Int /\ capacity <= MaxCapacity
      BY <2>3, <3>1
    <3> QED BY <3>1, <3>2 DEF Slots
  <2>5. pending_cleanup_flags \subseteq Slots /\ Aborted \subseteq Slots
    BY <2>3, <2>4 DEF IInv, FlagsKnown
  <2> QED BY <2>1, <2>2, <2>3, <2>5 DEF TypeOK, Free, Aborted, Mapped
<1> QED BY <1>1, Invariance, PTL

(* No slot is lost or given twice, whatever the order in which sequences   *)
(* end, are aborted and are preempted while batches are in flight.         *)
THEOREM SlotsPartitioned == Spec => []SlotPartition
<1>1. IInv => SlotPartition
  BY DEF IInv, Store, SlotPartition, Lists, Free, Taken, Aborted
<1> QED BY <1>1, Invariance, PTL

(* get_context_slot always finds the context of a decoding sequence, a     *)
(* batch late as the cleanups and the engine's knowledge are.              *)
THEOREM DecodeFinds == Spec => []DecodeFindsContext
<1>1. IInv => DecodeFindsContext
  <2> SUFFICES ASSUME IInv, inference_queue # <<>>, Head(inference_queue).type = "MODEL_INFER",
                      Head(inference_queue).kind = "decode", NEW s \in Head(inference_queue).seqs
               PROVE  s \in DOMAIN sequence_context_slot_map
    BY DEF DecodeFindsContext
  <2>1. inference_queue \in Seq(Requests) /\ AtMostOne(inference_queue)
    BY DEF IInv, Types, Turns
  <2>2. Queued /\ Asked = Head(inference_queue)
    BY <2>1, TakeBatchQueue DEF Queued, Asked
  <2>3. Head(inference_queue) \in Requests
    BY <2>1, TailDomain
  <2>4. s \in Seqs
    BY <2>3 DEF Requests
  <2>5. AskedFor(s) /\ Asked.kind = "decode"
    BY <2>2 DEF AskedFor
  <2> QED BY <2>4, <2>5 DEF IInv, SInv, Cleanups, Mapped
<1> QED BY <1>1, Invariance, PTL

(* There are never more than two batches in flight: the one of the call    *)
(* and the one before.                                                     *)
LEMMA TwoInFlight ==
  ASSUME IInv, NEW b \in InFlight
  PROVE  b = Previous \/ (pc # "idle" /\ b = current)
<1>1. CASE pc = "post"
  <2>1. Range(input_queue) = {current} /\ Range(output_queue) = {}
    BY <1>1 DEF IInv, Pipeline, Range
  <2>2. Previous = model_output_wrapper
    BY <1>1 DEF Previous
  <2> QED BY <2>1, <2>2, <1>1 DEF InFlight
<1>2. CASE pc # "post"
  <2> DEFINE i == input_queue[1]
             o == output_queue[1]
  <2>1. (input_queue = <<>> /\ output_queue = <<o>>) \/ (output_queue = <<>> /\ input_queue = <<i>>)
    BY <1>2 DEF IInv, Pipeline
  <2>2. Previous = IF output_queue # <<>> THEN o ELSE i
    BY <1>2 DEF Previous
  <2> HIDE DEF i, o
  <2>3. CASE input_queue = <<>> /\ output_queue = <<o>>
    <3>1. Range(input_queue) = {} /\ Range(output_queue) = {o} /\ output_queue # <<>>
      BY <2>3, OneMessage DEF Range
    <3> QED BY <3>1, <2>2, <1>2 DEF InFlight
  <2>4. CASE output_queue = <<>> /\ input_queue = <<i>>
    <3>1. Range(output_queue) = {} /\ Range(input_queue) = {i}
      BY <2>4 DEF Range
    <3> QED BY <3>1, <2>2, <2>4, <1>2 DEF InFlight
  <2> QED BY <2>1, <2>3, <2>4
<1> QED BY <1>1, <1>2

(* A batch in flight never reads or writes a slot that has been freed or   *)
(* handed to another sequence meanwhile.                                   *)
THEOREM InFlightOwns == Spec => []InFlightOwned
<1>1. IInv => InFlightOwned
  <2> SUFFICES ASSUME IInv, NEW b \in InFlight, NEW s \in b.seqs
               PROVE  /\ b.cache_ids[s] \notin Free
                      /\ \A t \in Mapped \ {s} : Slot(t) # b.cache_ids[s]
    BY DEF InFlightOwned, Free, Mapped, Slot
  <2>1. \/ b = Previous /\ InPrevious(s) /\ s \in Seqs
        \/ b = current /\ InCurrent(s) /\ s \in Seqs
    BY TwoInFlight DEF IInv, Batches, InPrevious, InCurrent
  <2>2. \/ s \in Mapped /\ Slot(s) = b.cache_ids[s]
        \/ b.cache_ids[s] \in Aborted
    BY <2>1 DEF IInv, SInv, Owned
  <2>3. \A t \in Mapped : Slot(t) \in Taken
    BY DEF Taken, Range, Mapped, Slot
  <2>4. \A t, u \in Mapped : Slot(t) = Slot(u) => t = u
    BY DEF IInv, Store, IsInjective, Mapped, Slot
  <2>5. Free \cap Taken = {} /\ Free \cap Aborted = {} /\ Taken \cap Aborted = {}
    BY DEF IInv, Store
  <2> QED BY <2>2, <2>3, <2>4, <2>5
<1> QED BY <1>1, Invariance, PTL

(* The context of a sequence that has ended is never forgotten: it is      *)
(* flagged, or a cleanup names it, or the engine is about to send one.     *)
THEOREM NoLeaks == Spec => []NoLeak
<1>1. IInv => NoLeak
  <2> SUFFICES ASSUME IInv, NEW s \in Mapped, phase[s] = "ended"
               PROVE  \/ Slot(s) \in pending_cleanup_flags
                      \/ s \in TGCleanupSeqIds
                      \/ \E i \in DOMAIN inference_queue : s \in inference_queue[i].seqs
    BY DEF NoLeak, Mapped, Slot
  <2>1. s \in Seqs
    BY DEF IInv, Store
  <2>2. Flagged(s) \/ s \in TGCleanupSeqIds \/ Before(s) \/ After(s)
    BY <2>1 DEF IInv, SInv, Leaks
  <2> QED BY <2>2 DEF Flagged, Before, After, IsBefore, IsAfter
<1> QED BY <1>1, Invariance, PTL

(* Every answer's tokens belong to the sequence and the position at which  *)
(* the engine appends them, over preemption, recomputation, late answers   *)
(* and reused slots.                                                       *)
THEOREM StreamsExact == Spec => []StreamExact
<1>1. IInv => StreamExact
  BY DEF IInv, SInv, Exact, Received, StreamExact
<1> QED BY <1>1, Invariance, PTL
=============================================================================
