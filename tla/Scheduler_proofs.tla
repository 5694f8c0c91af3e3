-------------------------- MODULE Scheduler_proofs --------------------------
(***************************************************************************)
(* Theorems about Scheduler, for any requests, blocks, lengths and limits. *)
(* The first part is about the operators the model is built from: how      *)
(* often a request occurs in a sequence, the sorted sequence of a set, the *)
(* number of blocks for a number of tokens, the blocks held in tables.     *)
(***************************************************************************)
EXTENDS Scheduler, FiniteSetTheorems, FunctionTheorems, SequenceTheorems, TLAPS

(* How often r occurs in s. *)
Occ(r, s) == Cardinality({i \in DOMAIN s : s[i] = r})
One(b) == IF b THEN 1 ELSE 0

LEMMA OccType ==
  ASSUME NEW C, NEW r, NEW s \in Seq(C)
  PROVE  Occ(r, s) \in Nat /\ IsFiniteSet({i \in DOMAIN s : s[i] = r})
<1>1. DOMAIN s = 1..Len(s) /\ Len(s) \in Nat
  OBVIOUS
<1>2. IsFiniteSet(1..Len(s))
  BY <1>1, FS_Interval
<1>3. {i \in DOMAIN s : s[i] = r} \in SUBSET (1..Len(s))
  BY <1>1
<1>4. IsFiniteSet({i \in DOMAIN s : s[i] = r})
  BY <1>2, <1>3, FS_Subset
<1> QED
  BY <1>4, FS_CardinalityType DEF Occ

LEMMA OccEmpty ==
  ASSUME NEW r
  PROVE  Occ(r, <<>>) = 0
<1>1. {i \in DOMAIN <<>> : <<>>[i] = r} = {}
  OBVIOUS
<1> QED
  BY <1>1, FS_EmptySet DEF Occ

(* Occurrences are the positions; moved by n they are as many.             *)
LEMMA ShiftedCardinality ==
  ASSUME NEW I \in SUBSET Nat, IsFiniteSet(I), NEW n \in Nat
  PROVE  IsFiniteSet({i + n : i \in I}) /\ Cardinality({i + n : i \in I}) = Cardinality(I)
<1> DEFINE J == {i + n : i \in I}
           f == [i \in I |-> i + n]
<1>1. f \in [I -> J]
  OBVIOUS
<1>2. \A a, b \in I : f[a] = f[b] => a = b
  OBVIOUS
<1>3. \A t \in J : \E s \in I : f[s] = t
  OBVIOUS
<1>4. f \in Bijection(I, J)
  BY <1>1, <1>2, <1>3, Fun_IsBij
<1>5. ExistsBijection(I, J)
  BY <1>4 DEF ExistsBijection
<1> QED
  BY <1>5, FS_Bijection

LEMMA OccConcat ==
  ASSUME NEW C, NEW r, NEW s \in Seq(C), NEW t \in Seq(C)
  PROVE  s \o t \in Seq(C) /\ Occ(r, s \o t) = Occ(r, s) + Occ(r, t)
<1> DEFINE I == {i \in DOMAIN s : s[i] = r}
           J == {i \in DOMAIN t : t[i] = r}
           K == {j + Len(s) : j \in J}
<1>1. /\ s \o t \in Seq(C) /\ Len(s \o t) = Len(s) + Len(t)
      /\ \A i \in 1 .. Len(s) + Len(t) :
           (s \o t)[i] = IF i <= Len(s) THEN s[i] ELSE t[i - Len(s)]
  BY ConcatProperties
<1>2. /\ Len(s) \in Nat /\ Len(t) \in Nat /\ DOMAIN s = 1..Len(s) /\ DOMAIN t = 1..Len(t)
      /\ DOMAIN (s \o t) = 1..Len(s) + Len(t)
  BY <1>1
<1>3. IsFiniteSet(I) /\ IsFiniteSet(J)
  BY OccType
<1>4. IsFiniteSet(K) /\ Cardinality(K) = Cardinality(J)
  <2>1. J \in SUBSET Nat
    BY <1>2
  <2> HIDE DEF J
  <2> QED BY <1>2, <1>3, <2>1, ShiftedCardinality
<1>5. {i \in DOMAIN (s \o t) : (s \o t)[i] = r} = I \cup K
  <2>1. ASSUME NEW i \in DOMAIN (s \o t), (s \o t)[i] = r
        PROVE  i \in I \cup K
    <3>1. CASE i <= Len(s)
      BY <1>1, <1>2, <2>1, <3>1
    <3>2. CASE ~(i <= Len(s))
      <4>1. i - Len(s) \in J
        BY <1>1, <1>2, <2>1, <3>2
      <4>2. i = (i - Len(s)) + Len(s)
        BY <1>2
      <4> QED BY <4>1, <4>2
    <3> QED BY <3>1, <3>2
  <2>2. ASSUME NEW i \in I
        PROVE  i \in DOMAIN (s \o t) /\ (s \o t)[i] = r
    BY <1>1, <1>2
  <2>3. ASSUME NEW j \in J
        PROVE  j + Len(s) \in DOMAIN (s \o t) /\ (s \o t)[j + Len(s)] = r
    <3>1. j \in 1..Len(t) /\ j + Len(s) \in 1..Len(s) + Len(t) /\ ~(j + Len(s) <= Len(s))
      BY <1>2
    <3>2. (j + Len(s)) - Len(s) = j
      BY <1>2
    <3> QED BY <3>1, <3>2, <1>1, <1>2
  <2> QED BY <2>1, <2>2, <2>3
<1>6. I \cap K = {}
  BY <1>2
<1>7. Cardinality(I \cup K) = Cardinality(I) + Cardinality(K) - Cardinality(I \cap K)
  BY <1>3, <1>4, FS_Union
<1>8. Cardinality(I \cap K) = 0
  BY <1>6, FS_EmptySet
<1>9. Cardinality(I) \in Nat /\ Cardinality(K) \in Nat
  BY <1>3, <1>4, FS_CardinalityType
<1>10. Occ(r, s \o t) = Cardinality(I \cup K) /\ Occ(r, s) = Cardinality(I) /\ Occ(r, t) = Cardinality(J)
  BY <1>5 DEF Occ
<1> HIDE DEF I, J, K
<1> QED
  BY <1>1, <1>4, <1>7, <1>8, <1>9, <1>10

LEMMA OccConcat3 ==
  ASSUME NEW C, NEW r, NEW a \in Seq(C), NEW b \in Seq(C), NEW c \in Seq(C)
  PROVE  a \o b \o c \in Seq(C) /\ Occ(r, a \o b \o c) = Occ(r, a) + Occ(r, b) + Occ(r, c)
<1> DEFINE d == a \o b
<1>1. d \in Seq(C) /\ Occ(r, d) = Occ(r, a) + Occ(r, b)
  BY OccConcat
<1> HIDE DEF d
<1>2. d \o c \in Seq(C) /\ Occ(r, d \o c) = Occ(r, d) + Occ(r, c)
  BY <1>1, OccConcat
<1> QED
  BY <1>1, <1>2 DEF d

LEMMA OccConcat4 ==
  ASSUME NEW C, NEW r, NEW a \in Seq(C), NEW b \in Seq(C), NEW c \in Seq(C), NEW e \in Seq(C)
  PROVE  /\ a \o b \o c \o e \in Seq(C)
         /\ Occ(r, a \o b \o c \o e) = Occ(r, a) + Occ(r, b) + Occ(r, c) + Occ(r, e)
<1> DEFINE d == a \o b \o c
<1>1. d \in Seq(C) /\ Occ(r, d) = Occ(r, a) + Occ(r, b) + Occ(r, c)
  BY OccConcat3
<1> HIDE DEF d
<1>2. d \o e \in Seq(C) /\ Occ(r, d \o e) = Occ(r, d) + Occ(r, e)
  BY <1>1, OccConcat
<1> QED
  BY <1>1, <1>2 DEF d

LEMMA OccSingle ==
  ASSUME NEW r, NEW x
  PROVE  Occ(r, <<x>>) = One(x = r)
<1>1. DOMAIN <<x>> = {1} /\ <<x>>[1] = x
  OBVIOUS
<1>2. CASE x = r
  <2>1. {i \in DOMAIN <<x>> : <<x>>[i] = r} = {1}
    BY <1>1, <1>2
  <2> QED BY <2>1, <1>2, FS_Singleton DEF Occ, One
<1>3. CASE x # r
  <2>1. {i \in DOMAIN <<x>> : <<x>>[i] = r} = {}
    BY <1>1, <1>3
  <2> QED BY <2>1, <1>3, FS_EmptySet DEF Occ, One
<1> QED BY <1>2, <1>3

LEMMA OccAppend ==
  ASSUME NEW C, NEW r, NEW s \in Seq(C), NEW x \in C
  PROVE  Append(s, x) \in Seq(C) /\ Occ(r, Append(s, x)) = Occ(r, s) + One(x = r)
<1> DEFINE t == <<x>>
<1>1. Append(s, x) = s \o t /\ t \in Seq(C)
  BY AppendIsConcat
<1>2. Occ(r, t) = One(x = r)
  BY OccSingle
<1> HIDE DEF t
<1> QED
  BY <1>1, <1>2, OccConcat

LEMMA OccTail ==
  ASSUME NEW C, NEW r, NEW s \in Seq(C), s # <<>>
  PROVE  /\ Head(s) \in C /\ Tail(s) \in Seq(C)
         /\ Occ(r, s) = Occ(r, Tail(s)) + One(Head(s) = r)
<1>1. Head(s) \in C /\ Tail(s) \in Seq(C)
  BY HeadTailProperties
<1>2. s = <<Head(s)>> \o Tail(s) /\ <<Head(s)>> \in Seq(C)
  <2>1. Len(s) \in Nat \ {0}
    BY EmptySeq
  <2>2. SubSeq(s, 1, Len(s)) = <<s[1]>> \o SubSeq(s, 2, Len(s))
    BY <2>1, SubSeqRecursiveFirst
  <2>3. SubSeq(s, 1, Len(s)) = s /\ Tail(s) = SubSeq(s, 2, Len(s))
    BY SubSeqFull, TailIsSubSeq
  <2>4. Head(s) = s[1]
    OBVIOUS
  <2> QED BY <1>1, <2>2, <2>3, <2>4
<1>3. Occ(r, s) = Occ(r, <<Head(s)>>) + Occ(r, Tail(s))
  <2> DEFINE t == <<Head(s)>>
             u == Tail(s)
  <2>1. t \in Seq(C) /\ u \in Seq(C)
    BY <1>1
  <2>2. s = t \o u
    BY <1>2
  <2> HIDE DEF t, u
  <2>3. Occ(r, t \o u) = Occ(r, t) + Occ(r, u)
    BY <2>1, OccConcat
  <2> QED BY <2>2, <2>3 DEF t, u
<1>4. Occ(r, Tail(s)) \in Nat
  BY <1>1, OccType
<1> QED
  BY <1>1, <1>3, <1>4, OccSingle DEF One

LEMMA OccFront ==
  ASSUME NEW C, NEW r, NEW s \in Seq(C), s # <<>>
  PROVE  /\ Last(s) \in C /\ Front(s) \in Seq(C)
         /\ Occ(r, s) = Occ(r, Front(s)) + One(Last(s) = r)
<1>1. Len(s) \in Nat \ {0}
  BY EmptySeq
<1>2. Last(s) \in C
  BY <1>1 DEF Last
<1>3. Front(s) \in Seq(C)
  BY <1>1, SubSeqProperties DEF Front
<1>4. s = Front(s) \o <<Last(s)>> /\ <<Last(s)>> \in Seq(C)
  <2>1. SubSeq(s, 1, Len(s)) = SubSeq(s, 1, Len(s) - 1) \o <<s[Len(s)]>>
    BY <1>1, SubSeqRecursiveSecond
  <2>2. SubSeq(s, 1, Len(s)) = s
    BY SubSeqFull
  <2>3. <<Last(s)>> \in Seq(C)
    BY <1>2
  <2> QED BY <2>1, <2>2, <2>3, Zenon DEF Front, Last
<1>5. Occ(r, s) = Occ(r, Front(s)) + Occ(r, <<Last(s)>>)
  <2> DEFINE t == <<Last(s)>>
  <2>0. t \in Seq(C)
    BY <1>4
  <2>1. s = Front(s) \o t
    BY <1>4
  <2> HIDE DEF t
  <2>2. Occ(r, Front(s) \o t) = Occ(r, Front(s)) + Occ(r, t)
    BY <1>3, <2>0, OccConcat
  <2> QED BY <2>1, <2>2 DEF t
<1> QED
  BY <1>2, <1>3, <1>5, OccSingle

LEMMA OccMember ==
  ASSUME NEW C, NEW r, NEW s \in Seq(C)
  PROVE  (Occ(r, s) # 0) <=> (r \in ToSet(s))
<1>1. IsFiniteSet({i \in DOMAIN s : s[i] = r})
  BY OccType
<1>2. Occ(r, s) = 0 <=> {i \in DOMAIN s : s[i] = r} = {}
  BY <1>1, FS_EmptySet DEF Occ
<1> QED
  BY <1>2 DEF ToSet
-----------------------------------------------------------------------------
(* A nonempty set of naturals has a least element.  The library's induction*)
(* theorems take an operator, which the provers cannot instantiate; a      *)
(* least counterexample takes their place.                                 *)
LEMMA LeastExists ==
  ASSUME NEW I \in SUBSET Nat, I # {}
  PROVE  \E x \in I : \A y \in I : x <= y
<1> DEFINE Rel == {ss \in Nat \X Nat : ss[1] < ss[2]}
<1>1. IsWellFoundedOn(Rel, Nat)
  BY NatLessThanWellFounded, Zenon DEF OpToRel
<1>2. \A x, y \in Nat : y < x => <<y, x>> \in Rel
  OBVIOUS
<1> HIDE DEF Rel
<1>3. I \subseteq Nat
  OBVIOUS
<1>4. PICK x \in I : \A y \in I : ~(<<y, x>> \in Rel)
  BY <1>1, <1>3, WFMin, Zenon
<1>5. ASSUME NEW y \in I
      PROVE  x <= y
  <2>1. ~(y < x)
    BY <1>2, <1>3, <1>4
  <2> QED BY <2>1, <1>3
<1> QED
  BY <1>4, <1>5

Sorted(S, q) ==
  /\ q \in [1..Cardinality(S) -> S]
  /\ \A i, j \in DOMAIN q : i < j => q[i] < q[j]

(* A sorted sequence of a set without its least element m, with m in front.*)
LEMMA SortedExtends ==
  ASSUME NEW S \in SUBSET Nat, IsFiniteSet(S), NEW m \in S, \A y \in S : m <= y,
         NEW p, Sorted(S \ {m}, p)
  PROVE  \E q : Sorted(S, q)
<1> DEFINE n == Cardinality(S)
           q == [i \in 1..n |-> IF i = 1 THEN m ELSE p[i - 1]]
<1>1. n \in Nat /\ Cardinality(S \ {m}) = n - 1 /\ n # 0
  BY FS_RemoveElement, FS_CardinalityType, FS_EmptySet
<1> HIDE DEF n
<1>2. p \in [1..(n - 1) -> S \ {m}] /\ \A i, j \in 1..(n - 1) : i < j => p[i] < p[j]
  BY <1>1 DEF Sorted
<1>3. ASSUME NEW i \in 1..n
      PROVE  q[i] \in S
  BY <1>1, <1>2
<1>4. ASSUME NEW i \in 1..n, NEW j \in 1..n, i < j
      PROVE  q[i] < q[j]
  <2>1. j - 1 \in 1..(n - 1) /\ j # 1 /\ p[j - 1] \in S \ {m}
    BY <1>1, <1>2, <1>4
  <2>2. CASE i = 1
    <3>1. q[i] = m /\ q[j] = p[j - 1]
      BY <2>1, <2>2
    <3>2. m \in Nat /\ p[j - 1] \in Nat /\ m <= p[j - 1] /\ m # p[j - 1]
      BY <2>1
    <3> QED BY <3>1, <3>2
  <2>3. CASE i # 1
    <3>1. i - 1 \in 1..(n - 1) /\ i - 1 < j - 1
      BY <1>1, <1>4, <2>3
    <3> QED BY <3>1, <2>1, <2>3, <1>2
  <2> QED BY <2>2, <2>3
<1>5. q \in [1..n -> S] /\ DOMAIN q = 1..n
  BY <1>3
<1> HIDE DEF q
<1>6. Sorted(S, q)
  BY <1>4, <1>5 DEF Sorted, n
<1> QED
  BY <1>6

LEMMA SortedExists ==
  ASSUME NEW S \in SUBSET Nat, IsFiniteSet(S)
  PROVE  \E q : Sorted(S, q)
<1> DEFINE P(n) == \A T \in SUBSET Nat : IsFiniteSet(T) /\ Cardinality(T) = n => \E q : Sorted(T, q)
           Bad == {n \in Nat : ~ P(n)}
<1>1. P(0)
  <2> SUFFICES ASSUME NEW T \in SUBSET Nat, IsFiniteSet(T), Cardinality(T) = 0
               PROVE  \E q : Sorted(T, q)
    OBVIOUS
  <2>1. <<>> \in [1..0 -> T] /\ DOMAIN <<>> = {}
    OBVIOUS
  <2>2. Sorted(T, <<>>)
    BY <2>1 DEF Sorted
  <2> QED BY <2>2
<1>2. ASSUME NEW n \in Nat, P(n)
      PROVE  P(n + 1)
  <2> SUFFICES ASSUME NEW T \in SUBSET Nat, IsFiniteSet(T), Cardinality(T) = n + 1
               PROVE  \E q : Sorted(T, q)
    OBVIOUS
  <2>1. T # {}
    BY FS_EmptySet
  <2>2. PICK m \in T : \A y \in T : m <= y
    BY <2>1, LeastExists
  <2>3. IsFiniteSet(T \ {m}) /\ Cardinality(T \ {m}) = n
    <3>1. Cardinality(T \ {m}) = Cardinality(T) - 1
      BY <2>2, FS_RemoveElement
    <3> QED BY <3>1, FS_RemoveElement
  <2>4. PICK p : Sorted(T \ {m}, p)
    BY <2>3, <1>2
  <2> QED BY <2>2, <2>4, SortedExtends
<1> HIDE DEF P
<1>3. Bad = {}
  <2> SUFFICES ASSUME Bad # {} PROVE FALSE
    OBVIOUS
  <2>1. PICK k \in Bad : \A j \in Bad : k <= j
    BY LeastExists
  <2>2. k # 0 /\ k \in Nat
    BY <2>1, <1>1
  <2>3. k - 1 \in Nat /\ k - 1 \notin Bad /\ (k - 1) + 1 = k
    BY <2>1, <2>2
  <2>4. P(k)
    BY <2>3, <1>2
  <2> QED BY <2>1, <2>4
<1>4. Cardinality(S) \in Nat
  BY FS_CardinalityType
<1>5. P(Cardinality(S))
  BY <1>3, <1>4
<1> QED
  BY <1>5 DEF P

(* SortedBySeqId has every member of the set once, and no other request.   *)
LEMMA SortedBySeqIdProperties ==
  ASSUME NEW S \in SUBSET Reqs
  PROVE  /\ SortedBySeqId(S) \in Seq(Reqs)
         /\ \A i, j \in DOMAIN SortedBySeqId(S) : i < j => SortedBySeqId(S)[i] < SortedBySeqId(S)[j]
         /\ \A r : Occ(r, SortedBySeqId(S)) = One(r \in S)
<1> DEFINE q == SortedBySeqId(S)
           n == Cardinality(S)
<1>1. S \in SUBSET Nat /\ IsFiniteSet(S)
  BY SchedulerAssumption, FS_Subset
<1>2. n \in Nat
  BY <1>1, FS_CardinalityType
<1>3. Sorted(S, q)
  <2>1. \E p \in [1..n -> S] : \A i, j \in DOMAIN p : i < j => p[i] < p[j]
    BY <1>1, SortedExists DEF Sorted
  <2> QED BY <2>1 DEF Sorted, SortedBySeqId
<1> HIDE DEF q
<1>4. q \in [1..n -> S] /\ DOMAIN q = 1..n
  BY <1>3 DEF Sorted
<1>5. \A i, j \in 1..n : i < j => q[i] < q[j]
  BY <1>3, <1>4 DEF Sorted
<1> HIDE DEF n
<1>6. \A i, j \in 1..n : q[i] = q[j] => i = j
  <2> SUFFICES ASSUME NEW i \in 1..n, NEW j \in 1..n, q[i] = q[j]
               PROVE  i = j
    OBVIOUS
  <2>1. q[i] \in Nat
    BY <1>1, <1>4
  <2>2. ~(i < j) /\ ~(j < i)
    BY <1>5, <2>1
  <2> QED BY <1>2, <2>2
<1>7. q \in Injection(1..n, S)
  BY <1>4, <1>6, Fun_IsInj
<1>8. Cardinality(1..n) = Cardinality(S) /\ IsFiniteSet(1..n)
  BY <1>2, FS_Interval DEF n
<1>9. q \in Surjection(1..n, S)
  BY <1>1, <1>7, <1>8, FS_Injection
<1>10. \A r \in S : \E i \in 1..n : q[i] = r
  BY <1>9 DEF Surjection
<1>11. q \in Seq(Reqs)
  <2>1. q \in [1..n -> Reqs]
    BY <1>4
  <2> QED BY <1>2, <2>1
<1>12. ASSUME NEW r
       PROVE  Occ(r, q) = One(r \in S)
  <2>1. CASE r \in S
    <3>1. PICK i \in 1..n : q[i] = r
      BY <2>1, <1>10
    <3>2. {j \in DOMAIN q : q[j] = r} = {i}
      BY <3>1, <1>4, <1>6
    <3> QED BY <3>2, <2>1, FS_Singleton DEF Occ, One
  <2>2. CASE r \notin S
    <3>1. {j \in DOMAIN q : q[j] = r} = {}
      BY <2>2, <1>4
    <3> QED BY <3>1, <2>2, FS_EmptySet DEF Occ, One
  <2> QED BY <2>1, <2>2
<1> QED
  BY <1>4, <1>5, <1>11, <1>12 DEF q
-----------------------------------------------------------------------------
(* BlocksFor(n) is the least number of blocks that hold n tokens.          *)
LEMMA BlocksForProperties ==
  ASSUME NEW n \in Nat
  PROVE  /\ BlocksFor(n) \in Nat
         /\ n <= BlocksFor(n) * cacheBlockSize
         /\ \A k \in Nat : n <= k * cacheBlockSize => BlocksFor(n) <= k
<1> DEFINE b == cacheBlockSize
           q == (n + b - 1) \div b
<1>1. b \in Nat /\ b > 0
  BY SchedulerAssumption
<1> HIDE DEF b
<1>2. q \in Int /\ q * b <= n + b - 1 /\ n + b - 1 < (q + 1) * b
  BY <1>1
<1> HIDE DEF q
<1>3. (q + 1) * b = q * b + b /\ q * b \in Int
  BY <1>1, <1>2
<1>4. n <= q * b
  BY <1>1, <1>2, <1>3
<1>5. q >= 0
  <2> SUFFICES ASSUME q <= -1 PROVE FALSE
    BY <1>2
  <2>1. q * b <= (-1) * b
    BY <1>1, <1>2
  <2> QED BY <2>1, <1>1, <1>3, <1>4
<1>6. ASSUME NEW k \in Nat, n <= k * b
      PROVE  q <= k
  <2> SUFFICES ASSUME k + 1 <= q PROVE FALSE
    BY <1>2
  <2>1. (k + 1) * b <= q * b
    BY <1>1, <1>2
  <2>2. (k + 1) * b = k * b + b /\ k * b \in Int
    BY <1>1
  <2> QED BY <2>1, <2>2, <1>1, <1>2, <1>3, <1>6
<1> QED
  BY <1>2, <1>4, <1>5, <1>6 DEF BlocksFor, CeilDiv, q, b
-----------------------------------------------------------------------------
(* BlocksHeld for a status function sf and a table function tf: what a     *)
(* step changes are these functions.                                       *)
Held(sf, tf, st, S) == UNION {{r} \X (1..BlocksFor(tf[r])) : r \in {q \in S : sf[q] = st}}
NumHeld(sf, tf, st, S) == Cardinality(Held(sf, tf, st, S))
Own(sf, tf, st, r) == IF sf[r] = st THEN BlocksFor(tf[r]) ELSE 0

LEMMA HeldOne ==
  ASSUME NEW sf, NEW tf, NEW st, NEW r, tf[r] \in Nat
  PROVE  /\ IsFiniteSet(Held(sf, tf, st, {r}))
         /\ NumHeld(sf, tf, st, {r}) = Own(sf, tf, st, r)
<1>1. BlocksFor(tf[r]) \in Nat
  BY BlocksForProperties
<1>2. CASE sf[r] = st
  <2>1. Held(sf, tf, st, {r}) = {r} \X (1..BlocksFor(tf[r]))
    BY <1>2 DEF Held
  <2>2. IsFiniteSet({r}) /\ Cardinality({r}) = 1
    BY FS_Singleton
  <2>3. IsFiniteSet(1..BlocksFor(tf[r])) /\ Cardinality(1..BlocksFor(tf[r])) = BlocksFor(tf[r])
    BY <1>1, FS_Interval
  <2> DEFINE I == 1..BlocksFor(tf[r])
  <2> HIDE DEF I
  <2>4. IsFiniteSet({r} \X I) /\ Cardinality({r} \X I) = 1 * Cardinality(I)
    BY <2>2, <2>3, FS_Product DEF I
  <2>5. Cardinality(I) = BlocksFor(tf[r]) /\ Held(sf, tf, st, {r}) = {r} \X I
    BY <2>1, <2>3 DEF I
  <2> QED BY <1>1, <1>2, <2>4, <2>5 DEF NumHeld, Own
<1>3. CASE sf[r] # st
  <2>1. Held(sf, tf, st, {r}) = {}
    BY <1>3 DEF Held
  <2> QED BY <1>3, <2>1, FS_EmptySet DEF NumHeld, Own
<1> QED BY <1>2, <1>3

LEMMA HeldFinite ==
  ASSUME NEW S, IsFiniteSet(S), NEW sf, NEW tf, NEW st, \A r \in S : tf[r] \in Nat
  PROVE  IsFiniteSet(Held(sf, tf, st, S)) /\ NumHeld(sf, tf, st, S) \in Nat
<1> DEFINE Q == {q \in S : sf[q] = st}
           f == [r \in Q |-> {r} \X (1..BlocksFor(tf[r]))]
           T == {{r} \X (1..BlocksFor(tf[r])) : r \in Q}
<1>1. IsFiniteSet(Q)
  BY FS_Subset
<1>2. f \in [Q -> T] /\ \A t \in T : \E r \in Q : f[r] = t
  OBVIOUS
<1>3. f \in Surjection(Q, T)
  BY <1>2, Fun_IsSurj
<1>4. IsFiniteSet(T)
  BY <1>1, <1>3, FS_Surjection
<1>5. ASSUME NEW t \in T
      PROVE  IsFiniteSet(t)
  <2>1. PICK r \in Q : t = {r} \X (1..BlocksFor(tf[r]))
    OBVIOUS
  <2>2. IsFiniteSet({r}) /\ IsFiniteSet(1..BlocksFor(tf[r]))
    <3>1. BlocksFor(tf[r]) \in Nat
      BY BlocksForProperties
    <3>2. IsFiniteSet(1..BlocksFor(tf[r]))
      BY <3>1, FS_Interval
    <3> QED BY <3>2, FS_Singleton
  <2> QED BY <2>1, <2>2, FS_Product
<1>6. IsFiniteSet(UNION T)
  BY <1>4, <1>5, FS_UNION
<1>7. Held(sf, tf, st, S) = UNION T
  BY DEF Held
<1> QED
  BY <1>6, <1>7, FS_CardinalityType DEF NumHeld

LEMMA HeldSplit ==
  ASSUME NEW S, IsFiniteSet(S), NEW T \in SUBSET S,
         NEW sf, NEW tf, NEW st, \A r \in S : tf[r] \in Nat
  PROVE  NumHeld(sf, tf, st, S) = NumHeld(sf, tf, st, T) + NumHeld(sf, tf, st, S \ T)
<1> DEFINE A == Held(sf, tf, st, T)
           B == Held(sf, tf, st, S \ T)
<1>1. IsFiniteSet(T) /\ IsFiniteSet(S \ T)
  BY FS_Subset
<1>2. /\ IsFiniteSet(A) /\ Cardinality(A) \in Nat
      /\ IsFiniteSet(B) /\ Cardinality(B) \in Nat
  BY <1>1, HeldFinite DEF NumHeld
<1>3. Held(sf, tf, st, S) = A \cup B
  BY DEF Held
<1>4. A \cap B = {}
  BY DEF Held
<1> HIDE DEF A, B
<1>5. Cardinality(A \cup B) = Cardinality(A) + Cardinality(B) - Cardinality(A \cap B)
  BY <1>2, FS_Union
<1>6. Cardinality(A \cap B) = 0
  BY <1>4, FS_EmptySet
<1> QED
  BY <1>2, <1>3, <1>5, <1>6 DEF NumHeld, A, B

LEMMA HeldSame ==
  ASSUME NEW S, NEW sf, NEW tf, NEW sg, NEW tg, NEW st,
         \A r \in S : sf[r] = sg[r] /\ tf[r] = tg[r]
  PROVE  NumHeld(sf, tf, st, S) = NumHeld(sg, tg, st, S)
<1>1. Held(sf, tf, st, S) = Held(sg, tg, st, S)
  BY DEF Held
<1> QED
  BY <1>1 DEF NumHeld

(* The change of one request.                                              *)
LEMMA HeldChange ==
  ASSUME NEW sf, NEW tf, NEW sg, NEW tg, NEW st, NEW r \in Reqs,
         \A q \in Reqs : tf[q] \in Nat /\ tg[q] \in Nat,
         \A q \in Reqs \ {r} : sf[q] = sg[q] /\ tf[q] = tg[q]
  PROVE  /\ NumHeld(sf, tf, st, Reqs) \in Nat /\ NumHeld(sg, tg, st, Reqs) \in Nat
         /\ NumHeld(sg, tg, st, Reqs)
              = NumHeld(sf, tf, st, Reqs) - Own(sf, tf, st, r) + Own(sg, tg, st, r)
         /\ Own(sf, tf, st, r) \in Nat /\ Own(sg, tg, st, r) \in Nat
<1>1. IsFiniteSet(Reqs) /\ {r} \in SUBSET Reqs /\ IsFiniteSet(Reqs \ {r})
  BY SchedulerAssumption, FS_Subset
<1>2. /\ NumHeld(sf, tf, st, Reqs) = NumHeld(sf, tf, st, {r}) + NumHeld(sf, tf, st, Reqs \ {r})
      /\ NumHeld(sg, tg, st, Reqs) = NumHeld(sg, tg, st, {r}) + NumHeld(sg, tg, st, Reqs \ {r})
  BY <1>1, HeldSplit
<1>3. /\ NumHeld(sf, tf, st, {r}) = Own(sf, tf, st, r)
      /\ NumHeld(sg, tg, st, {r}) = Own(sg, tg, st, r)
  BY HeldOne
<1>4. NumHeld(sf, tf, st, Reqs \ {r}) = NumHeld(sg, tg, st, Reqs \ {r})
  BY HeldSame
<1>5. /\ NumHeld(sf, tf, st, Reqs) \in Nat /\ NumHeld(sg, tg, st, Reqs) \in Nat
      /\ NumHeld(sf, tf, st, Reqs \ {r}) \in Nat
  BY <1>1, HeldFinite
<1>6. Own(sf, tf, st, r) \in Nat /\ Own(sg, tg, st, r) \in Nat
  BY BlocksForProperties DEF Own
<1> QED
  BY <1>2, <1>3, <1>4, <1>5, <1>6
-----------------------------------------------------------------------------
(* The inductive invariant.                                                *)

Rounds ==
  [mode : {"PREFILL_FIRST", "DECODE_FIRST"}, waiting : Seq(Reqs), recompute : Seq(Reqs),
   running : Seq(Reqs), swapped : Seq(Reqs), decode : Seq(Reqs), swappedIn : Seq(Reqs),
   prefill : Seq(Reqs), preempted : Seq(Reqs), swappedOut : Seq(Reqs), tokens : Nat]

Types ==
  /\ waiting \in Seq(Reqs) /\ running \in Seq(Reqs) /\ swapped \in Seq(Reqs)
  /\ status \in [Reqs -> {"NONE", "WAITING", "RUNNING", "SWAPPED", "FINISH"}]
  /\ len \in [Reqs -> Nat] /\ prompt \in [Reqs -> Nat] /\ table \in [Reqs -> Nat]
  /\ freeNpu \in Int /\ freeCpu \in Int
  /\ clock \in [Reqs -> 0..2]
  /\ finishedQueue \in SUBSET Reqs /\ abortedQueue \in SUBSET Reqs
  /\ finishedSeqIds \in SUBSET Reqs /\ abortedReqIds \in SUBSET Reqs
  /\ lastScheduleEmpty \in BOOLEAN /\ newRequestFirst \in BOOLEAN
  /\ pc \in {"idle", "dequeue", "running", "swapped", "waiting", "backfill"}
  /\ round \in Rounds
  /\ executing = NoBatch \/ executing \in [none : {FALSE}, seqs : SUBSET Reqs]

(* Where a request is, as a number of places.                              *)
InWaiting(r) == Occ(r, waiting) + Occ(r, round.waiting) + Occ(r, round.recompute) + Occ(r, round.preempted)
InRunning(r) ==
  Occ(r, running) + Occ(r, round.running) + Occ(r, round.decode) + Occ(r, round.swappedIn) + Occ(r, round.prefill)
InSwapped(r) == Occ(r, swapped) + Occ(r, round.swapped) + Occ(r, round.swappedOut)

Placed ==
  \A r \in Reqs : /\ InWaiting(r) = One(status[r] = "WAITING")
                  /\ InRunning(r) = One(status[r] = "RUNNING")
                  /\ InSwapped(r) = One(status[r] = "SWAPPED")

(* Lengths of the data: what is not live has none. *)
Lengths ==
  \A r \in Reqs : /\ table[r] <= len[r] /\ prompt[r] <= len[r]
                  /\ IF Live(r) THEN len[r] > 0 ELSE len[r] = 0
                  /\ table[r] > 0 <=> status[r] \in {"RUNNING", "SWAPPED"}

Conserved ==
  /\ freeNpu + NumHeld(status, table, "RUNNING", Reqs) = npuBlockNum /\ freeNpu >= 0
  /\ freeCpu + NumHeld(status, table, "SWAPPED", Reqs) = cpuBlockNum /\ freeCpu >= 0

(* A round has begun with no batch on the device and no report unread; a   *)
(* thread that is in no round holds no candidates.                         *)
Phases ==
  /\ pc = "idle" => round = EmptyRound
  /\ pc # "idle" => executing = NoBatch /\ finishedQueue = {}
  /\ pc # "dequeue" => round.recompute = <<>>

(* No candidate has ended: neither report set grows within a round.        *)
CandidatesAlive ==
  \A r \in Reqs : Ended(r) =>
    /\ Occ(r, round.waiting) = 0 /\ Occ(r, round.recompute) = 0 /\ Occ(r, round.preempted) = 0
    /\ Occ(r, round.running) = 0 /\ Occ(r, round.decode) = 0 /\ Occ(r, round.swappedIn) = 0
    /\ Occ(r, round.prefill) = 0 /\ Occ(r, round.swapped) = 0 /\ Occ(r, round.swappedOut) = 0

OnDevice(r) == executing # NoBatch /\ r \in executing.seqs

(* A sequence of full length is on the device for the last time, or it has *)
(* been reported.                                                          *)
FullIsReported ==
  \A r \in Reqs : Live(r) => /\ len[r] <= maxSeqLen
                             /\ len[r] = maxSeqLen => OnDevice(r) \/ r \in finishedQueue \cup finishedSeqIds

IInv ==
  /\ Types /\ Placed /\ Lengths /\ Conserved
  /\ Phases /\ CandidatesAlive /\ FullIsReported /\ EndedNotExecuted

LEMMA OccNat ==
  ASSUME Types, NEW r
  PROVE  /\ Occ(r, waiting) \in Nat /\ Occ(r, running) \in Nat /\ Occ(r, swapped) \in Nat
         /\ Occ(r, round.waiting) \in Nat /\ Occ(r, round.recompute) \in Nat
         /\ Occ(r, round.preempted) \in Nat /\ Occ(r, round.running) \in Nat
         /\ Occ(r, round.decode) \in Nat /\ Occ(r, round.swappedIn) \in Nat
         /\ Occ(r, round.prefill) \in Nat /\ Occ(r, round.swapped) \in Nat
         /\ Occ(r, round.swappedOut) \in Nat
  BY OccType DEF Types, Rounds

LEMMA EmptyRoundType ==
  /\ EmptyRound \in Rounds
  /\ \A m \in {"PREFILL_FIRST", "DECODE_FIRST"} : [EmptyRound EXCEPT !.mode = m] \in Rounds
<1>1. <<>> \in Seq(Reqs)
  OBVIOUS
<1>2. EmptyRound \in Rounds
  BY <1>1 DEF EmptyRound, Rounds
<1>3. ASSUME NEW q \in Rounds, NEW m \in {"PREFILL_FIRST", "DECODE_FIRST"}
      PROVE  [q EXCEPT !.mode = m] \in Rounds
  BY DEF Rounds
<1> QED
  BY <1>2, <1>3

LEMMA ConstantTypes ==
  /\ npuBlockNum \in Nat \ {0} /\ cpuBlockNum \in Nat /\ cacheBlockSize \in Nat \ {0}
  /\ maxSeqLen \in Nat \ {0} /\ Reqs \subseteq Nat /\ IsFiniteSet(Reqs)
  /\ maxSeqLen <= npuBlockNum * cacheBlockSize /\ Prompts \subseteq Nat \ {0}
  BY SchedulerAssumption

LEMMA InitIInv == Init => IInv
<1> SUFFICES ASSUME Init PROVE IInv
  OBVIOUS
<1>1. Types
  <2>1. waiting \in Seq(Reqs) /\ running \in Seq(Reqs) /\ swapped \in Seq(Reqs)
    BY DEF Init
  <2>2. /\ status \in [Reqs -> {"NONE", "WAITING", "RUNNING", "SWAPPED", "FINISH"}]
        /\ len \in [Reqs -> Nat] /\ prompt \in [Reqs -> Nat] /\ table \in [Reqs -> Nat]
        /\ clock \in [Reqs -> 0..2]
    BY DEF Init
  <2>3. freeNpu \in Int /\ freeCpu \in Int
    BY ConstantTypes DEF Init
  <2>4. lastScheduleEmpty \in BOOLEAN /\ newRequestFirst \in BOOLEAN
    BY DEF Init
  <2>5. round \in Rounds
    BY EmptyRoundType DEF Init
  <2> QED BY <2>1, <2>2, <2>3, <2>4, <2>5 DEF Init, Types
<1>2. Placed
  BY OccEmpty DEF Init, Placed, InWaiting, InRunning, InSwapped, EmptyRound, One
<1>3. Lengths
  BY DEF Init, Lengths, Live
<1>4. Conserved
  <2>1. Held(status, table, "RUNNING", Reqs) = {} /\ Held(status, table, "SWAPPED", Reqs) = {}
    BY DEF Init, Held
  <2>2. NumHeld(status, table, "RUNNING", Reqs) = 0 /\ NumHeld(status, table, "SWAPPED", Reqs) = 0
    BY <2>1, FS_EmptySet DEF NumHeld
  <2> QED BY <2>2, SchedulerAssumption DEF Init, Conserved
<1>5. Phases
  BY DEF Init, Phases, EmptyRound
<1>6. CandidatesAlive
  BY DEF Init, CandidatesAlive, Ended
<1>7. FullIsReported
  BY DEF Init, FullIsReported, Live
<1>8. EndedNotExecuted
  BY DEF Init, EndedNotExecuted
<1> QED
  BY <1>1, <1>2, <1>3, <1>4, <1>5, <1>6, <1>7, <1>8 DEF IInv

(* Where the queues, the lists of the round and the requests' data stay as *)
(* they are, so do the parts of the invariant that are about them.         *)
LEMMA PlacedFrame ==
  ASSUME IInv, UNCHANGED <<queueVars, status, round>>
  PROVE  Placed'
  BY DEF IInv, Placed, InWaiting, InRunning, InSwapped, queueVars

LEMMA DataFrame ==
  ASSUME IInv, UNCHANGED <<status, len, prompt, blockVars>>
  PROVE  Lengths' /\ Conserved'
  BY DEF IInv, Lengths, Conserved, blockVars, Live

(* Steps that move no request and no block.                                *)
LEMMA OthersKeep ==
  ASSUME IInv, NEW r \in Reqs, AbortRequest(r) \/ Wait(r)
  PROVE  IInv'
<1>1. UNCHANGED <<queueVars, status, round>> /\ UNCHANGED <<status, len, prompt, blockVars>>
  BY DEF AbortRequest, Wait, blockVars
<1>2. Placed' /\ Lengths' /\ Conserved'
  BY <1>1, PlacedFrame, DataFrame
<1>3. Types'
  <2>1. CASE AbortRequest(r)
    BY <2>1 DEF IInv, Types, AbortRequest, queueVars, blockVars, flagVars
  <2>2. CASE Wait(r)
    <3>1. clock[r] + 1 \in 0..2
      <4>1. clock[r] \in 0..2
        BY DEF IInv, Types
      <4>2. clock[r] < 2
        BY <2>2 DEF Wait
      <4> QED BY <4>1, <4>2
    <3>2. clock' \in [Reqs -> 0..2]
      BY <2>2, <3>1 DEF IInv, Types, Wait
    <3> QED BY <2>2, <3>2 DEF IInv, Types, Wait, queueVars, blockVars, reportVars, flagVars
  <2> QED BY <2>1, <2>2
<1>4. Phases' /\ CandidatesAlive' /\ FullIsReported' /\ EndedNotExecuted'
  BY DEF IInv, Phases, CandidatesAlive, FullIsReported, EndedNotExecuted, OnDevice, Ended, Live,
         AbortRequest, Wait, queueVars, blockVars, reportVars, flagVars
<1> QED
  BY <1>2, <1>3, <1>4 DEF IInv

LEMMA PhaseEndsKeep ==
  ASSUME IInv, RunningDone \/ SwappedDone \/ WaitingDone \/ UNCHANGED vars
  PROVE  IInv'
<1>1. UNCHANGED <<queueVars, status, round>> /\ UNCHANGED <<status, len, prompt, blockVars>>
  BY DEF RunningDone, SwappedDone, WaitingDone, vars, blockVars
<1>2. Placed' /\ Lengths' /\ Conserved'
  BY <1>1, PlacedFrame, DataFrame
<1>3. Types'
  BY DEF IInv, Types, RunningDone, SwappedDone, WaitingDone, vars, queueVars, blockVars, reportVars, flagVars
<1>4. Phases' /\ CandidatesAlive' /\ FullIsReported' /\ EndedNotExecuted'
  BY DEF IInv, Phases, CandidatesAlive, FullIsReported, EndedNotExecuted, OnDevice, Ended, Live,
         RunningDone, SwappedDone, WaitingDone, vars, queueVars, blockVars, reportVars, flagVars
<1> QED
  BY <1>2, <1>3, <1>4 DEF IInv

LEMMA RespondKeeps ==
  ASSUME IInv, Respond
  PROVE  IInv'
<1>1. UNCHANGED <<queueVars, status, round>> /\ UNCHANGED <<status, len, prompt, blockVars>>
  BY DEF Respond, blockVars
<1>2. Placed' /\ Lengths' /\ Conserved'
  BY <1>1, PlacedFrame, DataFrame
<1>3. PICK ended \in SUBSET executing.seqs :
        /\ {r \in executing.seqs : len[r] >= maxSeqLen} \subseteq ended
        /\ finishedQueue' = finishedQueue \cup ended
  BY DEF Respond
<1>4. executing.seqs \in SUBSET Reqs
  BY DEF IInv, Types, Respond
<1>5. Types'
  BY <1>3, <1>4 DEF IInv, Types, Respond, queueVars, blockVars, flagVars
<1>6. Phases' /\ CandidatesAlive' /\ EndedNotExecuted'
  BY DEF IInv, Phases, CandidatesAlive, EndedNotExecuted, Ended, Respond
<1>7. FullIsReported'
  BY <1>3, SchedulerAssumption DEF IInv, Types, FullIsReported, OnDevice, Live, Respond
<1> QED
  BY <1>2, <1>5, <1>6, <1>7 DEF IInv

LEMMA StartRoundKeeps ==
  ASSUME IInv, StartRound
  PROVE  IInv'
<1>1. UNCHANGED <<status, len, prompt, blockVars>>
  BY DEF StartRound, blockVars
<1>2. Lengths' /\ Conserved'
  BY <1>1, DataFrame
<1>3. DecidePDPriority \in {"PREFILL_FIRST", "DECODE_FIRST"}
  BY DEF DecidePDPriority
<1>4. round' \in Rounds
  BY <1>3, EmptyRoundType DEF StartRound
<1>5. Types'
  BY <1>4 DEF IInv, Types, StartRound, FetchReports, queueVars, blockVars, flagVars
<1>6. /\ round'.waiting = <<>> /\ round'.recompute = <<>> /\ round'.preempted = <<>>
      /\ round'.running = <<>> /\ round'.decode = <<>> /\ round'.swappedIn = <<>>
      /\ round'.prefill = <<>> /\ round'.swapped = <<>> /\ round'.swappedOut = <<>>
  BY DEF StartRound, EmptyRound
<1>7. round = EmptyRound
  BY DEF IInv, Phases, StartRound
<1>8. Placed'
  BY <1>6, <1>7 DEF IInv, Placed, InWaiting, InRunning, InSwapped, StartRound, queueVars, EmptyRound
<1>9. CandidatesAlive'
  BY <1>6, OccEmpty DEF CandidatesAlive
<1>10. Phases' /\ EndedNotExecuted'
  BY <1>6 DEF Phases, EndedNotExecuted, StartRound, FetchReports
<1>11. FullIsReported'
  BY DEF IInv, FullIsReported, OnDevice, Live, StartRound, FetchReports
<1> QED
  BY <1>2, <1>5, <1>8, <1>9, <1>10, <1>11 DEF IInv

(* A step that changes one request's status and table gives back what the  *)
(* request held and takes what it holds now.                               *)
LEMMA ConservedChange ==
  ASSUME Types, Conserved, NEW r \in Reqs, table' \in [Reqs -> Nat],
         \A q \in Reqs \ {r} : status'[q] = status[q] /\ table'[q] = table[q],
         freeNpu' = freeNpu + Own(status, table, "RUNNING", r) - Own(status', table', "RUNNING", r),
         freeCpu' = freeCpu + Own(status, table, "SWAPPED", r) - Own(status', table', "SWAPPED", r),
         freeNpu' >= 0, freeCpu' >= 0
  PROVE  Conserved'
<1>1. \A q \in Reqs : table[q] \in Nat /\ table'[q] \in Nat
  BY DEF Types
<1>2. /\ NumHeld(status, table, "RUNNING", Reqs) \in Nat
      /\ NumHeld(status', table', "RUNNING", Reqs)
           = NumHeld(status, table, "RUNNING", Reqs)
               - Own(status, table, "RUNNING", r) + Own(status', table', "RUNNING", r)
      /\ Own(status, table, "RUNNING", r) \in Nat /\ Own(status', table', "RUNNING", r) \in Nat
  BY <1>1, HeldChange
<1>3. /\ NumHeld(status, table, "SWAPPED", Reqs) \in Nat
      /\ NumHeld(status', table', "SWAPPED", Reqs)
           = NumHeld(status, table, "SWAPPED", Reqs)
               - Own(status, table, "SWAPPED", r) + Own(status', table', "SWAPPED", r)
      /\ Own(status, table, "SWAPPED", r) \in Nat /\ Own(status', table', "SWAPPED", r) \in Nat
  BY <1>1, HeldChange
<1>4. freeNpu \in Int /\ freeCpu \in Int
  BY DEF Types
<1> QED
  BY <1>2, <1>3, <1>4, ConstantTypes DEF Conserved

(* Two tables: the shorter one needs no more blocks.                       *)
LEMMA BlocksForMonotonic ==
  ASSUME NEW m \in Nat, NEW n \in Nat, m <= n
  PROVE  BlocksFor(m) \in Nat /\ BlocksFor(n) \in Nat /\ BlocksFor(m) <= BlocksFor(n)
<1>1. BlocksFor(m) \in Nat /\ BlocksFor(n) \in Nat /\ n <= BlocksFor(n) * cacheBlockSize
  BY BlocksForProperties
<1>2. m <= BlocksFor(n) * cacheBlockSize
  <2> DEFINE x == BlocksFor(n) * cacheBlockSize
  <2>1. x \in Int /\ n <= x
    BY <1>1, ConstantTypes
  <2> HIDE DEF x
  <2>2. m <= x
    BY <2>1
  <2> QED BY <2>2 DEF x
<1> QED
  BY <1>1, <1>2, BlocksForProperties

LEMMA AddRequestKeeps ==
  ASSUME IInv, NEW r \in Reqs, NEW n \in Prompts, AddRequest(r, n)
  PROVE  IInv'
<1>1. /\ status[r] = "NONE" /\ n \in Nat /\ n > 0 /\ n < maxSeqLen
      /\ len[r] = 0 /\ table[r] = 0
  BY ConstantTypes DEF AddRequest, CheckLength, IInv, Lengths, Live, Types
<1>2. /\ status' = [status EXCEPT ![r] = "WAITING"] /\ len' = [len EXCEPT ![r] = n]
      /\ prompt' = [prompt EXCEPT ![r] = n] /\ waiting' = Append(waiting, r)
      /\ UNCHANGED <<running, swapped, blockVars, clock, reportVars, flagVars, pc, round, executing>>
  BY DEF AddRequest
<1>3. Types'
  <2>1. waiting' \in Seq(Reqs)
    BY <1>2 DEF IInv, Types
  <2> QED BY <1>1, <1>2, <2>1 DEF IInv, Types, blockVars, reportVars, flagVars
<1>4. Placed'
  <2> SUFFICES ASSUME NEW q \in Reqs
               PROVE  /\ (InWaiting(q))' = One(status'[q] = "WAITING")
                      /\ (InRunning(q))' = One(status'[q] = "RUNNING")
                      /\ (InSwapped(q))' = One(status'[q] = "SWAPPED")
    BY DEF Placed
  <2>1. Occ(q, waiting') = Occ(q, waiting) + One(r = q)
    BY <1>2, OccAppend DEF IInv, Types
  <2>2. status'[q] = IF q = r THEN "WAITING" ELSE status[q]
    BY <1>2 DEF IInv, Types
  <2>3. /\ InWaiting(q) = One(status[q] = "WAITING")
        /\ InRunning(q) = One(status[q] = "RUNNING")
        /\ InSwapped(q) = One(status[q] = "SWAPPED")
    BY DEF IInv, Placed
  <2>4. UNCHANGED <<running, swapped, round>>
    BY <1>2
  <2>5. InWaiting(q)' = InWaiting(q) + One(r = q) /\ InRunning(q)' = InRunning(q) /\ InSwapped(q)' = InSwapped(q)
    BY <2>1, <2>4, OccNat DEF IInv, InWaiting, InRunning, InSwapped, One
  <2> QED BY <1>1, <2>2, <2>3, <2>5 DEF One
<1>5. Lengths'
  BY <1>1, <1>2 DEF IInv, Types, Lengths, Live, blockVars
<1>6. Conserved'
  <2>1. UNCHANGED <<table, freeNpu, freeCpu>>
    BY <1>2 DEF blockVars
  <2>2. /\ Own(status, table, "RUNNING", r) = 0 /\ Own(status, table, "SWAPPED", r) = 0
        /\ Own(status', table', "RUNNING", r) = 0 /\ Own(status', table', "SWAPPED", r) = 0
    BY <1>1, <1>2 DEF Own, IInv, Types
  <2>3. \A q \in Reqs \ {r} : status'[q] = status[q] /\ table'[q] = table[q]
    BY <1>2, <2>1 DEF IInv, Types
  <2>4. freeNpu \in Int /\ freeCpu \in Int /\ freeNpu >= 0 /\ freeCpu >= 0 /\ table' \in [Reqs -> Nat]
    BY <2>1 DEF IInv, Types, Conserved
  <2> QED BY <2>1, <2>2, <2>3, <2>4, ConservedChange DEF IInv
<1>7. Phases' /\ CandidatesAlive' /\ EndedNotExecuted'
  BY <1>2 DEF IInv, Phases, CandidatesAlive, EndedNotExecuted, Ended, reportVars
<1>8. FullIsReported'
  BY <1>1, <1>2, ConstantTypes DEF IInv, Types, FullIsReported, OnDevice, Live, reportVars
<1> QED
  BY <1>3, <1>4, <1>5, <1>6, <1>7, <1>8 DEF IInv

LEMMA ApplyPolicyKeeps ==
  ASSUME IInv, ApplyPolicy
  PROVE  IInv'
<1>1. UNCHANGED <<status, len, prompt, blockVars>>
  BY DEF ApplyPolicy, blockVars
<1>2. Lengths' /\ Conserved'
  BY <1>1, DataFrame
<1>3. round.waiting \in Seq(Reqs) /\ round.recompute \in Seq(Reqs) /\ round \in Rounds
  BY DEF IInv, Types, Rounds
<1>4. round.waiting \o round.recompute \in Seq(Reqs)
  BY <1>3, OccConcat
<1>5. round' \in Rounds
  <2>1. ASSUME NEW a \in Seq(Reqs), NEW b \in Seq(Reqs)
        PROVE  [round EXCEPT !.waiting = a, !.recompute = b] \in Rounds
    BY <1>3 DEF Rounds
  <2>2. <<>> \in Seq(Reqs)
    OBVIOUS
  <2> QED BY <1>4, <2>1, <2>2 DEF ApplyPolicy
<1>6. Types'
  BY <1>5 DEF IInv, Types, ApplyPolicy, queueVars, blockVars, reportVars, flagVars
<1>7. /\ round'.waiting = round.waiting \o round.recompute /\ round'.recompute = <<>>
      /\ round'.preempted = round.preempted
      /\ round'.running = round.running /\ round'.decode = round.decode
      /\ round'.swappedIn = round.swappedIn /\ round'.prefill = round.prefill
      /\ round'.swapped = round.swapped /\ round'.swappedOut = round.swappedOut
  BY <1>3 DEF ApplyPolicy, Rounds
<1>8. \A q : Occ(q, round'.waiting) = Occ(q, round.waiting) + Occ(q, round.recompute) /\ Occ(q, round'.recompute) = 0
  BY <1>3, <1>7, OccConcat, OccEmpty
<1>9. Placed'
  <2>1. UNCHANGED <<waiting, running, swapped, status>>
    BY DEF ApplyPolicy, queueVars
  <2>2. ASSUME NEW q \in Reqs
        PROVE  InWaiting(q)' = InWaiting(q) /\ InRunning(q)' = InRunning(q) /\ InSwapped(q)' = InSwapped(q)
    BY <2>1, <1>7, <1>8, OccNat DEF IInv, InWaiting, InRunning, InSwapped
  <2> QED BY <2>1, <2>2 DEF IInv, Placed
<1>10. CandidatesAlive'
  BY <1>7, <1>8 DEF IInv, CandidatesAlive, Ended, ApplyPolicy, reportVars
<1>11. Phases' /\ EndedNotExecuted' /\ FullIsReported'
  BY <1>7 DEF IInv, Phases, EndedNotExecuted, FullIsReported, OnDevice, Ended, Live, ApplyPolicy, reportVars
<1> QED
  BY <1>2, <1>6, <1>9, <1>10, <1>11 DEF IInv

(* A request that occurs among the running ones has that status, and so    *)
(* for the others.                                                         *)
LEMMA PlaceTellsStatus ==
  ASSUME IInv, NEW r \in Reqs
  PROVE  /\ InWaiting(r) # 0 => status[r] = "WAITING"
         /\ InRunning(r) # 0 => status[r] = "RUNNING"
         /\ InSwapped(r) # 0 => status[r] = "SWAPPED"
  BY DEF IInv, Placed, One

LEMMA HeadOccurs ==
  ASSUME NEW s \in Seq(Reqs), s # <<>>
  PROVE  /\ Head(s) \in Reqs /\ Tail(s) \in Seq(Reqs) /\ Occ(Head(s), s) # 0
         /\ Last(s) \in Reqs /\ Front(s) \in Seq(Reqs) /\ Occ(Last(s), s) # 0
<1>1. Head(s) \in Reqs /\ Tail(s) \in Seq(Reqs) /\ Last(s) \in Reqs /\ Front(s) \in Seq(Reqs)
  BY OccTail, OccFront
<1>2. Head(s) \in ToSet(s) /\ Last(s) \in ToSet(s)
  BY EmptySeq DEF ToSet, Last
<1> QED
  BY <1>1, <1>2, OccMember

LEMMA BlocksOf ==
  ASSUME IInv, NEW r \in Reqs
  PROVE  /\ len[r] \in Nat /\ table[r] \in Nat
         /\ BlocksFor(len[r]) \in Nat /\ BlocksFor(table[r]) \in Nat
         /\ BlocksFor(table[r]) <= BlocksFor(len[r])
         /\ freeNpu \in Nat /\ freeCpu \in Nat
<1>1. len[r] \in Nat /\ table[r] \in Nat /\ table[r] <= len[r]
  BY DEF IInv, Types, Lengths
<1>2. freeNpu \in Nat /\ freeCpu \in Nat
  BY DEF IInv, Types, Conserved
<1> QED
  BY <1>1, <1>2, BlocksForMonotonic

LEMMA AppendFrontKeeps ==
  ASSUME IInv, AppendFront
  PROVE  IInv'
<1> DEFINE r == Head(round.running)
<1>1. /\ pc = "running" /\ round.running # <<>> /\ round \in Rounds /\ round.running \in Seq(Reqs)
      /\ round.decode \in Seq(Reqs)
  BY DEF AppendFront, CanRunFront, IInv, Types, Rounds
<1>2. r \in Reqs /\ Tail(round.running) \in Seq(Reqs) /\ Occ(r, round.running) # 0
  BY <1>1, HeadOccurs
<1> HIDE DEF r
<1>3. InRunning(r) # 0
  BY <1>2, OccNat DEF IInv, InRunning
<1>4. status[r] = "RUNNING"
  BY <1>2, <1>3, PlaceTellsStatus
<1>5. Append(round.decode, r) \in Seq(Reqs)
  BY <1>1, <1>2, OccAppend
<1>6. /\ BlocksToAppend(r) <= freeNpu /\ freeNpu' = freeNpu - BlocksToAppend(r)
      /\ table' = [table EXCEPT ![r] = len[r]]
      /\ round' = [round EXCEPT !.running = Tail(@), !.decode = Append(@, r), !.tokens = @ + 1]
      /\ UNCHANGED <<waiting, running, swapped, status, len, prompt, freeCpu, clock, finishedQueue, abortedQueue,
                     finishedSeqIds, abortedReqIds, lastScheduleEmpty, newRequestFirst, pc, executing>>
  BY DEF AppendFront, r, queueVars, reportVars, flagVars
<1>7. round' \in Rounds
  <2>1. ASSUME NEW a \in Seq(Reqs), NEW b \in Seq(Reqs), NEW t \in Nat
        PROVE  [round EXCEPT !.running = a, !.decode = b, !.tokens = t] \in Rounds
    BY <1>1 DEF Rounds
  <2>2. round.tokens + 1 \in Nat
    BY <1>1 DEF Rounds
  <2> QED BY <1>2, <1>5, <1>6, <2>1, <2>2
<1>8. /\ round'.waiting = round.waiting /\ round'.recompute = round.recompute
      /\ round'.preempted = round.preempted
      /\ round'.running = Tail(round.running) /\ round'.decode = Append(round.decode, r)
      /\ round'.swappedIn = round.swappedIn /\ round'.prefill = round.prefill
      /\ round'.swapped = round.swapped /\ round'.swappedOut = round.swappedOut
  BY <1>1, <1>6 DEF Rounds
<1>9. ASSUME NEW q
      PROVE  /\ Occ(q, round.running) = Occ(q, round'.running) + One(r = q)
             /\ Occ(q, round'.decode) = Occ(q, round.decode) + One(r = q)
             /\ Occ(q, round'.running) \in Nat /\ Occ(q, round'.decode) \in Nat
  <2>1. Occ(q, round.running) = Occ(q, Tail(round.running)) + One(r = q)
    BY <1>1, OccTail DEF r
  <2>2. Occ(q, Append(round.decode, r)) = Occ(q, round.decode) + One(r = q)
    BY <1>1, <1>2, OccAppend
  <2> QED BY <1>2, <1>5, <1>8, <2>1, <2>2, OccType
<1>10. Types'
  <2>1. table' \in [Reqs -> Nat] /\ freeNpu' \in Int
    <3>1. BlocksToAppend(r) \in Int
      BY <1>2, BlocksOf DEF BlocksToAppend
    <3> QED BY <1>2, <1>6, <3>1 DEF IInv, Types
  <2> QED BY <1>6, <1>7, <2>1 DEF IInv, Types
<1>11. Placed'
  <2>1. ASSUME NEW q \in Reqs
        PROVE  InWaiting(q)' = InWaiting(q) /\ InRunning(q)' = InRunning(q) /\ InSwapped(q)' = InSwapped(q)
    <3>1. Occ(q, running) \in Nat /\ Occ(q, round.swappedIn) \in Nat /\ Occ(q, round.prefill) \in Nat
          /\ Occ(q, round.decode) \in Nat
      BY OccNat DEF IInv
    <3>2. One(r = q) \in Nat
      BY DEF One
    <3>3. Occ(q, round.running) + Occ(q, round.decode) = Occ(q, round'.running) + Occ(q, round'.decode)
      BY <1>9, <3>1, <3>2
    <3> QED BY <1>6, <1>8, <1>9, <3>1, <3>2, <3>3 DEF InWaiting, InRunning, InSwapped
  <2> QED BY <1>6, <2>1 DEF IInv, Placed
<1>12. Lengths'
  BY <1>2, <1>4, <1>6 DEF IInv, Types, Lengths, Live
<1>13. Conserved'
  <2>1. /\ Own(status, table, "RUNNING", r) = BlocksFor(table[r]) /\ Own(status, table, "SWAPPED", r) = 0
        /\ Own(status', table', "RUNNING", r) = BlocksFor(len[r]) /\ Own(status', table', "SWAPPED", r) = 0
    BY <1>2, <1>4, <1>6 DEF Own, IInv, Types
  <2>2. \A q \in Reqs \ {r} : status'[q] = status[q] /\ table'[q] = table[q]
    BY <1>6 DEF IInv, Types
  <2>3. BlocksFor(table[r]) \in Nat /\ BlocksFor(len[r]) \in Nat /\ freeNpu \in Nat /\ freeCpu \in Nat
    BY <1>2, BlocksOf
  <2>4. freeNpu' = freeNpu + BlocksFor(table[r]) - BlocksFor(len[r]) /\ freeNpu' >= 0
    BY <1>6, <2>3 DEF BlocksToAppend
  <2>5. /\ freeNpu' = freeNpu + Own(status, table, "RUNNING", r) - Own(status', table', "RUNNING", r)
        /\ freeCpu' = freeCpu + Own(status, table, "SWAPPED", r) - Own(status', table', "SWAPPED", r)
        /\ freeNpu' >= 0 /\ freeCpu' >= 0
    BY <1>6, <2>1, <2>3, <2>4
  <2>6. Types /\ Conserved /\ table' \in [Reqs -> Nat]
    BY <1>10 DEF IInv, Types
  <2> QED BY <1>2, <2>2, <2>5, <2>6, ConservedChange
<1>14. CandidatesAlive'
  <2> SUFFICES ASSUME NEW q \in Reqs, Ended(q)
               PROVE  Occ(q, round'.running) = 0 /\ Occ(q, round'.decode) = 0
    BY <1>6, <1>8 DEF IInv, CandidatesAlive, Ended
  <2>1. Occ(q, round.running) = 0 /\ Occ(q, round.decode) = 0
    BY DEF IInv, CandidatesAlive
  <2> QED BY <2>1, <1>9 DEF One
<1>15. Phases' /\ EndedNotExecuted' /\ FullIsReported'
  BY <1>1, <1>6, <1>8 DEF IInv, Phases, EndedNotExecuted, FullIsReported, OnDevice, Ended, Live
<1> QED
  BY <1>10, <1>11, <1>12, <1>13, <1>14, <1>15 DEF IInv

(* Sums of numbers of places, one of which changes by x.                   *)
LEMMA SumChange ==
  ASSUME NEW a \in Int, NEW b \in Int, NEW c \in Int, NEW d \in Int, NEW e \in Int, NEW x \in Int, NEW f
  PROVE  /\ f + x = b /\ f \in Int => a + f + c + d + e = a + b + c + d + e - x
         /\ a + b + c + (d + x) = a + b + c + d + x
         /\ a + b + c + d \in Int /\ a + b + c + d + e \in Int
  OBVIOUS

LEMMA PlaceChange ==
  ASSUME NEW a \in Nat, NEW b \in Nat, NEW c \in Nat, NEW d \in Nat, NEW e \in Nat, NEW x \in Nat, NEW f \in Nat
  PROVE  /\ f + x = b => /\ a + f + c + d = a + b + c + d - x /\ a + f + c = a + b + c - x
         /\ a + b + c + (d + x) + e = a + b + c + d + e + x
         /\ a + b + c + d + (e + x) = a + b + c + d + e + x
  OBVIOUS

(* What a request that changes its queue leaves to show: a place less in   *)
(* the old one and a place more in the new one.                            *)
LEMMA PlacedMove ==
  ASSUME IInv, NEW r \in Reqs, NEW st \in {"WAITING", "RUNNING", "SWAPPED"},
         status' = [status EXCEPT ![r] = st], Live(r), status[r] # st,
         \A q \in Reqs : /\ InWaiting(q)' = InWaiting(q) - One(r = q /\ status[r] = "WAITING")
                                            + One(r = q /\ st = "WAITING")
                        /\ InRunning(q)' = InRunning(q) - One(r = q /\ status[r] = "RUNNING")
                                            + One(r = q /\ st = "RUNNING")
                        /\ InSwapped(q)' = InSwapped(q) - One(r = q /\ status[r] = "SWAPPED")
                                            + One(r = q /\ st = "SWAPPED")
  PROVE  Placed'
<1> SUFFICES ASSUME NEW q \in Reqs
             PROVE  /\ (InWaiting(q))' = One(status'[q] = "WAITING")
                    /\ (InRunning(q))' = One(status'[q] = "RUNNING")
                    /\ (InSwapped(q))' = One(status'[q] = "SWAPPED")
  BY DEF Placed
<1>1. status'[q] = IF q = r THEN st ELSE status[q]
  BY DEF IInv, Types
<1>2. /\ InWaiting(q) = One(status[q] = "WAITING")
      /\ InRunning(q) = One(status[q] = "RUNNING")
      /\ InSwapped(q) = One(status[q] = "SWAPPED")
  BY DEF IInv, Placed
<1>3. CASE q = r
  BY <1>1, <1>2, <1>3 DEF One, Live
<1>4. CASE q # r
  BY <1>1, <1>2, <1>4 DEF One
<1> QED BY <1>3, <1>4

LEMMA PreemptKeeps ==
  ASSUME IInv, PreemptBySwap \/ PreemptByRecompute
  PROVE  IInv'
<1> DEFINE r == Victim
<1>1. /\ pc = "running" /\ round.running # <<>> /\ round \in Rounds /\ round.running \in Seq(Reqs)
      /\ round.swappedOut \in Seq(Reqs) /\ round.preempted \in Seq(Reqs)
  BY DEF PreemptBySwap, PreemptByRecompute, MustPreempt, CanRunFront, IInv, Types, Rounds
<1>2. r \in Reqs /\ Front(round.running) \in Seq(Reqs) /\ Occ(r, round.running) # 0
  BY <1>1, HeadOccurs DEF Victim
<1>3. ASSUME NEW q
      PROVE  Occ(q, round.running) = Occ(q, Front(round.running)) + One(r = q)
  <2> DEFINE s == round.running
  <2>1. s \in Seq(Reqs) /\ s # <<>>
    BY <1>1
  <2> HIDE DEF s
  <2>2. Occ(q, s) = Occ(q, Front(s)) + One(Last(s) = q)
    BY <2>1, OccFront DEF One
  <2> QED BY <2>2 DEF Victim, s
<1> HIDE DEF r
<1>4. status[r] = "RUNNING" /\ Live(r)
  <2>1. InRunning(r) # 0
    BY <1>2, OccNat DEF IInv, InRunning
  <2> QED BY <1>2, <2>1, PlaceTellsStatus DEF Live
<1>5. Append(round.swappedOut, r) \in Seq(Reqs) /\ Append(round.preempted, r) \in Seq(Reqs)
  BY <1>1, <1>2, OccAppend
<1>6. BlocksFor(table[r]) \in Nat /\ freeNpu \in Nat /\ freeCpu \in Nat
  BY <1>2, BlocksOf
<1>7. UNCHANGED <<waiting, running, swapped, len, prompt, clock, finishedQueue, abortedQueue,
                  finishedSeqIds, abortedReqIds, lastScheduleEmpty, pc, executing>> /\ newRequestFirst' = FALSE
  BY DEF PreemptBySwap, PreemptByRecompute, queueVars, reportVars
<1>8. ASSUME NEW q
      PROVE  /\ Occ(q, Append(round.swappedOut, r)) = Occ(q, round.swappedOut) + One(r = q)
             /\ Occ(q, Append(round.preempted, r)) = Occ(q, round.preempted) + One(r = q)
             /\ Occ(q, Front(round.running)) \in Nat /\ One(r = q) \in Nat
  <2>1. /\ Occ(q, Append(round.swappedOut, r)) = Occ(q, round.swappedOut) + One(r = q)
        /\ Occ(q, Append(round.preempted, r)) = Occ(q, round.preempted) + One(r = q)
    BY <1>1, <1>2, OccAppend
  <2>2. Occ(q, Front(round.running)) \in Nat
    BY <1>2, OccType
  <2> QED BY <2>1, <2>2 DEF One
<1>9. CASE PreemptBySwap
  <2>1. /\ status' = [status EXCEPT ![r] = "SWAPPED"] /\ table' = table
        /\ freeNpu' = freeNpu + BlocksFor(table[r]) /\ freeCpu' = freeCpu - BlocksFor(table[r])
        /\ round' = [round EXCEPT !.running = Front(@), !.swappedOut = Append(@, r)]
    BY <1>9 DEF PreemptBySwap, r
  <2>2. BlocksFor(table[r]) <= freeCpu
    <3>1. BlocksFor(len[r]) <= freeCpu
      BY <1>9 DEF PreemptBySwap, PreemptionMode, CanSwapOut, r
    <3> QED BY <1>2, <3>1, BlocksOf
  <2>3. round' \in Rounds
    <3>1. ASSUME NEW a \in Seq(Reqs), NEW b \in Seq(Reqs)
          PROVE  [round EXCEPT !.running = a, !.swappedOut = b] \in Rounds
      BY <1>1 DEF Rounds
    <3> QED BY <1>2, <1>5, <2>1, <3>1
  <2>4. /\ round'.waiting = round.waiting /\ round'.recompute = round.recompute
        /\ round'.preempted = round.preempted
        /\ round'.running = Front(round.running) /\ round'.decode = round.decode
        /\ round'.swappedIn = round.swappedIn /\ round'.prefill = round.prefill
        /\ round'.swapped = round.swapped /\ round'.swappedOut = Append(round.swappedOut, r)
    BY <1>1, <2>1 DEF Rounds
  <2>5. Types'
    <3>1. freeNpu' \in Int /\ freeCpu' \in Int
      BY <1>6, <2>1
    <3>2. status' \in [Reqs -> {"NONE", "WAITING", "RUNNING", "SWAPPED", "FINISH"}]
      BY <1>2, <2>1 DEF IInv, Types
    <3> QED BY <1>7, <2>1, <2>3, <3>1, <3>2 DEF IInv, Types
  <2>6. Placed'
    <3>1. ASSUME NEW q \in Reqs
          PROVE  /\ InWaiting(q)' = InWaiting(q)
                 /\ InRunning(q)' = InRunning(q) - One(r = q)
                 /\ InSwapped(q)' = InSwapped(q) + One(r = q)
      <4>1. /\ Occ(q, running) \in Nat /\ Occ(q, round.swappedIn) \in Nat /\ Occ(q, round.prefill) \in Nat
            /\ Occ(q, round.decode) \in Nat /\ Occ(q, swapped) \in Nat /\ Occ(q, round.swapped) \in Nat
            /\ Occ(q, round.swappedOut) \in Nat
            /\ Occ(q, waiting) \in Nat /\ Occ(q, round.waiting) \in Nat
            /\ Occ(q, round.recompute) \in Nat /\ Occ(q, round.preempted) \in Nat
        BY OccNat DEF IInv
      <4>2. /\ Occ(q, round'.running) + One(r = q) = Occ(q, round.running)
            /\ Occ(q, round'.running) \in Nat /\ One(r = q) \in Nat
            /\ Occ(q, round'.swappedOut) = Occ(q, round.swappedOut) + One(r = q)
        BY <1>3, <1>8, <2>4
      <4>3. InWaiting(q)' = Occ(q, waiting) + Occ(q, round.waiting) + Occ(q, round.recompute) + Occ(q, round'.preempted)
        BY <1>7, <2>4 DEF InWaiting
      <4>4. InRunning(q)' = Occ(q, running) + Occ(q, round'.running) + Occ(q, round.decode)
                              + Occ(q, round.swappedIn) + Occ(q, round.prefill)
        BY <1>7, <2>4 DEF InRunning
      <4>5. InSwapped(q)' = Occ(q, swapped) + Occ(q, round.swapped) + Occ(q, round'.swappedOut)
        BY <1>7, <2>4 DEF InSwapped
      <4>6. /\ InWaiting(q) = Occ(q, waiting) + Occ(q, round.waiting) + Occ(q, round.recompute) + Occ(q, round.preempted)
            /\ InRunning(q) = Occ(q, running) + Occ(q, round.running) + Occ(q, round.decode)
                                + Occ(q, round.swappedIn) + Occ(q, round.prefill)
            /\ InSwapped(q) = Occ(q, swapped) + Occ(q, round.swapped) + Occ(q, round.swappedOut)
        BY DEF InWaiting, InRunning, InSwapped
      <4>7. InWaiting(q)' = InWaiting(q)
        BY <2>4, <4>3 DEF InWaiting
      <4>8. InRunning(q)' = InRunning(q) - One(r = q)
        <5>1. One(r = q) \in Int /\ Occ(q, round'.running) \in Int
          BY <4>2
        <5> QED BY <4>1, <4>2, <4>4, <5>1, SumChange DEF InRunning
      <4>9. InSwapped(q)' = InSwapped(q) + One(r = q)
        BY <2>4, <4>1, <4>2, <4>5, <4>6
      <4> QED BY <4>7, <4>8, <4>9
    <3>2. \A q \in Reqs : /\ One(r = q /\ status[r] = "WAITING") = 0 /\ One(r = q /\ "SWAPPED" = "WAITING") = 0
                          /\ One(r = q /\ status[r] = "RUNNING") = One(r = q)
                          /\ One(r = q /\ "SWAPPED" = "RUNNING") = 0
                          /\ One(r = q /\ status[r] = "SWAPPED") = 0
                          /\ One(r = q /\ "SWAPPED" = "SWAPPED") = One(r = q)
      BY <1>4 DEF One
    <3>3. \A q \in Reqs : InWaiting(q) \in Nat /\ InRunning(q) \in Nat /\ InSwapped(q) \in Nat /\ One(r = q) \in Nat
      BY DEF IInv, Placed, One
    <3>4. \A q \in Reqs : /\ InWaiting(q)' = InWaiting(q) - One(r = q /\ status[r] = "WAITING")
                                                + One(r = q /\ "SWAPPED" = "WAITING")
                          /\ InRunning(q)' = InRunning(q) - One(r = q /\ status[r] = "RUNNING")
                                                + One(r = q /\ "SWAPPED" = "RUNNING")
                          /\ InSwapped(q)' = InSwapped(q) - One(r = q /\ status[r] = "SWAPPED")
                                                + One(r = q /\ "SWAPPED" = "SWAPPED")
      BY <3>1, <3>2, <3>3
    <3> QED BY <1>2, <1>4, <2>1, <3>4, PlacedMove
  <2>7. Lengths'
    BY <1>2, <1>4, <1>7, <2>1 DEF IInv, Types, Lengths, Live
  <2>8. Conserved'
    <3>1. /\ Own(status, table, "RUNNING", r) = BlocksFor(table[r]) /\ Own(status, table, "SWAPPED", r) = 0
          /\ Own(status', table', "RUNNING", r) = 0 /\ Own(status', table', "SWAPPED", r) = BlocksFor(table[r])
      BY <1>2, <1>4, <2>1 DEF Own, IInv, Types
    <3>2. \A q \in Reqs \ {r} : status'[q] = status[q] /\ table'[q] = table[q]
      BY <2>1 DEF IInv, Types
    <3>3. /\ freeNpu' = freeNpu + Own(status, table, "RUNNING", r) - Own(status', table', "RUNNING", r)
          /\ freeCpu' = freeCpu + Own(status, table, "SWAPPED", r) - Own(status', table', "SWAPPED", r)
          /\ freeNpu' >= 0 /\ freeCpu' >= 0
      BY <1>6, <2>1, <2>2, <3>1
    <3>4. Types /\ Conserved /\ table' \in [Reqs -> Nat]
      BY <2>5 DEF IInv, Types
    <3> QED BY <1>2, <3>2, <3>3, <3>4, ConservedChange
  <2>9. CandidatesAlive'
    <3> SUFFICES ASSUME NEW q \in Reqs, Ended(q)
                 PROVE  Occ(q, round'.running) = 0 /\ Occ(q, round'.swappedOut) = 0
      BY <1>7, <2>4 DEF IInv, CandidatesAlive, Ended
    <3>1. Occ(q, round.running) = 0 /\ Occ(q, round.swappedOut) = 0
      BY DEF IInv, CandidatesAlive
    <3> QED BY <3>1, <1>3, <1>8, <2>4 DEF One
  <2>10. Phases' /\ EndedNotExecuted'
    BY <1>1, <1>7, <2>4 DEF IInv, Phases, EndedNotExecuted, Ended
  <2>11. FullIsReported'
    BY <1>2, <1>4, <1>7, <2>1 DEF IInv, Types, FullIsReported, OnDevice, Live
  <2> QED BY <2>5, <2>6, <2>7, <2>8, <2>9, <2>10, <2>11 DEF IInv
<1>10. CASE PreemptByRecompute
  <2>1. /\ status' = [status EXCEPT ![r] = "WAITING"] /\ table' = [table EXCEPT ![r] = 0]
        /\ freeNpu' = freeNpu + BlocksFor(table[r]) /\ freeCpu' = freeCpu
        /\ round' = [round EXCEPT !.running = Front(@), !.preempted = Append(@, r)]
    BY <1>10 DEF PreemptByRecompute, r
  <2>2. round' \in Rounds
    <3>1. ASSUME NEW a \in Seq(Reqs), NEW b \in Seq(Reqs)
          PROVE  [round EXCEPT !.running = a, !.preempted = b] \in Rounds
      BY <1>1 DEF Rounds
    <3> QED BY <1>2, <1>5, <2>1, <3>1
  <2>3. /\ round'.waiting = round.waiting /\ round'.recompute = round.recompute
        /\ round'.preempted = Append(round.preempted, r)
        /\ round'.running = Front(round.running) /\ round'.decode = round.decode
        /\ round'.swappedIn = round.swappedIn /\ round'.prefill = round.prefill
        /\ round'.swapped = round.swapped /\ round'.swappedOut = round.swappedOut
    BY <1>1, <2>1 DEF Rounds
  <2>4. Types'
    <3>1. freeNpu' \in Int /\ freeCpu' \in Int
      BY <1>6, <2>1
    <3>2. status' \in [Reqs -> {"NONE", "WAITING", "RUNNING", "SWAPPED", "FINISH"}]
      BY <1>2, <2>1 DEF IInv, Types
    <3>3. table' \in [Reqs -> Nat]
      BY <1>2, <2>1 DEF IInv, Types
    <3> QED BY <1>7, <2>1, <2>2, <3>1, <3>2, <3>3 DEF IInv, Types
  <2>5. Placed'
    <3>1. ASSUME NEW q \in Reqs
          PROVE  /\ InWaiting(q)' = InWaiting(q) + One(r = q)
                 /\ InRunning(q)' = InRunning(q) - One(r = q)
                 /\ InSwapped(q)' = InSwapped(q)
      <4>1. /\ Occ(q, running) \in Nat /\ Occ(q, round.swappedIn) \in Nat /\ Occ(q, round.prefill) \in Nat
            /\ Occ(q, round.decode) \in Nat /\ Occ(q, swapped) \in Nat /\ Occ(q, round.swapped) \in Nat
            /\ Occ(q, round.swappedOut) \in Nat
            /\ Occ(q, waiting) \in Nat /\ Occ(q, round.waiting) \in Nat
            /\ Occ(q, round.recompute) \in Nat /\ Occ(q, round.preempted) \in Nat
        BY OccNat DEF IInv
      <4>2. /\ Occ(q, round'.running) + One(r = q) = Occ(q, round.running)
            /\ Occ(q, round'.running) \in Nat /\ One(r = q) \in Nat
            /\ Occ(q, round'.preempted) = Occ(q, round.preempted) + One(r = q)
        BY <1>3, <1>8, <2>3
      <4>3. InWaiting(q)' = Occ(q, waiting) + Occ(q, round.waiting) + Occ(q, round.recompute) + Occ(q, round'.preempted)
        BY <1>7, <2>3 DEF InWaiting
      <4>4. InRunning(q)' = Occ(q, running) + Occ(q, round'.running) + Occ(q, round.decode)
                              + Occ(q, round.swappedIn) + Occ(q, round.prefill)
        BY <1>7, <2>3 DEF InRunning
      <4>5. InSwapped(q)' = Occ(q, swapped) + Occ(q, round.swapped) + Occ(q, round'.swappedOut)
        BY <1>7, <2>3 DEF InSwapped
      <4>6. /\ InWaiting(q) = Occ(q, waiting) + Occ(q, round.waiting) + Occ(q, round.recompute) + Occ(q, round.preempted)
            /\ InRunning(q) = Occ(q, running) + Occ(q, round.running) + Occ(q, round.decode)
                                + Occ(q, round.swappedIn) + Occ(q, round.prefill)
            /\ InSwapped(q) = Occ(q, swapped) + Occ(q, round.swapped) + Occ(q, round.swappedOut)
        BY DEF InWaiting, InRunning, InSwapped
      <4>7. InWaiting(q)' = InWaiting(q) + One(r = q)
        BY <2>3, <4>1, <4>2, <4>3, SumChange DEF InWaiting
      <4>8. InRunning(q)' = InRunning(q) - One(r = q)
        <5>1. One(r = q) \in Int /\ Occ(q, round'.running) \in Int
          BY <4>2
        <5> QED BY <4>1, <4>2, <4>4, <5>1, SumChange DEF InRunning
      <4>9. InSwapped(q)' = InSwapped(q)
        BY <2>3, <4>1, <4>2, <4>5, <4>6
      <4> QED BY <4>7, <4>8, <4>9
    <3>2. \A q \in Reqs : /\ One(r = q /\ status[r] = "WAITING") = 0 /\ One(r = q /\ "WAITING" = "WAITING") = One(r = q)
                          /\ One(r = q /\ status[r] = "RUNNING") = One(r = q)
                          /\ One(r = q /\ "WAITING" = "RUNNING") = 0
                          /\ One(r = q /\ status[r] = "SWAPPED") = 0
                          /\ One(r = q /\ "WAITING" = "SWAPPED") = 0
      BY <1>4 DEF One
    <3>3. \A q \in Reqs : InWaiting(q) \in Nat /\ InRunning(q) \in Nat /\ InSwapped(q) \in Nat /\ One(r = q) \in Nat
      BY DEF IInv, Placed, One
    <3>4. \A q \in Reqs : /\ InWaiting(q)' = InWaiting(q) - One(r = q /\ status[r] = "WAITING")
                                                + One(r = q /\ "WAITING" = "WAITING")
                          /\ InRunning(q)' = InRunning(q) - One(r = q /\ status[r] = "RUNNING")
                                                + One(r = q /\ "WAITING" = "RUNNING")
                          /\ InSwapped(q)' = InSwapped(q) - One(r = q /\ status[r] = "SWAPPED")
                                                + One(r = q /\ "WAITING" = "SWAPPED")
      BY <3>1, <3>2, <3>3
    <3> QED BY <1>2, <1>4, <2>1, <3>4, PlacedMove
  <2>6. Lengths'
    BY <1>2, <1>4, <1>7, <2>1 DEF IInv, Types, Lengths, Live
  <2>7. Conserved'
    <3>1. /\ Own(status, table, "RUNNING", r) = BlocksFor(table[r]) /\ Own(status, table, "SWAPPED", r) = 0
          /\ Own(status', table', "RUNNING", r) = 0 /\ Own(status', table', "SWAPPED", r) = 0
      BY <1>2, <1>4, <2>1 DEF Own, IInv, Types
    <3>2. \A q \in Reqs \ {r} : status'[q] = status[q] /\ table'[q] = table[q]
      BY <2>1 DEF IInv, Types
    <3>3. /\ freeNpu' = freeNpu + Own(status, table, "RUNNING", r) - Own(status', table', "RUNNING", r)
          /\ freeCpu' = freeCpu + Own(status, table, "SWAPPED", r) - Own(status', table', "SWAPPED", r)
          /\ freeNpu' >= 0 /\ freeCpu' >= 0
      BY <1>6, <2>1, <3>1
    <3>4. Types /\ Conserved /\ table' \in [Reqs -> Nat]
      BY <2>4 DEF IInv, Types
    <3> QED BY <1>2, <3>2, <3>3, <3>4, ConservedChange
  <2>8. CandidatesAlive'
    <3> SUFFICES ASSUME NEW q \in Reqs, Ended(q)
                 PROVE  Occ(q, round'.running) = 0 /\ Occ(q, round'.preempted) = 0
      BY <1>7, <2>3 DEF IInv, CandidatesAlive, Ended
    <3>1. Occ(q, round.running) = 0 /\ Occ(q, round.preempted) = 0
      BY DEF IInv, CandidatesAlive
    <3> QED BY <3>1, <1>3, <1>8, <2>3 DEF One
  <2>9. Phases' /\ EndedNotExecuted'
    BY <1>1, <1>7, <2>3 DEF IInv, Phases, EndedNotExecuted, Ended
  <2>10. FullIsReported'
    BY <1>2, <1>4, <1>7, <2>1 DEF IInv, Types, FullIsReported, OnDevice, Live
  <2> QED BY <2>4, <2>5, <2>6, <2>7, <2>8, <2>9, <2>10 DEF IInv
<1> QED BY <1>9, <1>10

LEMMA SwapInKeeps ==
  ASSUME IInv, SwapIn
  PROVE  IInv'
<1> DEFINE r == Head(round.swapped)
<1>1. /\ pc = "swapped" /\ round.swapped # <<>> /\ round \in Rounds /\ round.swapped \in Seq(Reqs)
      /\ round.swappedIn \in Seq(Reqs) /\ BlocksFor(len[r]) <= freeNpu
  BY DEF SwapIn, CanSwapInFront, CanSwapIn, IInv, Types, Rounds
<1>2. r \in Reqs /\ Tail(round.swapped) \in Seq(Reqs) /\ Occ(r, round.swapped) # 0
  BY <1>1, HeadOccurs
<1>3. ASSUME NEW q
      PROVE  Occ(q, round.swapped) = Occ(q, Tail(round.swapped)) + One(r = q)
  BY <1>1, OccTail
<1> HIDE DEF r
<1>4. status[r] = "SWAPPED" /\ Live(r)
  <2>1. InSwapped(r) # 0
    BY <1>2, OccNat DEF IInv, InSwapped
  <2> QED BY <1>2, <2>1, PlaceTellsStatus DEF Live
<1>5. Append(round.swappedIn, r) \in Seq(Reqs)
  BY <1>1, <1>2, OccAppend
<1>6. /\ BlocksFor(table[r]) \in Nat /\ BlocksFor(len[r]) \in Nat /\ len[r] \in Nat
      /\ freeNpu \in Nat /\ freeCpu \in Nat
  BY <1>2, BlocksOf
<1>7. /\ status' = [status EXCEPT ![r] = "RUNNING"] /\ table' = [table EXCEPT ![r] = len[r]]
      /\ freeNpu' = freeNpu - BlocksFor(len[r]) /\ freeCpu' = freeCpu + BlocksFor(table[r])
      /\ round' = [round EXCEPT !.swapped = Tail(@), !.swappedIn = Append(@, r), !.tokens = @ + 1]
      /\ UNCHANGED <<waiting, running, swapped, len, prompt, clock, finishedQueue, abortedQueue,
                     finishedSeqIds, abortedReqIds, lastScheduleEmpty, newRequestFirst, pc, executing>>
  BY DEF SwapIn, r, queueVars, reportVars, flagVars
<1>8. ASSUME NEW q
      PROVE  /\ Occ(q, Append(round.swappedIn, r)) = Occ(q, round.swappedIn) + One(r = q)
             /\ Occ(q, Tail(round.swapped)) \in Nat /\ One(r = q) \in Nat
  <2>1. Occ(q, Append(round.swappedIn, r)) = Occ(q, round.swappedIn) + One(r = q)
    BY <1>1, <1>2, OccAppend
  <2>2. Occ(q, Tail(round.swapped)) \in Nat
    BY <1>2, OccType
  <2> QED BY <2>1, <2>2 DEF One
<1>9. round' \in Rounds
  <2>1. ASSUME NEW a \in Seq(Reqs), NEW b \in Seq(Reqs), NEW t \in Nat
        PROVE  [round EXCEPT !.swapped = a, !.swappedIn = b, !.tokens = t] \in Rounds
    BY <1>1 DEF Rounds
  <2>2. round.tokens + 1 \in Nat
    BY <1>1, <1>6 DEF Rounds
  <2> QED BY <1>2, <1>5, <1>7, <2>1, <2>2
<1>10. /\ round'.waiting = round.waiting /\ round'.recompute = round.recompute /\ round'.preempted = round.preempted
      /\ round'.running = round.running /\ round'.decode = round.decode /\ round'.swappedIn = Append(round.swappedIn, r) /\ round'.prefill = round.prefill
      /\ round'.swapped = Tail(round.swapped) /\ round'.swappedOut = round.swappedOut
  BY <1>1, <1>7 DEF Rounds
<1>11. Types'
  <2>1. freeNpu' \in Int /\ freeCpu' \in Int
    BY <1>6, <1>7
  <2>2. status' \in [Reqs -> {"NONE", "WAITING", "RUNNING", "SWAPPED", "FINISH"}]
    BY <1>2, <1>7 DEF IInv, Types
  <2>3. table' \in [Reqs -> Nat]
    BY <1>2, <1>6, <1>7 DEF IInv, Types
  <2> QED BY <1>7, <1>9, <2>1, <2>2, <2>3 DEF IInv, Types
<1>12. Placed'
  <2>1. ASSUME NEW q \in Reqs
        PROVE  /\ InSwapped(q)' = InSwapped(q) - One(r = q)
               /\ InRunning(q)' = InRunning(q) + One(r = q)
               /\ InWaiting(q)' = InWaiting(q)
    <3>1. /\ Occ(q, running) \in Nat /\ Occ(q, round.running) \in Nat /\ Occ(q, round.swappedIn) \in Nat
          /\ Occ(q, round.prefill) \in Nat /\ Occ(q, round.decode) \in Nat
      BY OccNat DEF IInv
    <3>2. /\ Occ(q, swapped) \in Nat /\ Occ(q, round.swapped) \in Nat /\ Occ(q, round.swappedOut) \in Nat
          /\ Occ(q, waiting) \in Nat /\ Occ(q, round.waiting) \in Nat
          /\ Occ(q, round.recompute) \in Nat /\ Occ(q, round.preempted) \in Nat
      BY OccNat DEF IInv
    <3>3. /\ Occ(q, round'.swapped) + One(r = q) = Occ(q, round.swapped)
          /\ Occ(q, round'.swapped) \in Nat /\ One(r = q) \in Nat
          /\ Occ(q, round'.swappedIn) = Occ(q, round.swappedIn) + One(r = q)
      BY <1>3, <1>8, <1>10
    <3>4. InSwapped(q)' = Occ(q, swapped) + Occ(q, round'.swapped) + Occ(q, round.swappedOut)
      BY <1>7, <1>10 DEF InSwapped
    <3>5. InRunning(q)' = Occ(q, running) + Occ(q, round.running) + Occ(q, round.decode) + Occ(q, round'.swappedIn) + Occ(q, round.prefill)
      BY <1>7, <1>10 DEF InRunning
    <3>6. InSwapped(q)' = InSwapped(q) - One(r = q)
      BY <3>2, <3>3, <3>4, PlaceChange DEF InSwapped
    <3>7. InRunning(q)' = InRunning(q) + One(r = q)
      BY <3>1, <3>3, <3>5, PlaceChange DEF InRunning
    <3>8. InWaiting(q)' = InWaiting(q)
      BY <1>7, <1>10 DEF InWaiting
    <3> QED BY <3>6, <3>7, <3>8
  <2>2. \A q \in Reqs : /\ One(r = q /\ status[r] = "SWAPPED") = One(r = q)
                        /\ One(r = q /\ status[r] # "SWAPPED") = 0 /\ One(r = q /\ status[r] = "RUNNING") = 0
                        /\ One(r = q /\ status[r] = "WAITING") = 0
                        /\ One(r = q /\ "RUNNING" = "WAITING") = 0 /\ One(r = q /\ "RUNNING" = "SWAPPED") = 0
                        /\ One(r = q /\ "RUNNING" = "RUNNING") = One(r = q)
    BY <1>4 DEF One
  <2>3. \A q \in Reqs : InWaiting(q) \in Nat /\ InRunning(q) \in Nat /\ InSwapped(q) \in Nat /\ One(r = q) \in Nat
    BY DEF IInv, Placed, One
  <2>4. \A q \in Reqs : /\ InWaiting(q)' = InWaiting(q) - One(r = q /\ status[r] = "WAITING")
                                              + One(r = q /\ "RUNNING" = "WAITING")
                        /\ InRunning(q)' = InRunning(q) - One(r = q /\ status[r] = "RUNNING")
                                              + One(r = q /\ "RUNNING" = "RUNNING")
                        /\ InSwapped(q)' = InSwapped(q) - One(r = q /\ status[r] = "SWAPPED")
                                              + One(r = q /\ "RUNNING" = "SWAPPED")
    BY <2>1, <2>2, <2>3
  <2> QED BY <1>2, <1>4, <1>7, <2>4, PlacedMove
<1>13. Lengths'
  <2> SUFFICES ASSUME NEW q \in Reqs
               PROVE  /\ table'[q] <= len'[q] /\ prompt'[q] <= len'[q]
                      /\ IF Live(q)' THEN len'[q] > 0 ELSE len'[q] = 0
                      /\ table'[q] > 0 <=> status'[q] \in {"RUNNING", "SWAPPED"}
    BY DEF Lengths
  <2>1. /\ table[q] <= len[q] /\ prompt[q] <= len[q]
        /\ IF Live(q) THEN len[q] > 0 ELSE len[q] = 0
        /\ table[q] > 0 <=> status[q] \in {"RUNNING", "SWAPPED"}
    BY DEF IInv, Lengths
  <2>2. CASE q = r
    <3>1. status'[q] = "RUNNING" /\ table'[q] = len[r] /\ len'[q] = len[r] /\ prompt'[q] = prompt[q]
      BY <1>2, <1>7, <2>2 DEF IInv, Types
    <3> QED BY <1>4, <1>6, <2>1, <2>2, <3>1 DEF Live
  <2>3. CASE q # r
    <3>1. status'[q] = status[q] /\ table'[q] = table[q] /\ len'[q] = len[q] /\ prompt'[q] = prompt[q]
      BY <1>7, <2>3 DEF IInv, Types
    <3> QED BY <2>1, <3>1 DEF Live
  <2> QED BY <2>2, <2>3
<1>14. Conserved'
  <2>1. /\ Own(status, table, "RUNNING", r) = 0 /\ Own(status, table, "SWAPPED", r) = BlocksFor(table[r])
        /\ Own(status', table', "RUNNING", r) = BlocksFor(len[r]) /\ Own(status', table', "SWAPPED", r) = 0
    BY <1>2, <1>4, <1>7 DEF Own, IInv, Types
  <2>2. \A q \in Reqs \ {r} : status'[q] = status[q] /\ table'[q] = table[q]
    BY <1>7 DEF IInv, Types
  <2>3. /\ freeNpu' = freeNpu + Own(status, table, "RUNNING", r) - Own(status', table', "RUNNING", r)
        /\ freeCpu' = freeCpu + Own(status, table, "SWAPPED", r) - Own(status', table', "SWAPPED", r)
        /\ freeNpu' >= 0 /\ freeCpu' >= 0
    <3>1. BlocksFor(len[r]) <= freeNpu
      BY <1>1 DEF r
    <3> QED BY <1>6, <1>7, <2>1, <3>1
  <2>4. Types /\ Conserved /\ table' \in [Reqs -> Nat]
    BY <1>11 DEF IInv, Types
  <2> QED BY <1>2, <2>2, <2>3, <2>4, ConservedChange
<1>15. CandidatesAlive'
  <2> SUFFICES ASSUME NEW q \in Reqs, Ended(q)
               PROVE  Occ(q, round'.swapped) = 0 /\ Occ(q, round'.swappedIn) = 0
    BY <1>7, <1>10 DEF IInv, CandidatesAlive, Ended
  <2>1. Occ(q, round.swapped) = 0 /\ Occ(q, round.swappedIn) = 0
    BY DEF IInv, CandidatesAlive
  <2> QED BY <2>1, <1>3, <1>8, <1>10 DEF One
<1>16. Phases' /\ EndedNotExecuted'
  BY <1>1, <1>7, <1>10 DEF IInv, Phases, EndedNotExecuted, Ended
<1>17. FullIsReported'
  BY <1>2, <1>4, <1>7 DEF IInv, Types, FullIsReported, OnDevice, Live
<1> QED
  BY <1>11, <1>12, <1>13, <1>14, <1>15, <1>16, <1>17 DEF IInv

LEMMA AllocateKeeps ==
  ASSUME IInv, AllocateAndSetRunning
  PROVE  IInv'
<1> DEFINE r == Head(round.waiting)
<1>1. /\ pc = "waiting" /\ round.waiting # <<>> /\ round \in Rounds /\ round.waiting \in Seq(Reqs)
      /\ round.prefill \in Seq(Reqs) /\ BlocksFor(len[r]) <= freeNpu
  BY DEF AllocateAndSetRunning, CanAdmitFront, IInv, Types, Rounds
<1>2. r \in Reqs /\ Tail(round.waiting) \in Seq(Reqs) /\ Occ(r, round.waiting) # 0
  BY <1>1, HeadOccurs
<1>3. ASSUME NEW q
      PROVE  Occ(q, round.waiting) = Occ(q, Tail(round.waiting)) + One(r = q)
  BY <1>1, OccTail
<1> HIDE DEF r
<1>4. status[r] = "WAITING" /\ Live(r)
  <2>1. InWaiting(r) # 0
    BY <1>2, OccNat DEF IInv, InWaiting
  <2> QED BY <1>2, <2>1, PlaceTellsStatus DEF Live
<1>5. Append(round.prefill, r) \in Seq(Reqs)
  BY <1>1, <1>2, OccAppend
<1>6. /\ BlocksFor(table[r]) \in Nat /\ BlocksFor(len[r]) \in Nat /\ len[r] \in Nat
      /\ freeNpu \in Nat /\ freeCpu \in Nat
  BY <1>2, BlocksOf
<1>7. /\ status' = [status EXCEPT ![r] = "RUNNING"] /\ table' = [table EXCEPT ![r] = len[r]]
      /\ freeNpu' = freeNpu - BlocksFor(len[r]) /\ freeCpu' = freeCpu
      /\ round' = [round EXCEPT !.waiting = Tail(@), !.prefill = Append(@, r), !.tokens = @ + len[r]]
      /\ UNCHANGED <<waiting, running, swapped, len, prompt, clock, finishedQueue, abortedQueue,
                     finishedSeqIds, abortedReqIds, lastScheduleEmpty, newRequestFirst, pc, executing>>
  BY DEF AllocateAndSetRunning, r, queueVars, reportVars, flagVars
<1>8. ASSUME NEW q
      PROVE  /\ Occ(q, Append(round.prefill, r)) = Occ(q, round.prefill) + One(r = q)
             /\ Occ(q, Tail(round.waiting)) \in Nat /\ One(r = q) \in Nat
  <2>1. Occ(q, Append(round.prefill, r)) = Occ(q, round.prefill) + One(r = q)
    BY <1>1, <1>2, OccAppend
  <2>2. Occ(q, Tail(round.waiting)) \in Nat
    BY <1>2, OccType
  <2> QED BY <2>1, <2>2 DEF One
<1>9. round' \in Rounds
  <2>1. ASSUME NEW a \in Seq(Reqs), NEW b \in Seq(Reqs), NEW t \in Nat
        PROVE  [round EXCEPT !.waiting = a, !.prefill = b, !.tokens = t] \in Rounds
    BY <1>1 DEF Rounds
  <2>2. round.tokens + len[r] \in Nat
    BY <1>1, <1>6 DEF Rounds
  <2> QED BY <1>2, <1>5, <1>7, <2>1, <2>2
<1>10. /\ round'.waiting = Tail(round.waiting) /\ round'.recompute = round.recompute /\ round'.preempted = round.preempted
      /\ round'.running = round.running /\ round'.decode = round.decode /\ round'.swappedIn = round.swappedIn /\ round'.prefill = Append(round.prefill, r)
      /\ round'.swapped = round.swapped /\ round'.swappedOut = round.swappedOut
  BY <1>1, <1>7 DEF Rounds
<1>11. Types'
  <2>1. freeNpu' \in Int /\ freeCpu' \in Int
    BY <1>6, <1>7
  <2>2. status' \in [Reqs -> {"NONE", "WAITING", "RUNNING", "SWAPPED", "FINISH"}]
    BY <1>2, <1>7 DEF IInv, Types
  <2>3. table' \in [Reqs -> Nat]
    BY <1>2, <1>6, <1>7 DEF IInv, Types
  <2> QED BY <1>7, <1>9, <2>1, <2>2, <2>3 DEF IInv, Types
<1>12. Placed'
  <2>1. ASSUME NEW q \in Reqs
        PROVE  /\ InWaiting(q)' = InWaiting(q) - One(r = q)
               /\ InRunning(q)' = InRunning(q) + One(r = q)
               /\ InSwapped(q)' = InSwapped(q)
    <3>1. /\ Occ(q, running) \in Nat /\ Occ(q, round.running) \in Nat /\ Occ(q, round.swappedIn) \in Nat
          /\ Occ(q, round.prefill) \in Nat /\ Occ(q, round.decode) \in Nat
      BY OccNat DEF IInv
    <3>2. /\ Occ(q, swapped) \in Nat /\ Occ(q, round.swapped) \in Nat /\ Occ(q, round.swappedOut) \in Nat
          /\ Occ(q, waiting) \in Nat /\ Occ(q, round.waiting) \in Nat
          /\ Occ(q, round.recompute) \in Nat /\ Occ(q, round.preempted) \in Nat
      BY OccNat DEF IInv
    <3>3. /\ Occ(q, round'.waiting) + One(r = q) = Occ(q, round.waiting)
          /\ Occ(q, round'.waiting) \in Nat /\ One(r = q) \in Nat
          /\ Occ(q, round'.prefill) = Occ(q, round.prefill) + One(r = q)
      BY <1>3, <1>8, <1>10
    <3>4. InWaiting(q)' = Occ(q, waiting) + Occ(q, round'.waiting) + Occ(q, round.recompute) + Occ(q, round.preempted)
      BY <1>7, <1>10 DEF InWaiting
    <3>5. InRunning(q)' = Occ(q, running) + Occ(q, round.running) + Occ(q, round.decode) + Occ(q, round.swappedIn) + Occ(q, round'.prefill)
      BY <1>7, <1>10 DEF InRunning
    <3>6. InWaiting(q)' = InWaiting(q) - One(r = q)
      BY <3>2, <3>3, <3>4, PlaceChange DEF InWaiting
    <3>7. InRunning(q)' = InRunning(q) + One(r = q)
      BY <3>1, <3>3, <3>5, PlaceChange DEF InRunning
    <3>8. InSwapped(q)' = InSwapped(q)
      BY <1>7, <1>10 DEF InSwapped
    <3> QED BY <3>6, <3>7, <3>8
  <2>2. \A q \in Reqs : /\ One(r = q /\ status[r] = "WAITING") = One(r = q)
                        /\ One(r = q /\ status[r] # "WAITING") = 0 /\ One(r = q /\ status[r] = "RUNNING") = 0
                        /\ One(r = q /\ status[r] = "SWAPPED") = 0
                        /\ One(r = q /\ "RUNNING" = "WAITING") = 0 /\ One(r = q /\ "RUNNING" = "SWAPPED") = 0
                        /\ One(r = q /\ "RUNNING" = "RUNNING") = One(r = q)
    BY <1>4 DEF One
  <2>3. \A q \in Reqs : InWaiting(q) \in Nat /\ InRunning(q) \in Nat /\ InSwapped(q) \in Nat /\ One(r = q) \in Nat
    BY DEF IInv, Placed, One
  <2>4. \A q \in Reqs : /\ InWaiting(q)' = InWaiting(q) - One(r = q /\ status[r] = "WAITING")
                                              + One(r = q /\ "RUNNING" = "WAITING")
                        /\ InRunning(q)' = InRunning(q) - One(r = q /\ status[r] = "RUNNING")
                                              + One(r = q /\ "RUNNING" = "RUNNING")
                        /\ InSwapped(q)' = InSwapped(q) - One(r = q /\ status[r] = "SWAPPED")
                                              + One(r = q /\ "RUNNING" = "SWAPPED")
    BY <2>1, <2>2, <2>3
  <2> QED BY <1>2, <1>4, <1>7, <2>4, PlacedMove
<1>13. Lengths'
  <2> SUFFICES ASSUME NEW q \in Reqs
               PROVE  /\ table'[q] <= len'[q] /\ prompt'[q] <= len'[q]
                      /\ IF Live(q)' THEN len'[q] > 0 ELSE len'[q] = 0
                      /\ table'[q] > 0 <=> status'[q] \in {"RUNNING", "SWAPPED"}
    BY DEF Lengths
  <2>1. /\ table[q] <= len[q] /\ prompt[q] <= len[q]
        /\ IF Live(q) THEN len[q] > 0 ELSE len[q] = 0
        /\ table[q] > 0 <=> status[q] \in {"RUNNING", "SWAPPED"}
    BY DEF IInv, Lengths
  <2>2. CASE q = r
    <3>1. status'[q] = "RUNNING" /\ table'[q] = len[r] /\ len'[q] = len[r] /\ prompt'[q] = prompt[q]
      BY <1>2, <1>7, <2>2 DEF IInv, Types
    <3> QED BY <1>4, <1>6, <2>1, <2>2, <3>1 DEF Live
  <2>3. CASE q # r
    <3>1. status'[q] = status[q] /\ table'[q] = table[q] /\ len'[q] = len[q] /\ prompt'[q] = prompt[q]
      BY <1>7, <2>3 DEF IInv, Types
    <3> QED BY <2>1, <3>1 DEF Live
  <2> QED BY <2>2, <2>3
<1>14. Conserved'
  <2>1. /\ Own(status, table, "RUNNING", r) = 0 /\ Own(status, table, "SWAPPED", r) = 0
        /\ Own(status', table', "RUNNING", r) = BlocksFor(len[r]) /\ Own(status', table', "SWAPPED", r) = 0
    BY <1>2, <1>4, <1>7 DEF Own, IInv, Types
  <2>2. \A q \in Reqs \ {r} : status'[q] = status[q] /\ table'[q] = table[q]
    BY <1>7 DEF IInv, Types
  <2>3. /\ freeNpu' = freeNpu + Own(status, table, "RUNNING", r) - Own(status', table', "RUNNING", r)
        /\ freeCpu' = freeCpu + Own(status, table, "SWAPPED", r) - Own(status', table', "SWAPPED", r)
        /\ freeNpu' >= 0 /\ freeCpu' >= 0
    <3>1. BlocksFor(len[r]) <= freeNpu
      BY <1>1 DEF r
    <3> QED BY <1>6, <1>7, <2>1, <3>1
  <2>4. Types /\ Conserved /\ table' \in [Reqs -> Nat]
    BY <1>11 DEF IInv, Types
  <2> QED BY <1>2, <2>2, <2>3, <2>4, ConservedChange
<1>15. CandidatesAlive'
  <2> SUFFICES ASSUME NEW q \in Reqs, Ended(q)
               PROVE  Occ(q, round'.waiting) = 0 /\ Occ(q, round'.prefill) = 0
    BY <1>7, <1>10 DEF IInv, CandidatesAlive, Ended
  <2>1. Occ(q, round.waiting) = 0 /\ Occ(q, round.prefill) = 0
    BY DEF IInv, CandidatesAlive
  <2> QED BY <2>1, <1>3, <1>8, <1>10 DEF One
<1>16. Phases' /\ EndedNotExecuted'
  BY <1>1, <1>7, <1>10 DEF IInv, Phases, EndedNotExecuted, Ended
<1>17. FullIsReported'
  BY <1>2, <1>4, <1>7 DEF IInv, Types, FullIsReported, OnDevice, Live
<1> QED
  BY <1>11, <1>12, <1>13, <1>14, <1>15, <1>16, <1>17 DEF IInv

(* ClearSeqGrp gives back all that the requests of S hold.                 *)
LEMMA ClearConserves ==
  ASSUME IInv, NEW S \in SUBSET Reqs, ClearSeqGrps(S)
  PROVE  Conserved'
<1>1. /\ status' = [r \in Reqs |-> IF r \in S THEN "FINISH" ELSE status[r]]
      /\ table' = [r \in Reqs |-> IF r \in S THEN 0 ELSE table[r]]
      /\ freeNpu' = freeNpu + NumHeld(status, table, "RUNNING", S)
      /\ freeCpu' = freeCpu + NumHeld(status, table, "SWAPPED", S)
  BY DEF ClearSeqGrps, BlocksHeld, NumHeld, Held
<1>2. IsFiniteSet(Reqs) /\ IsFiniteSet(S) /\ IsFiniteSet(Reqs \ S)
  BY ConstantTypes, FS_Subset
<1>3. \A r \in Reqs : table[r] \in Nat /\ table'[r] \in Nat
  BY <1>1 DEF IInv, Types
<1>4. ASSUME NEW st \in {"RUNNING", "SWAPPED"}
      PROVE  /\ NumHeld(status, table, st, Reqs) = NumHeld(status, table, st, S) + NumHeld(status', table', st, Reqs)
             /\ NumHeld(status, table, st, S) \in Nat /\ NumHeld(status', table', st, Reqs) \in Nat
  <2>1. /\ NumHeld(status, table, st, Reqs) = NumHeld(status, table, st, S) + NumHeld(status, table, st, Reqs \ S)
        /\ NumHeld(status', table', st, Reqs)
             = NumHeld(status', table', st, S) + NumHeld(status', table', st, Reqs \ S)
    BY <1>2, <1>3, HeldSplit
  <2>2. NumHeld(status, table, st, Reqs \ S) = NumHeld(status', table', st, Reqs \ S)
    <3>1. \A r \in Reqs \ S : status[r] = status'[r] /\ table[r] = table'[r]
      BY <1>1
    <3> QED BY <3>1, HeldSame
  <2>3. NumHeld(status', table', st, S) = 0
    <3>1. \A r \in S : status'[r] # st
      BY <1>1
    <3>2. Held(status', table', st, S) = {}
      BY <3>1 DEF Held
    <3> QED BY <3>2, FS_EmptySet DEF NumHeld
  <2>4. /\ NumHeld(status, table, st, S) \in Nat /\ NumHeld(status', table', st, Reqs \ S) \in Nat
    BY <1>2, <1>3, HeldFinite
  <2> QED BY <2>1, <2>2, <2>3, <2>4
<1>5. freeNpu \in Nat /\ freeCpu \in Nat
  BY DEF IInv, Types, Conserved
<1>6. /\ freeNpu + NumHeld(status, table, "RUNNING", Reqs) = npuBlockNum
      /\ freeCpu + NumHeld(status, table, "SWAPPED", Reqs) = cpuBlockNum
  BY DEF IInv, Conserved
<1> QED
  BY <1>1, <1>4, <1>5, <1>6 DEF Conserved

LEMMA ClearKeeps ==
  ASSUME IInv, NEW S \in SUBSET Reqs, ClearSeqGrps(S),
         UNCHANGED <<finishedQueue, abortedQueue, flagVars, pc, round, executing>>,
         waiting' \in Seq(Reqs), running' \in Seq(Reqs), swapped' \in Seq(Reqs), Placed'
  PROVE  IInv'
<1>1. /\ status' = [r \in Reqs |-> IF r \in S THEN "FINISH" ELSE status[r]]
      /\ table' = [r \in Reqs |-> IF r \in S THEN 0 ELSE table[r]]
      /\ len' = [r \in Reqs |-> IF r \in S THEN 0 ELSE len[r]]
      /\ prompt' = [r \in Reqs |-> IF r \in S THEN 0 ELSE prompt[r]]
      /\ clock' = [r \in Reqs |-> IF r \in S THEN 0 ELSE clock[r]]
      /\ finishedSeqIds' = finishedSeqIds \ S /\ abortedReqIds' = abortedReqIds \ S
  BY DEF ClearSeqGrps
<1>2. UNCHANGED <<finishedQueue, abortedQueue, lastScheduleEmpty, newRequestFirst, pc, round, executing>>
  BY DEF flagVars
<1>3. Conserved'
  BY ClearConserves
<1>4. Types'
  <2>1. freeNpu' \in Int /\ freeCpu' \in Int
    <3>1. S \subseteq Reqs /\ IsFiniteSet(S) /\ \A r \in S : table[r] \in Nat
      BY ConstantTypes, FS_Subset DEF IInv, Types
    <3>2. NumHeld(status, table, "RUNNING", S) \in Nat /\ NumHeld(status, table, "SWAPPED", S) \in Nat
      BY <3>1, HeldFinite
    <3>3. /\ freeNpu' = freeNpu + NumHeld(status, table, "RUNNING", S)
          /\ freeCpu' = freeCpu + NumHeld(status, table, "SWAPPED", S)
      BY DEF ClearSeqGrps, BlocksHeld, NumHeld, Held
    <3> QED BY <3>2, <3>3 DEF IInv, Types
  <2>2. /\ len' \in [Reqs -> Nat] /\ prompt' \in [Reqs -> Nat] /\ table' \in [Reqs -> Nat]
        /\ clock' \in [Reqs -> 0..2]
    BY <1>1 DEF IInv, Types
  <2>3. status' \in [Reqs -> {"NONE", "WAITING", "RUNNING", "SWAPPED", "FINISH"}]
    BY <1>1 DEF IInv, Types
  <2> QED BY <1>1, <1>2, <2>1, <2>2, <2>3 DEF IInv, Types
<1>5. Lengths'
  BY <1>1 DEF IInv, Types, Lengths, Live
<1>6. Phases' /\ CandidatesAlive' /\ EndedNotExecuted'
  BY <1>1, <1>2 DEF IInv, Phases, CandidatesAlive, EndedNotExecuted, Ended
<1>7. FullIsReported'
  BY <1>1, <1>2 DEF IInv, FullIsReported, OnDevice, Live
<1> QED
  BY <1>3, <1>4, <1>5, <1>6, <1>7 DEF IInv

(* A candidate taken from a queue that has not ended: no data changes.     *)
LEMMA CandidateKeeps ==
  ASSUME IInv, pc = "dequeue", round' \in Rounds,
         UNCHANGED <<status, len, prompt, blockVars, clock, finishedSeqIds, abortedReqIds,
                     finishedQueue, abortedQueue, flagVars, pc, executing>>,
         waiting' \in Seq(Reqs), running' \in Seq(Reqs), swapped' \in Seq(Reqs), Placed', CandidatesAlive'
  PROVE  IInv'
<1>1. Lengths' /\ Conserved'
  BY DataFrame
<1>2. Types'
  BY DEF IInv, Types, blockVars, flagVars
<1>3. Phases' /\ EndedNotExecuted' /\ FullIsReported'
  BY DEF IInv, Phases, EndedNotExecuted, FullIsReported, OnDevice, Ended, Live
<1> QED
  BY <1>1, <1>2, <1>3 DEF IInv

LEMMA FirstPlaceChange ==
  ASSUME NEW a \in Nat, NEW b \in Nat, NEW c \in Nat, NEW d \in Nat, NEW e \in Nat, NEW x \in Nat, NEW f \in Nat,
         a = f + x
  PROVE  /\ f + b + c = a + b + c - x /\ f + b + c + d = a + b + c + d - x
         /\ f + b + c + d + e = a + b + c + d + e - x
         /\ f + (b + x) + c = a + b + c /\ f + (b + x) + c + d = a + b + c + d
         /\ f + b + (c + x) + d = a + b + c + d
         /\ f + (b + x) + c + d + e = a + b + c + d + e
  OBVIOUS

LEMMA DequeueWaitingKeeps ==
  ASSUME IInv, PrepCandidates, DequeueFrom = "waiting"
  PROVE  IInv'
<1> DEFINE r == Head(waiting)
<1>1. /\ pc = "dequeue" /\ waiting # <<>> /\ waiting \in Seq(Reqs) /\ round \in Rounds
      /\ waiting' = Tail(waiting) /\ UNCHANGED <<running, swapped>>
      /\ UNCHANGED <<finishedQueue, abortedQueue, flagVars, pc, executing>>
  BY DEF PrepCandidates, Dequeue, DequeueFrom, IInv, Types
<1>2. r \in Reqs /\ Tail(waiting) \in Seq(Reqs) /\ Occ(r, waiting) # 0
  BY <1>1, HeadOccurs
<1>3. ASSUME NEW q
      PROVE  /\ Occ(q, waiting) = Occ(q, waiting') + One(r = q)
             /\ Occ(q, waiting') \in Nat /\ One(r = q) \in Nat
  <2>1. Occ(q, waiting) = Occ(q, Tail(waiting)) + One(r = q)
    BY <1>1, OccTail
  <2>2. Occ(q, Tail(waiting)) \in Nat
    BY <1>2, OccType
  <2> QED BY <1>1, <2>1, <2>2 DEF One
<1>4. \/ Ended(r) /\ ClearSeqGrps({r}) /\ UNCHANGED round
      \/ /\ ~Ended(r) /\ round' = [round EXCEPT !.waiting = Append(@, r)]
         /\ UNCHANGED <<status, len, prompt, blockVars, clock, finishedSeqIds, abortedReqIds>>
      \/ /\ ~Ended(r) /\ round' = [round EXCEPT !.recompute = Append(@, r)]
         /\ UNCHANGED <<status, len, prompt, blockVars, clock, finishedSeqIds, abortedReqIds>>
  BY DEF PrepCandidates, Dequeue, r
<1> HIDE DEF r
<1>5. status[r] = "WAITING"
  <2>1. InWaiting(r) # 0
    BY <1>2, OccNat DEF IInv, InWaiting
  <2> QED BY <1>2, <2>1, PlaceTellsStatus
<1>6. waiting' \in Seq(Reqs) /\ running' \in Seq(Reqs) /\ swapped' \in Seq(Reqs)
  BY <1>1, <1>2 DEF IInv, Types
<1>7. CASE Ended(r) /\ ClearSeqGrps({r}) /\ UNCHANGED round
  <2>1. Placed'
    <3> SUFFICES ASSUME NEW q \in Reqs
                 PROVE  /\ (InWaiting(q))' = One(status'[q] = "WAITING")
                        /\ (InRunning(q))' = One(status'[q] = "RUNNING")
                        /\ (InSwapped(q))' = One(status'[q] = "SWAPPED")
      BY DEF Placed
    <3>1. status'[q] = IF q = r THEN "FINISH" ELSE status[q]
      BY <1>7 DEF ClearSeqGrps
    <3>2. /\ InWaiting(q) = One(status[q] = "WAITING")
          /\ InRunning(q) = One(status[q] = "RUNNING")
          /\ InSwapped(q) = One(status[q] = "SWAPPED")
      BY DEF IInv, Placed
    <3>3. InRunning(q)' = InRunning(q) /\ InSwapped(q)' = InSwapped(q)
      BY <1>1, <1>7 DEF InRunning, InSwapped
    <3>4. InWaiting(q)' = InWaiting(q) - One(r = q)
      <4>1. Occ(q, round.waiting) \in Nat /\ Occ(q, round.recompute) \in Nat /\ Occ(q, round.preempted) \in Nat
        BY OccNat DEF IInv
      <4>2. InWaiting(q)' = Occ(q, waiting') + Occ(q, round.waiting) + Occ(q, round.recompute) + Occ(q, round.preempted)
        BY <1>7 DEF InWaiting
      <4>3. Occ(q, waiting) = Occ(q, waiting') + One(r = q) /\ Occ(q, waiting') \in Nat /\ One(r = q) \in Nat
        BY <1>3
      <4> QED BY <4>1, <4>2, <4>3, FirstPlaceChange DEF InWaiting
    <3>5. CASE q = r
      BY <1>5, <3>1, <3>2, <3>3, <3>4, <3>5 DEF One
    <3>6. CASE q # r
      BY <3>1, <3>2, <3>3, <3>4, <3>6 DEF One
    <3> QED BY <3>5, <3>6
  <2>2. {r} \in SUBSET Reqs
    BY <1>2
  <2> QED BY <1>1, <1>6, <1>7, <2>1, <2>2, ClearKeeps
<1>8. CASE /\ ~Ended(r) /\ round' = [round EXCEPT !.waiting = Append(@, r)]
           /\ UNCHANGED <<status, len, prompt, blockVars, clock, finishedSeqIds, abortedReqIds>>
  <2>1. round.waiting \in Seq(Reqs)
    BY <1>1 DEF Rounds
  <2>2. Append(round.waiting, r) \in Seq(Reqs)
    BY <1>2, <2>1, OccAppend
  <2>3. round' \in Rounds
    <3>1. ASSUME NEW a \in Seq(Reqs)
          PROVE  [round EXCEPT !.waiting = a] \in Rounds
      BY <1>1 DEF Rounds
    <3> QED BY <1>8, <2>2, <3>1
  <2>4. /\ round'.waiting = Append(round.waiting, r) /\ round'.recompute = round.recompute /\ round'.preempted = round.preempted
        /\ round'.running = round.running /\ round'.decode = round.decode /\ round'.swappedIn = round.swappedIn /\ round'.prefill = round.prefill
        /\ round'.swapped = round.swapped /\ round'.swappedOut = round.swappedOut
    BY <1>1, <1>8 DEF Rounds
  <2>5. ASSUME NEW q
        PROVE  Occ(q, round'.waiting) = Occ(q, round.waiting) + One(r = q)
    <3>1. Occ(q, Append(round.waiting, r)) = Occ(q, round.waiting) + One(r = q)
      BY <1>2, <2>1, OccAppend
    <3> QED BY <2>4, <3>1
  <2>6. Placed'
    <3>1. ASSUME NEW q \in Reqs
          PROVE  InWaiting(q)' = InWaiting(q) /\ InRunning(q)' = InRunning(q) /\ InSwapped(q)' = InSwapped(q)
      <4>1. InRunning(q)' = InRunning(q) /\ InSwapped(q)' = InSwapped(q)
        BY <1>1, <2>4 DEF InRunning, InSwapped
      <4>2. Occ(q, round.waiting) \in Nat /\ Occ(q, round.recompute) \in Nat /\ Occ(q, round.preempted) \in Nat
        BY OccNat DEF IInv
      <4>3. InWaiting(q)' = Occ(q, waiting') + Occ(q, round'.waiting) + Occ(q, round.recompute) + Occ(q, round.preempted)
        BY <2>4 DEF InWaiting
      <4>4. Occ(q, waiting) = Occ(q, waiting') + One(r = q) /\ Occ(q, waiting') \in Nat /\ One(r = q) \in Nat
        BY <1>3
      <4>5. Occ(q, round'.waiting) = Occ(q, round.waiting) + One(r = q)
        BY <2>5
      <4> QED BY <4>1, <4>2, <4>3, <4>4, <4>5, FirstPlaceChange DEF InWaiting
    <3> QED BY <1>8, <3>1 DEF IInv, Placed
  <2>7. CandidatesAlive'
    <3> SUFFICES ASSUME NEW q \in Reqs, Ended(q)
                 PROVE  Occ(q, round'.waiting) = 0
      BY <1>8, <2>4 DEF IInv, CandidatesAlive, Ended
    <3>1. Occ(q, round.waiting) = 0 /\ q # r
      BY <1>8 DEF IInv, CandidatesAlive
    <3> QED BY <2>5, <3>1 DEF One
  <2> QED BY <1>1, <1>6, <1>8, <2>3, <2>6, <2>7, CandidateKeeps
<1>9. CASE /\ ~Ended(r) /\ round' = [round EXCEPT !.recompute = Append(@, r)]
           /\ UNCHANGED <<status, len, prompt, blockVars, clock, finishedSeqIds, abortedReqIds>>
  <2>1. round.recompute \in Seq(Reqs)
    BY <1>1 DEF Rounds
  <2>2. Append(round.recompute, r) \in Seq(Reqs)
    BY <1>2, <2>1, OccAppend
  <2>3. round' \in Rounds
    <3>1. ASSUME NEW a \in Seq(Reqs)
          PROVE  [round EXCEPT !.recompute = a] \in Rounds
      BY <1>1 DEF Rounds
    <3> QED BY <1>9, <2>2, <3>1
  <2>4. /\ round'.waiting = round.waiting /\ round'.recompute = Append(round.recompute, r) /\ round'.preempted = round.preempted
        /\ round'.running = round.running /\ round'.decode = round.decode /\ round'.swappedIn = round.swappedIn /\ round'.prefill = round.prefill
        /\ round'.swapped = round.swapped /\ round'.swappedOut = round.swappedOut
    BY <1>1, <1>9 DEF Rounds
  <2>5. ASSUME NEW q
        PROVE  Occ(q, round'.recompute) = Occ(q, round.recompute) + One(r = q)
    <3>1. Occ(q, Append(round.recompute, r)) = Occ(q, round.recompute) + One(r = q)
      BY <1>2, <2>1, OccAppend
    <3> QED BY <2>4, <3>1
  <2>6. Placed'
    <3>1. ASSUME NEW q \in Reqs
          PROVE  InWaiting(q)' = InWaiting(q) /\ InRunning(q)' = InRunning(q) /\ InSwapped(q)' = InSwapped(q)
      <4>1. InRunning(q)' = InRunning(q) /\ InSwapped(q)' = InSwapped(q)
        BY <1>1, <2>4 DEF InRunning, InSwapped
      <4>2. Occ(q, round.waiting) \in Nat /\ Occ(q, round.recompute) \in Nat /\ Occ(q, round.preempted) \in Nat
        BY OccNat DEF IInv
      <4>3. InWaiting(q)' = Occ(q, waiting') + Occ(q, round.waiting) + Occ(q, round'.recompute) + Occ(q, round.preempted)
        BY <2>4 DEF InWaiting
      <4>4. Occ(q, waiting) = Occ(q, waiting') + One(r = q) /\ Occ(q, waiting') \in Nat /\ One(r = q) \in Nat
        BY <1>3
      <4>5. Occ(q, round'.recompute) = Occ(q, round.recompute) + One(r = q)
        BY <2>5
      <4> QED BY <4>1, <4>2, <4>3, <4>4, <4>5, FirstPlaceChange DEF InWaiting
    <3> QED BY <1>9, <3>1 DEF IInv, Placed
  <2>7. CandidatesAlive'
    <3> SUFFICES ASSUME NEW q \in Reqs, Ended(q)
                 PROVE  Occ(q, round'.recompute) = 0
      BY <1>9, <2>4 DEF IInv, CandidatesAlive, Ended
    <3>1. Occ(q, round.recompute) = 0 /\ q # r
      BY <1>9 DEF IInv, CandidatesAlive
    <3> QED BY <2>5, <3>1 DEF One
  <2> QED BY <1>1, <1>6, <1>9, <2>3, <2>6, <2>7, CandidateKeeps
<1> QED
  BY <1>4, <1>7, <1>8, <1>9

LEMMA DequeueRunningKeeps ==
  ASSUME IInv, PrepCandidates, DequeueFrom = "running"
  PROVE  IInv'
<1> DEFINE r == Head(running)
<1>1. /\ pc = "dequeue" /\ running # <<>> /\ running \in Seq(Reqs) /\ round \in Rounds
      /\ running' = Tail(running) /\ UNCHANGED <<waiting, swapped>>
      /\ UNCHANGED <<finishedQueue, abortedQueue, flagVars, pc, executing>>
  BY DEF PrepCandidates, Dequeue, DequeueFrom, IInv, Types
<1>2. r \in Reqs /\ Tail(running) \in Seq(Reqs) /\ Occ(r, running) # 0
  BY <1>1, HeadOccurs
<1>3. ASSUME NEW q
      PROVE  /\ Occ(q, running) = Occ(q, running') + One(r = q)
             /\ Occ(q, running') \in Nat /\ One(r = q) \in Nat
  <2>1. Occ(q, running) = Occ(q, Tail(running)) + One(r = q)
    BY <1>1, OccTail
  <2>2. Occ(q, Tail(running)) \in Nat
    BY <1>2, OccType
  <2> QED BY <1>1, <2>1, <2>2 DEF One
<1>4. \/ Ended(r) /\ ClearSeqGrps({r}) /\ UNCHANGED round
      \/ /\ ~Ended(r) /\ round' = [round EXCEPT !.running = Append(@, r)]
         /\ UNCHANGED <<status, len, prompt, blockVars, clock, finishedSeqIds, abortedReqIds>>
  BY DEF PrepCandidates, Dequeue, r
<1> HIDE DEF r
<1>5. status[r] = "RUNNING"
  <2>1. InRunning(r) # 0
    BY <1>2, OccNat DEF IInv, InRunning
  <2> QED BY <1>2, <2>1, PlaceTellsStatus
<1>6. waiting' \in Seq(Reqs) /\ running' \in Seq(Reqs) /\ swapped' \in Seq(Reqs)
  BY <1>1, <1>2 DEF IInv, Types
<1>7. CASE Ended(r) /\ ClearSeqGrps({r}) /\ UNCHANGED round
  <2>1. Placed'
    <3> SUFFICES ASSUME NEW q \in Reqs
                 PROVE  /\ (InWaiting(q))' = One(status'[q] = "WAITING")
                        /\ (InRunning(q))' = One(status'[q] = "RUNNING")
                        /\ (InSwapped(q))' = One(status'[q] = "SWAPPED")
      BY DEF Placed
    <3>1. status'[q] = IF q = r THEN "FINISH" ELSE status[q]
      BY <1>7 DEF ClearSeqGrps
    <3>2. /\ InWaiting(q) = One(status[q] = "WAITING")
          /\ InRunning(q) = One(status[q] = "RUNNING")
          /\ InSwapped(q) = One(status[q] = "SWAPPED")
      BY DEF IInv, Placed
    <3>3. InWaiting(q)' = InWaiting(q) /\ InSwapped(q)' = InSwapped(q)
      BY <1>1, <1>7 DEF InWaiting, InSwapped
    <3>4. InRunning(q)' = InRunning(q) - One(r = q)
      <4>1. Occ(q, round.running) \in Nat /\ Occ(q, round.decode) \in Nat /\ Occ(q, round.swappedIn) \in Nat /\ Occ(q, round.prefill) \in Nat
        BY OccNat DEF IInv
      <4>2. InRunning(q)' = Occ(q, running') + Occ(q, round.running) + Occ(q, round.decode) + Occ(q, round.swappedIn) + Occ(q, round.prefill)
        BY <1>7 DEF InRunning
      <4>3. Occ(q, running) = Occ(q, running') + One(r = q) /\ Occ(q, running') \in Nat /\ One(r = q) \in Nat
        BY <1>3
      <4> QED BY <4>1, <4>2, <4>3, FirstPlaceChange DEF InRunning
    <3>5. CASE q = r
      BY <1>5, <3>1, <3>2, <3>3, <3>4, <3>5 DEF One
    <3>6. CASE q # r
      BY <3>1, <3>2, <3>3, <3>4, <3>6 DEF One
    <3> QED BY <3>5, <3>6
  <2>2. {r} \in SUBSET Reqs
    BY <1>2
  <2> QED BY <1>1, <1>6, <1>7, <2>1, <2>2, ClearKeeps
<1>8. CASE /\ ~Ended(r) /\ round' = [round EXCEPT !.running = Append(@, r)]
           /\ UNCHANGED <<status, len, prompt, blockVars, clock, finishedSeqIds, abortedReqIds>>
  <2>1. round.running \in Seq(Reqs)
    BY <1>1 DEF Rounds
  <2>2. Append(round.running, r) \in Seq(Reqs)
    BY <1>2, <2>1, OccAppend
  <2>3. round' \in Rounds
    <3>1. ASSUME NEW a \in Seq(Reqs)
          PROVE  [round EXCEPT !.running = a] \in Rounds
      BY <1>1 DEF Rounds
    <3> QED BY <1>8, <2>2, <3>1
  <2>4. /\ round'.waiting = round.waiting /\ round'.recompute = round.recompute /\ round'.preempted = round.preempted
        /\ round'.running = Append(round.running, r) /\ round'.decode = round.decode /\ round'.swappedIn = round.swappedIn /\ round'.prefill = round.prefill
        /\ round'.swapped = round.swapped /\ round'.swappedOut = round.swappedOut
    BY <1>1, <1>8 DEF Rounds
  <2>5. ASSUME NEW q
        PROVE  Occ(q, round'.running) = Occ(q, round.running) + One(r = q)
    <3>1. Occ(q, Append(round.running, r)) = Occ(q, round.running) + One(r = q)
      BY <1>2, <2>1, OccAppend
    <3> QED BY <2>4, <3>1
  <2>6. Placed'
    <3>1. ASSUME NEW q \in Reqs
          PROVE  InWaiting(q)' = InWaiting(q) /\ InRunning(q)' = InRunning(q) /\ InSwapped(q)' = InSwapped(q)
      <4>1. InWaiting(q)' = InWaiting(q) /\ InSwapped(q)' = InSwapped(q)
        BY <1>1, <2>4 DEF InWaiting, InSwapped
      <4>2. Occ(q, round.running) \in Nat /\ Occ(q, round.decode) \in Nat /\ Occ(q, round.swappedIn) \in Nat /\ Occ(q, round.prefill) \in Nat
        BY OccNat DEF IInv
      <4>3. InRunning(q)' = Occ(q, running') + Occ(q, round'.running) + Occ(q, round.decode) + Occ(q, round.swappedIn) + Occ(q, round.prefill)
        BY <2>4 DEF InRunning
      <4>4. Occ(q, running) = Occ(q, running') + One(r = q) /\ Occ(q, running') \in Nat /\ One(r = q) \in Nat
        BY <1>3
      <4>5. Occ(q, round'.running) = Occ(q, round.running) + One(r = q)
        BY <2>5
      <4> QED BY <4>1, <4>2, <4>3, <4>4, <4>5, FirstPlaceChange DEF InRunning
    <3> QED BY <1>8, <3>1 DEF IInv, Placed
  <2>7. CandidatesAlive'
    <3> SUFFICES ASSUME NEW q \in Reqs, Ended(q)
                 PROVE  Occ(q, round'.running) = 0
      BY <1>8, <2>4 DEF IInv, CandidatesAlive, Ended
    <3>1. Occ(q, round.running) = 0 /\ q # r
      BY <1>8 DEF IInv, CandidatesAlive
    <3> QED BY <2>5, <3>1 DEF One
  <2> QED BY <1>1, <1>6, <1>8, <2>3, <2>6, <2>7, CandidateKeeps
<1> QED
  BY <1>4, <1>7, <1>8

LEMMA DequeueSwappedKeeps ==
  ASSUME IInv, PrepCandidates, DequeueFrom = "swapped"
  PROVE  IInv'
<1> DEFINE r == Head(swapped)
<1>1. /\ pc = "dequeue" /\ swapped # <<>> /\ swapped \in Seq(Reqs) /\ round \in Rounds
      /\ swapped' = Tail(swapped) /\ UNCHANGED <<waiting, running>>
      /\ UNCHANGED <<finishedQueue, abortedQueue, flagVars, pc, executing>>
  BY DEF PrepCandidates, Dequeue, DequeueFrom, IInv, Types
<1>2. r \in Reqs /\ Tail(swapped) \in Seq(Reqs) /\ Occ(r, swapped) # 0
  BY <1>1, HeadOccurs
<1>3. ASSUME NEW q
      PROVE  /\ Occ(q, swapped) = Occ(q, swapped') + One(r = q)
             /\ Occ(q, swapped') \in Nat /\ One(r = q) \in Nat
  <2>1. Occ(q, swapped) = Occ(q, Tail(swapped)) + One(r = q)
    BY <1>1, OccTail
  <2>2. Occ(q, Tail(swapped)) \in Nat
    BY <1>2, OccType
  <2> QED BY <1>1, <2>1, <2>2 DEF One
<1>4. \/ Ended(r) /\ ClearSeqGrps({r}) /\ UNCHANGED round
      \/ /\ ~Ended(r) /\ round' = [round EXCEPT !.swapped = Append(@, r)]
         /\ UNCHANGED <<status, len, prompt, blockVars, clock, finishedSeqIds, abortedReqIds>>
  BY DEF PrepCandidates, Dequeue, r
<1> HIDE DEF r
<1>5. status[r] = "SWAPPED"
  <2>1. InSwapped(r) # 0
    BY <1>2, OccNat DEF IInv, InSwapped
  <2> QED BY <1>2, <2>1, PlaceTellsStatus
<1>6. waiting' \in Seq(Reqs) /\ running' \in Seq(Reqs) /\ swapped' \in Seq(Reqs)
  BY <1>1, <1>2 DEF IInv, Types
<1>7. CASE Ended(r) /\ ClearSeqGrps({r}) /\ UNCHANGED round
  <2>1. Placed'
    <3> SUFFICES ASSUME NEW q \in Reqs
                 PROVE  /\ (InWaiting(q))' = One(status'[q] = "WAITING")
                        /\ (InRunning(q))' = One(status'[q] = "RUNNING")
                        /\ (InSwapped(q))' = One(status'[q] = "SWAPPED")
      BY DEF Placed
    <3>1. status'[q] = IF q = r THEN "FINISH" ELSE status[q]
      BY <1>7 DEF ClearSeqGrps
    <3>2. /\ InWaiting(q) = One(status[q] = "WAITING")
          /\ InRunning(q) = One(status[q] = "RUNNING")
          /\ InSwapped(q) = One(status[q] = "SWAPPED")
      BY DEF IInv, Placed
    <3>3. InWaiting(q)' = InWaiting(q) /\ InRunning(q)' = InRunning(q)
      BY <1>1, <1>7 DEF InWaiting, InRunning
    <3>4. InSwapped(q)' = InSwapped(q) - One(r = q)
      <4>1. Occ(q, round.swapped) \in Nat /\ Occ(q, round.swappedOut) \in Nat
        BY OccNat DEF IInv
      <4>2. InSwapped(q)' = Occ(q, swapped') + Occ(q, round.swapped) + Occ(q, round.swappedOut)
        BY <1>7 DEF InSwapped
      <4>3. Occ(q, swapped) = Occ(q, swapped') + One(r = q) /\ Occ(q, swapped') \in Nat /\ One(r = q) \in Nat
        BY <1>3
      <4> QED BY <4>1, <4>2, <4>3, FirstPlaceChange DEF InSwapped
    <3>5. CASE q = r
      BY <1>5, <3>1, <3>2, <3>3, <3>4, <3>5 DEF One
    <3>6. CASE q # r
      BY <3>1, <3>2, <3>3, <3>4, <3>6 DEF One
    <3> QED BY <3>5, <3>6
  <2>2. {r} \in SUBSET Reqs
    BY <1>2
  <2> QED BY <1>1, <1>6, <1>7, <2>1, <2>2, ClearKeeps
<1>8. CASE /\ ~Ended(r) /\ round' = [round EXCEPT !.swapped = Append(@, r)]
           /\ UNCHANGED <<status, len, prompt, blockVars, clock, finishedSeqIds, abortedReqIds>>
  <2>1. round.swapped \in Seq(Reqs)
    BY <1>1 DEF Rounds
  <2>2. Append(round.swapped, r) \in Seq(Reqs)
    BY <1>2, <2>1, OccAppend
  <2>3. round' \in Rounds
    <3>1. ASSUME NEW a \in Seq(Reqs)
          PROVE  [round EXCEPT !.swapped = a] \in Rounds
      BY <1>1 DEF Rounds
    <3> QED BY <1>8, <2>2, <3>1
  <2>4. /\ round'.waiting = round.waiting /\ round'.recompute = round.recompute /\ round'.preempted = round.preempted
        /\ round'.running = round.running /\ round'.decode = round.decode /\ round'.swappedIn = round.swappedIn /\ round'.prefill = round.prefill
        /\ round'.swapped = Append(round.swapped, r) /\ round'.swappedOut = round.swappedOut
    BY <1>1, <1>8 DEF Rounds
  <2>5. ASSUME NEW q
        PROVE  Occ(q, round'.swapped) = Occ(q, round.swapped) + One(r = q)
    <3>1. Occ(q, Append(round.swapped, r)) = Occ(q, round.swapped) + One(r = q)
      BY <1>2, <2>1, OccAppend
    <3> QED BY <2>4, <3>1
  <2>6. Placed'
    <3>1. ASSUME NEW q \in Reqs
          PROVE  InWaiting(q)' = InWaiting(q) /\ InRunning(q)' = InRunning(q) /\ InSwapped(q)' = InSwapped(q)
      <4>1. InWaiting(q)' = InWaiting(q) /\ InRunning(q)' = InRunning(q)
        BY <1>1, <2>4 DEF InWaiting, InRunning
      <4>2. Occ(q, round.swapped) \in Nat /\ Occ(q, round.swappedOut) \in Nat
        BY OccNat DEF IInv
      <4>3. InSwapped(q)' = Occ(q, swapped') + Occ(q, round'.swapped) + Occ(q, round.swappedOut)
        BY <2>4 DEF InSwapped
      <4>4. Occ(q, swapped) = Occ(q, swapped') + One(r = q) /\ Occ(q, swapped') \in Nat /\ One(r = q) \in Nat
        BY <1>3
      <4>5. Occ(q, round'.swapped) = Occ(q, round.swapped) + One(r = q)
        BY <2>5
      <4> QED BY <4>1, <4>2, <4>3, <4>4, <4>5, FirstPlaceChange DEF InSwapped
    <3> QED BY <1>8, <3>1 DEF IInv, Placed
  <2>7. CandidatesAlive'
    <3> SUFFICES ASSUME NEW q \in Reqs, Ended(q)
                 PROVE  Occ(q, round'.swapped) = 0
      BY <1>8, <2>4 DEF IInv, CandidatesAlive, Ended
    <3>1. Occ(q, round.swapped) = 0 /\ q # r
      BY <1>8 DEF IInv, CandidatesAlive
    <3> QED BY <2>5, <3>1 DEF One
  <2> QED BY <1>1, <1>6, <1>8, <2>3, <2>6, <2>7, CandidateKeeps
<1> QED
  BY <1>4, <1>7, <1>8

LEMMA PrepCandidatesKeeps ==
  ASSUME IInv, PrepCandidates
  PROVE  IInv'
<1>1. DequeueFrom \in {"waiting", "running", "swapped"}
  BY DEF PrepCandidates, DequeueFrom
<1> QED
  BY <1>1, DequeueWaitingKeeps, DequeueRunningKeeps, DequeueSwappedKeeps

LEMMA StopKeeps ==
  ASSUME IInv, StopRunningRequest
  PROVE  IInv'
<1> DEFINE all == ToSet(waiting \o running \o swapped)
<1>1. /\ pc = "idle" /\ round = EmptyRound /\ ClearSeqGrps(all)
      /\ waiting' = <<>> /\ running' = <<>> /\ swapped' = <<>>
      /\ UNCHANGED <<finishedQueue, abortedQueue, flagVars, pc, round, executing>>
  BY DEF StopRunningRequest, IInv, Phases
<1>2. waiting \in Seq(Reqs) /\ running \in Seq(Reqs) /\ swapped \in Seq(Reqs)
  BY DEF IInv, Types
<1>3. waiting \o running \in Seq(Reqs) /\ waiting \o running \o swapped \in Seq(Reqs)
  BY <1>2
<1>4. all \in SUBSET Reqs
  BY <1>3 DEF ToSet
<1>5. ASSUME NEW q \in Reqs, q \notin all
      PROVE  ~Live(q)
  <2>1. Occ(q, waiting \o running \o swapped) = 0
    BY <1>3, <1>5, OccMember
  <2>2. Occ(q, waiting \o running \o swapped) = Occ(q, waiting) + Occ(q, running) + Occ(q, swapped)
    BY <1>2, OccConcat3
  <2>4. Occ(q, waiting) \in Nat /\ Occ(q, running) \in Nat /\ Occ(q, swapped) \in Nat
    BY OccNat DEF IInv
  <2>5. Occ(q, waiting) = 0 /\ Occ(q, running) = 0 /\ Occ(q, swapped) = 0
    BY <2>1, <2>2, <2>4
  <2>6. InWaiting(q) = 0 /\ InRunning(q) = 0 /\ InSwapped(q) = 0
    BY <1>1, <2>5, OccEmpty DEF InWaiting, InRunning, InSwapped, EmptyRound
  <2> QED BY <2>6 DEF IInv, Placed, One, Live
<1> HIDE DEF all
<1>6. Placed'
  <2> SUFFICES ASSUME NEW q \in Reqs
               PROVE  /\ (InWaiting(q))' = One(status'[q] = "WAITING")
                      /\ (InRunning(q))' = One(status'[q] = "RUNNING")
                      /\ (InSwapped(q))' = One(status'[q] = "SWAPPED")
    BY DEF Placed
  <2>1. InWaiting(q)' = 0 /\ InRunning(q)' = 0 /\ InSwapped(q)' = 0
    BY <1>1, OccEmpty DEF InWaiting, InRunning, InSwapped, EmptyRound
  <2>2. status'[q] = IF q \in all THEN "FINISH" ELSE status[q]
    BY <1>1 DEF ClearSeqGrps
  <2> QED BY <1>5, <2>1, <2>2 DEF Live, One
<1>7. waiting' \in Seq(Reqs) /\ running' \in Seq(Reqs) /\ swapped' \in Seq(Reqs)
  BY <1>1
<1> QED
  BY <1>1, <1>4, <1>6, <1>7, ClearKeeps

(* Sorting a list without duplicates loses and duplicates nothing.         *)
LEMMA SortedKeepsOcc ==
  ASSUME NEW s \in Seq(Reqs), NEW q, Occ(q, s) <= 1
  PROVE  /\ SortedBySeqId(ToSet(s)) \in Seq(Reqs)
         /\ Occ(q, SortedBySeqId(ToSet(s))) = Occ(q, s)
<1>1. ToSet(s) \in SUBSET Reqs
  BY DEF ToSet
<1>2. /\ SortedBySeqId(ToSet(s)) \in Seq(Reqs)
      /\ Occ(q, SortedBySeqId(ToSet(s))) = One(q \in ToSet(s))
  BY <1>1, SortedBySeqIdProperties
<1>3. Occ(q, s) \in Nat
  BY OccType
<1>4. Occ(q, s) # 0 <=> q \in ToSet(s)
  BY OccMember
<1> QED
  BY <1>2, <1>3, <1>4 DEF One

(* No place counts a request more than once.                               *)
LEMMA AtMostOnce ==
  ASSUME IInv, NEW q \in Reqs
  PROVE  /\ Occ(q, round.waiting) <= 1 /\ Occ(q, round.running) <= 1 /\ Occ(q, round.swapped) <= 1
         /\ Occ(q, round.decode) + Occ(q, round.swappedIn) <= 1
<1>1. /\ Occ(q, running) \in Nat /\ Occ(q, round.running) \in Nat /\ Occ(q, round.swappedIn) \in Nat
      /\ Occ(q, round.prefill) \in Nat /\ Occ(q, round.decode) \in Nat
  BY OccNat DEF IInv
<1>2. /\ Occ(q, swapped) \in Nat /\ Occ(q, round.swapped) \in Nat /\ Occ(q, round.swappedOut) \in Nat
      /\ Occ(q, waiting) \in Nat /\ Occ(q, round.waiting) \in Nat
      /\ Occ(q, round.recompute) \in Nat /\ Occ(q, round.preempted) \in Nat
  BY OccNat DEF IInv
<1>3. InWaiting(q) <= 1 /\ InRunning(q) <= 1 /\ InSwapped(q) <= 1
  BY DEF IInv, Placed, One
<1>4. Occ(q, round.waiting) <= 1 /\ Occ(q, round.swapped) <= 1
  BY <1>2, <1>3 DEF InWaiting, InSwapped
<1>5. Occ(q, round.running) <= 1 /\ Occ(q, round.decode) + Occ(q, round.swappedIn) <= 1
  BY <1>1, <1>3 DEF InRunning
<1> QED
  BY <1>4, <1>5

LEMMA BatchProperties ==
  ASSUME IInv, NEW q
  PROVE  /\ Batch \in SUBSET Reqs
         /\ q \in Batch => status[q] = "RUNNING" /\ ~Ended(q)
         /\ Occ(q, round.decode) # 0 \/ Occ(q, round.swappedIn) # 0 \/ Occ(q, round.prefill) # 0 => q \in Batch
<1> DEFINE a == round.decode
           b == round.swappedIn
           c == round.prefill
<1>1. a \in Seq(Reqs) /\ b \in Seq(Reqs) /\ c \in Seq(Reqs)
  BY DEF IInv, Types, Rounds
<1>2. Batch = ToSet(a \o b \o c)
  BY DEF Batch
<1>3. Occ(q, a) \in Nat /\ Occ(q, b) \in Nat /\ Occ(q, c) \in Nat
  BY <1>1, OccType
<1> HIDE DEF a, b, c
<1>5. a \o b \o c \in Seq(Reqs) /\ Occ(q, a \o b \o c) = Occ(q, a) + Occ(q, b) + Occ(q, c)
  BY <1>1, OccConcat3
<1>6. Batch \in SUBSET Reqs
  BY <1>2, <1>5 DEF ToSet
<1>7. Occ(q, a \o b \o c) # 0 <=> q \in Batch
  BY <1>2, <1>5, OccMember
<1>8. q \in Batch <=> Occ(q, a) # 0 \/ Occ(q, b) # 0 \/ Occ(q, c) # 0
  BY <1>3, <1>5, <1>7
<1>9. ASSUME q \in Batch
      PROVE  status[q] = "RUNNING" /\ ~Ended(q)
  <2>1. q \in Reqs
    BY <1>6, <1>9
  <2>2. Occ(q, round.decode) # 0 \/ Occ(q, round.swappedIn) # 0 \/ Occ(q, round.prefill) # 0
    BY <1>8, <1>9 DEF a, b, c
  <2>3. ~Ended(q)
    BY <2>1, <2>2 DEF IInv, CandidatesAlive
  <2>4. /\ Occ(q, running) \in Nat /\ Occ(q, round.running) \in Nat /\ Occ(q, round.decode) \in Nat
        /\ Occ(q, round.swappedIn) \in Nat /\ Occ(q, round.prefill) \in Nat
    BY OccNat DEF IInv
  <2>5. InRunning(q) # 0
    BY <2>2, <2>4 DEF InRunning
  <2> QED BY <2>1, <2>3, <2>5, PlaceTellsStatus
<1> QED
  BY <1>6, <1>8, <1>9 DEF a, b, c

(* BackfillConcurrentQueue puts every candidate back, once.                *)
LEMMA BackfillPlaces ==
  ASSUME IInv, EndRound
  PROVE  waiting' \in Seq(Reqs) /\ running' \in Seq(Reqs) /\ swapped' \in Seq(Reqs) /\ Placed'
<1> DEFINE w == SortedBySeqId(ToSet(round.waiting))
           u == SortedBySeqId(ToSet(round.running))
           x == SortedBySeqId(ToSet(round.swapped))
           b == round.decode \o round.swappedIn
           d == SortedBySeqId(ToSet(b))
<1>1. /\ waiting' = w \o waiting \o round.preempted
      /\ running' = u \o running \o d \o round.prefill
      /\ swapped' = x \o swapped \o round.swappedOut
      /\ round' = EmptyRound /\ status' = status /\ round.recompute = <<>>
  BY DEF EndRound, BackfillConcurrentQueue, IInv, Phases
<1>2. /\ round.waiting \in Seq(Reqs) /\ round.running \in Seq(Reqs) /\ round.swapped \in Seq(Reqs)
      /\ round.decode \in Seq(Reqs) /\ round.swappedIn \in Seq(Reqs) /\ round.preempted \in Seq(Reqs)
      /\ round.prefill \in Seq(Reqs) /\ round.swappedOut \in Seq(Reqs)
      /\ waiting \in Seq(Reqs) /\ running \in Seq(Reqs) /\ swapped \in Seq(Reqs)
  BY DEF IInv, Types, Rounds
<1>3. b \in Seq(Reqs) /\ \A q : Occ(q, b) = Occ(q, round.decode) + Occ(q, round.swappedIn)
  BY <1>2, OccConcat
<1> HIDE DEF b
<1>4. w \in Seq(Reqs) /\ u \in Seq(Reqs) /\ x \in Seq(Reqs) /\ d \in Seq(Reqs)
  <2>1. ASSUME NEW s \in Seq(Reqs)
        PROVE  SortedBySeqId(ToSet(s)) \in Seq(Reqs)
    <3>1. ToSet(s) \in SUBSET Reqs
      BY DEF ToSet
    <3> QED BY <3>1, SortedBySeqIdProperties
  <2> QED BY <1>2, <1>3, <2>1
<1>5. ASSUME NEW q \in Reqs
      PROVE  /\ Occ(q, w) = Occ(q, round.waiting) /\ Occ(q, u) = Occ(q, round.running)
             /\ Occ(q, x) = Occ(q, round.swapped)
             /\ Occ(q, d) = Occ(q, round.decode) + Occ(q, round.swappedIn)
  <2>1. /\ Occ(q, round.waiting) <= 1 /\ Occ(q, round.running) <= 1 /\ Occ(q, round.swapped) <= 1
        /\ Occ(q, b) <= 1
    BY <1>3, AtMostOnce
  <2>2. Occ(q, w) = Occ(q, round.waiting) /\ Occ(q, u) = Occ(q, round.running) /\ Occ(q, x) = Occ(q, round.swapped)
    BY <1>2, <2>1, SortedKeepsOcc
  <2>3. Occ(q, d) = Occ(q, b)
    BY <1>3, <2>1, SortedKeepsOcc
  <2> QED BY <1>3, <2>2, <2>3
<1> HIDE DEF w, u, x, d
<1>6. waiting' \in Seq(Reqs) /\ \A q : Occ(q, waiting') = Occ(q, w) + Occ(q, waiting) + Occ(q, round.preempted)
  BY <1>1, <1>2, <1>4, OccConcat3
<1>7. swapped' \in Seq(Reqs) /\ \A q : Occ(q, swapped') = Occ(q, x) + Occ(q, swapped) + Occ(q, round.swappedOut)
  BY <1>1, <1>2, <1>4, OccConcat3
<1>8. /\ running' \in Seq(Reqs)
      /\ \A q : Occ(q, running') = Occ(q, u) + Occ(q, running) + Occ(q, d) + Occ(q, round.prefill)
  <2> DEFINE p == round.prefill
  <2>1. p \in Seq(Reqs) /\ running \in Seq(Reqs)
    BY <1>2
  <2> HIDE DEF p
  <2>2. /\ u \o running \o d \o p \in Seq(Reqs)
        /\ \A q : Occ(q, u \o running \o d \o p) = Occ(q, u) + Occ(q, running) + Occ(q, d) + Occ(q, p)
    BY <1>4, <2>1, OccConcat4
  <2>3. running' = u \o running \o d \o p
    BY <1>1 DEF p
  <2> QED BY <2>2, <2>3 DEF p
<1>9. ASSUME NEW q \in Reqs
      PROVE  InWaiting(q)' = InWaiting(q) /\ InRunning(q)' = InRunning(q) /\ InSwapped(q)' = InSwapped(q)
  <2>1. InWaiting(q)' = InWaiting(q)
    <3>1. Occ(q, waiting) \in Nat /\ Occ(q, round.waiting) \in Nat /\ Occ(q, round.preempted) \in Nat
      BY OccNat DEF IInv
    <3>2. Occ(q, waiting') = Occ(q, round.waiting) + Occ(q, waiting) + Occ(q, round.preempted)
      BY <1>5, <1>6
    <3>3. InWaiting(q)' = Occ(q, waiting') + 0 + 0 + 0
      BY <1>1, OccEmpty DEF InWaiting, EmptyRound
    <3>4. InWaiting(q) = Occ(q, waiting) + Occ(q, round.waiting) + 0 + Occ(q, round.preempted)
      BY <1>1, OccEmpty DEF InWaiting
    <3> QED BY <3>1, <3>2, <3>3, <3>4
  <2>2. InRunning(q)' = InRunning(q)
    <3>1. /\ Occ(q, running) \in Nat /\ Occ(q, round.running) \in Nat /\ Occ(q, round.decode) \in Nat
          /\ Occ(q, round.swappedIn) \in Nat /\ Occ(q, round.prefill) \in Nat
      BY OccNat DEF IInv
    <3>2. Occ(q, running') = Occ(q, round.running) + Occ(q, running)
                               + (Occ(q, round.decode) + Occ(q, round.swappedIn)) + Occ(q, round.prefill)
      BY <1>5, <1>8
    <3>3. InRunning(q)' = Occ(q, running') + 0 + 0 + 0 + 0
      BY <1>1, OccEmpty DEF InRunning, EmptyRound
    <3>4. InRunning(q) = Occ(q, running) + Occ(q, round.running) + Occ(q, round.decode)
                           + Occ(q, round.swappedIn) + Occ(q, round.prefill)
      BY DEF InRunning
    <3> QED BY <3>1, <3>2, <3>3, <3>4
  <2>3. InSwapped(q)' = InSwapped(q)
    <3>1. Occ(q, swapped) \in Nat /\ Occ(q, round.swapped) \in Nat /\ Occ(q, round.swappedOut) \in Nat
      BY OccNat DEF IInv
    <3>2. Occ(q, swapped') = Occ(q, round.swapped) + Occ(q, swapped) + Occ(q, round.swappedOut)
      BY <1>5, <1>7
    <3>3. InSwapped(q)' = Occ(q, swapped') + 0 + 0
      BY <1>1, OccEmpty DEF InSwapped, EmptyRound
    <3> QED BY <3>1, <3>2, <3>3 DEF InSwapped
  <2> QED BY <2>1, <2>2, <2>3
<1>10. Placed'
  BY <1>1, <1>9 DEF IInv, Placed
<1> QED
  BY <1>6, <1>7, <1>8, <1>10

LEMMA EndRoundKeeps ==
  ASSUME IInv, EndRound
  PROVE  IInv'
<1>1. waiting' \in Seq(Reqs) /\ running' \in Seq(Reqs) /\ swapped' \in Seq(Reqs) /\ Placed'
  BY BackfillPlaces
<1>2. /\ pc = "backfill" /\ pc' = "idle" /\ round' = EmptyRound
      /\ len' = [r \in Reqs |-> IF r \in Batch THEN len[r] + 1 ELSE len[r]]
      /\ executing' = NoBatch \/ executing' = [none |-> FALSE, seqs |-> Batch]
      /\ Batch # {} => executing' = [none |-> FALSE, seqs |-> Batch]
      /\ lastScheduleEmpty' \in BOOLEAN
      /\ UNCHANGED <<status, prompt, table, freeNpu, freeCpu, clock, finishedQueue, abortedQueue,
                     finishedSeqIds, abortedReqIds, newRequestFirst>>
  BY DEF EndRound, AddNextTokenPlaceHolder, blockVars, reportVars
<1>3. Batch \in SUBSET Reqs /\ \A r \in Batch : status[r] = "RUNNING" /\ ~Ended(r)
  BY BatchProperties
<1> HIDE DEF Batch
<1>4. [none |-> FALSE, seqs |-> Batch] # NoBatch
  BY DEF NoBatch
<1>5. Types'
  <2>1. len' \in [Reqs -> Nat]
    BY <1>2 DEF IInv, Types
  <2>2. executing' = NoBatch \/ executing' \in [none : {FALSE}, seqs : SUBSET Reqs]
    <3>1. [none |-> FALSE, seqs |-> Batch] \in [none : {FALSE}, seqs : SUBSET Reqs]
      BY <1>3
    <3> QED BY <1>2, <3>1
  <2> QED BY <1>1, <1>2, <2>1, <2>2, EmptyRoundType DEF IInv, Types
<1>6. Lengths'
  BY <1>2, <1>3 DEF IInv, Types, Lengths, Live
<1>7. Conserved'
  BY <1>2 DEF IInv, Conserved
<1>8. Phases' /\ CandidatesAlive'
  BY <1>2, OccEmpty DEF Phases, CandidatesAlive, EmptyRound
<1>9. EndedNotExecuted'
  BY <1>2, <1>3 DEF EndedNotExecuted, Ended
<1>10. FullIsReported'
  <2> SUFFICES ASSUME NEW r \in Reqs, Live(r)
               PROVE  /\ len'[r] <= maxSeqLen
                      /\ len'[r] = maxSeqLen => OnDevice(r)' \/ r \in finishedQueue' \cup finishedSeqIds'
    BY <1>2 DEF FullIsReported, Live
  <2>1. /\ len[r] <= maxSeqLen /\ len[r] \in Nat /\ maxSeqLen \in Nat
        /\ len[r] = maxSeqLen => r \in finishedSeqIds
    BY <1>2, ConstantTypes DEF IInv, Types, FullIsReported, OnDevice, Phases
  <2>2. CASE r \in Batch
    <3>1. r \notin finishedSeqIds
      BY <1>3, <2>2 DEF Ended
    <3>2. len[r] < maxSeqLen /\ len'[r] = len[r] + 1
      BY <1>2, <2>1, <2>2, <3>1
    <3>3. OnDevice(r)'
      BY <1>2, <1>4, <2>2 DEF OnDevice
    <3> QED BY <2>1, <3>2, <3>3
  <2>3. CASE r \notin Batch
    BY <1>2, <2>1, <2>3
  <2> QED BY <2>2, <2>3
<1> QED
  BY <1>1, <1>5, <1>6, <1>7, <1>8, <1>9, <1>10 DEF IInv

LEMMA NextKeeps == IInv /\ [Next]_vars => IInv'
<1> SUFFICES ASSUME IInv, [Next]_vars
             PROVE  IInv'
  OBVIOUS
<1>1. ASSUME NEW r \in Reqs, NEW n \in Prompts, AddRequest(r, n) PROVE IInv'
  BY <1>1, AddRequestKeeps
<1>2. ASSUME NEW r \in Reqs, AbortRequest(r) \/ Wait(r) PROVE IInv'
  BY <1>2, OthersKeep
<1>3. CASE Respond
  BY <1>3, RespondKeeps
<1>4. CASE StartRound \/ PrepCandidates \/ ApplyPolicy
  BY <1>4, StartRoundKeeps, PrepCandidatesKeeps, ApplyPolicyKeeps
<1>5. CASE AppendFront \/ PreemptBySwap \/ PreemptByRecompute
  BY <1>5, AppendFrontKeeps, PreemptKeeps
<1>6. CASE SwapIn \/ AllocateAndSetRunning
  BY <1>6, SwapInKeeps, AllocateKeeps
<1>7. CASE RunningDone \/ SwappedDone \/ WaitingDone \/ UNCHANGED vars
  BY <1>7, PhaseEndsKeep
<1>8. CASE EndRound \/ StopRunningRequest
  BY <1>8, EndRoundKeeps, StopKeeps
<1> QED
  BY <1>1, <1>2, <1>3, <1>4, <1>5, <1>6, <1>7, <1>8 DEF Next, SchedulerThread

(* The inductive invariant holds in every state of the scheduler. *)
THEOREM Invariance == Spec => []IInv
  BY InitIInv, NextKeeps, PTL DEF Spec

(* The scheduler's state keeps its types, and neither allocator is ever    *)
(* overdrawn or returned more blocks than it has.                          *)
THEOREM TypeCorrect == Spec => []TypeOK
<1>1. ASSUME IInv PROVE TypeOK
  <2>1. \A q \in {waiting, running, swapped} : q \in Seq(Reqs)
    BY <1>1 DEF IInv, Types
  <2>2. \A r \in Reqs : len[r] \in Nat /\ table[r] \in 0..len[r] /\ prompt[r] \in 0..len[r]
    BY <1>1 DEF IInv, Types, Lengths
  <2>3. freeNpu \in 0..npuBlockNum /\ freeCpu \in 0..cpuBlockNum
    <3>1. /\ NumHeld(status, table, "RUNNING", Reqs) \in Nat
          /\ NumHeld(status, table, "SWAPPED", Reqs) \in Nat
      BY <1>1, HeldFinite, ConstantTypes DEF IInv, Types
    <3> QED BY <1>1, <3>1, ConstantTypes DEF IInv, Types, Conserved
  <2> QED BY <1>1, <2>1, <2>2, <2>3 DEF IInv, Types, TypeOK
<1> QED
  BY <1>1, Invariance, PTL

(* Dequeuing, preempting, swapping and backfilling neither lose nor        *)
(* duplicate a request: a live one is in exactly one place, one that its   *)
(* status agrees with.                                                     *)
THEOREM OnePlace == Spec => []EachInOnePlace
<1>1. ASSUME IInv PROVE EachInOnePlace
  <2> SUFFICES ASSUME NEW r \in Reqs
               PROVE  /\ Occ(r, waiting \o round.waiting \o round.recompute \o round.preempted)
                           = One(status[r] = "WAITING")
                      /\ Occ(r, running \o round.running \o round.decode \o round.swappedIn \o round.prefill)
                           = One(status[r] = "RUNNING")
                      /\ Occ(r, swapped \o round.swapped \o round.swappedOut) = One(status[r] = "SWAPPED")
    BY DEF EachInOnePlace, Occ, One
  <2>1. /\ InWaiting(r) = One(status[r] = "WAITING") /\ InRunning(r) = One(status[r] = "RUNNING")
        /\ InSwapped(r) = One(status[r] = "SWAPPED")
    BY <1>1 DEF IInv, Placed
  <2>2. /\ waiting \in Seq(Reqs) /\ round.waiting \in Seq(Reqs) /\ round.recompute \in Seq(Reqs)
        /\ round.preempted \in Seq(Reqs)
    BY <1>1 DEF IInv, Types, Rounds
  <2>3. /\ running \in Seq(Reqs) /\ round.running \in Seq(Reqs) /\ round.decode \in Seq(Reqs)
        /\ round.swappedIn \in Seq(Reqs) /\ round.prefill \in Seq(Reqs)
    BY <1>1 DEF IInv, Types, Rounds
  <2>4. swapped \in Seq(Reqs) /\ round.swapped \in Seq(Reqs) /\ round.swappedOut \in Seq(Reqs)
    BY <1>1 DEF IInv, Types, Rounds
  <2>5. Occ(r, waiting \o round.waiting \o round.recompute \o round.preempted) = InWaiting(r)
    <3> DEFINE a == waiting
               b == round.waiting
               c == round.recompute
               d == round.preempted
    <3>1. a \in Seq(Reqs) /\ b \in Seq(Reqs) /\ c \in Seq(Reqs) /\ d \in Seq(Reqs)
      BY <2>2
    <3> HIDE DEF a, b, c, d
    <3>2. Occ(r, a \o b \o c \o d) = Occ(r, a) + Occ(r, b) + Occ(r, c) + Occ(r, d)
      BY <3>1, OccConcat4
    <3> QED BY <3>2 DEF InWaiting, a, b, c, d
  <2>6. Occ(r, running \o round.running \o round.decode \o round.swappedIn \o round.prefill) = InRunning(r)
    <3> DEFINE a == running
               b == round.running
               c == round.decode
               d == round.swappedIn
               e == round.prefill
               f == a \o b \o c \o d
    <3>1. a \in Seq(Reqs) /\ b \in Seq(Reqs) /\ c \in Seq(Reqs) /\ d \in Seq(Reqs) /\ e \in Seq(Reqs)
      BY <2>3
    <3> HIDE DEF a, b, c, d, e
    <3>2. f \in Seq(Reqs) /\ Occ(r, f) = Occ(r, a) + Occ(r, b) + Occ(r, c) + Occ(r, d)
      BY <3>1, OccConcat4
    <3> HIDE DEF f
    <3>3. Occ(r, f \o e) = Occ(r, f) + Occ(r, e)
      BY <3>1, <3>2, OccConcat
    <3> QED BY <3>2, <3>3 DEF InRunning, a, b, c, d, e, f
  <2>7. Occ(r, swapped \o round.swapped \o round.swappedOut) = InSwapped(r)
    <3>1. ASSUME NEW a \in Seq(Reqs), NEW b \in Seq(Reqs), NEW c \in Seq(Reqs)
          PROVE  Occ(r, a \o b \o c) = Occ(r, a) + Occ(r, b) + Occ(r, c)
      BY OccConcat3
    <3> QED BY <2>4, <3>1, Zenon DEF InSwapped
  <2> QED BY <2>1, <2>5, <2>6, <2>7
<1> QED
  BY <1>1, Invariance, PTL

(* The free blocks of each device are those that no block table holds,     *)
(* through swaps, recomputation, aborts and the end of requests.           *)
THEOREM BlockConservation == Spec => []BlocksConserved
<1>1. ASSUME IInv PROVE BlocksConserved
  <2>1. \A r \in Reqs : table[r] > 0 <=> status[r] \in {"RUNNING", "SWAPPED"}
    BY <1>1 DEF IInv, Lengths
  <2>2. /\ BlocksHeld("RUNNING", Reqs) = Held(status, table, "RUNNING", Reqs)
        /\ BlocksHeld("SWAPPED", Reqs) = Held(status, table, "SWAPPED", Reqs)
    BY DEF BlocksHeld, Held
  <2> QED BY <1>1, <2>1, <2>2 DEF IInv, Conserved, NumHeld, BlocksConserved
<1> QED
  BY <1>1, Invariance, PTL

(* No live request outgrows maxSeqLen or the device, though its end is     *)
(* only noticed when it is next dequeued.                                  *)
THEOREM SequencesFitAlways == Spec => []SequencesFit
<1>1. ASSUME IInv PROVE SequencesFit
  <2> SUFFICES ASSUME NEW r \in Reqs, Live(r)
               PROVE  len[r] <= maxSeqLen /\ BlocksFor(len[r]) <= npuBlockNum
    BY DEF SequencesFit
  <2>1. len[r] <= maxSeqLen /\ len[r] \in Nat
    BY <1>1 DEF IInv, Types, FullIsReported
  <2>2. len[r] <= npuBlockNum * cacheBlockSize
    <3> DEFINE x == npuBlockNum * cacheBlockSize
    <3>1. x \in Int /\ maxSeqLen \in Nat /\ maxSeqLen <= x
      BY ConstantTypes
    <3> HIDE DEF x
    <3>2. len[r] <= x
      BY <2>1, <3>1
    <3> QED BY <3>2 DEF x
  <2> QED BY <2>1, <2>2, BlocksForProperties, ConstantTypes
<1> QED
  BY <1>1, Invariance, PTL

(* What was reported finished or aborted before a round is not executed    *)
(* again by it, whichever queue it was in.                                 *)
THEOREM EndedStaysOff == Spec => []EndedNotExecuted
<1>1. IInv => EndedNotExecuted
  BY DEF IInv
<1> QED
  BY <1>1, Invariance, PTL
-----------------------------------------------------------------------------
(* First come, first served.  The new requests stand in the order of their *)
(* arrival, first among the candidates and then in the queue; what else    *)
(* waits has output already, also when it was preempted only just now.     *)

New(l, p, r) == ~(l[r] > p[r])
InOrder(l, p, s) == \A i, j \in DOMAIN s : i < j /\ New(l, p, s[i]) /\ New(l, p, s[j]) => s[i] < s[j]
Before(l, p, s, t) == \A i \in DOMAIN s, j \in DOMAIN t : New(l, p, s[i]) /\ New(l, p, t[j]) => s[i] < t[j]

Arrivals == \A q, r \in Reqs : q < r /\ status[r] # "NONE" => status[q] # "NONE"

OthersHaveOutput ==
  \A r \in Reqs : /\ status[r] \in {"RUNNING", "SWAPPED"} /\ Occ(r, round.prefill) = 0 => HasOutput(r)
                  /\ Occ(r, round.recompute) # 0 \/ Occ(r, round.preempted) # 0 => HasOutput(r)

NewInOrder ==
  /\ InOrder(len, prompt, round.waiting) /\ InOrder(len, prompt, waiting)
  /\ Before(len, prompt, round.waiting, waiting)

Fcfs == Arrivals /\ OthersHaveOutput /\ NewInOrder

LEMMA WaitingMembers ==
  ASSUME IInv
  PROVE  /\ \A i \in DOMAIN waiting : waiting[i] \in Reqs /\ status[waiting[i]] = "WAITING"
         /\ \A i \in DOMAIN round.waiting : round.waiting[i] \in Reqs /\ status[round.waiting[i]] = "WAITING"
         /\ waiting \in Seq(Reqs) /\ round.waiting \in Seq(Reqs) /\ round.recompute \in Seq(Reqs)
<1>1. waiting \in Seq(Reqs) /\ round.waiting \in Seq(Reqs) /\ round.recompute \in Seq(Reqs)
  BY DEF IInv, Types, Rounds
<1>2. ASSUME NEW r \in Reqs, r \in ToSet(waiting) \/ r \in ToSet(round.waiting)
      PROVE  status[r] = "WAITING"
  <2>1. Occ(r, waiting) # 0 \/ Occ(r, round.waiting) # 0
    BY <1>1, <1>2, OccMember
  <2>2. /\ Occ(r, waiting) \in Nat /\ Occ(r, round.waiting) \in Nat
        /\ Occ(r, round.recompute) \in Nat /\ Occ(r, round.preempted) \in Nat
    BY OccNat DEF IInv
  <2>3. InWaiting(r) # 0
    BY <2>1, <2>2 DEF InWaiting
  <2> QED BY <2>3, PlaceTellsStatus
<1>3. /\ \A i \in DOMAIN waiting : waiting[i] \in Reqs /\ waiting[i] \in ToSet(waiting)
      /\ \A i \in DOMAIN round.waiting : round.waiting[i] \in Reqs /\ round.waiting[i] \in ToSet(round.waiting)
  BY <1>1 DEF ToSet
<1> QED
  BY <1>1, <1>2, <1>3

ListedWait ==
  /\ \A i \in DOMAIN waiting : waiting[i] \in Reqs /\ status[waiting[i]] = "WAITING"
  /\ \A i \in DOMAIN round.waiting : round.waiting[i] \in Reqs /\ status[round.waiting[i]] = "WAITING"

LEMMA ListedWaitNext == IInv' => ListedWait'
<1>1. IInv => ListedWait
  BY WaitingMembers DEF ListedWait
<1> QED
  BY <1>1, PTL

LEMMA ArrivalsKept ==
  ASSUME Arrivals, \A r \in Reqs : status'[r] = "NONE" <=> status[r] = "NONE"
  PROVE  Arrivals'
  BY DEF Arrivals

LEMMA OrderKept ==
  ASSUME IInv, NewInOrder, waiting' = waiting, round'.waiting = round.waiting,
         \A r \in Reqs : status[r] = "WAITING" /\ New(len', prompt', r) => New(len, prompt, r)
  PROVE  NewInOrder'
<1>1. /\ \A i \in DOMAIN waiting : New(len', prompt', waiting[i]) => New(len, prompt, waiting[i])
      /\ \A i \in DOMAIN round.waiting : New(len', prompt', round.waiting[i]) => New(len, prompt, round.waiting[i])
  BY WaitingMembers
<1> QED
  BY <1>1 DEF NewInOrder, InOrder, Before

(* Steps that leave the waiting requests and the lengths alone.            *)
LEMMA FcfsStay ==
  ASSUME IInv, Fcfs, UNCHANGED <<waiting, len, prompt>>, round'.waiting = round.waiting,
         \A r \in Reqs : status'[r] = "NONE" <=> status[r] = "NONE", OthersHaveOutput'
  PROVE  Fcfs'
<1>1. NewInOrder'
  BY OrderKept DEF Fcfs
<1> QED
  BY <1>1, ArrivalsKept DEF Fcfs

LEMMA FcfsQuiet ==
  ASSUME IInv, Fcfs, UNCHANGED <<waiting, status, len, prompt, round>>
  PROVE  Fcfs'
  BY DEF Fcfs, Arrivals, OthersHaveOutput, HasOutput, NewInOrder

LEMMA FcfsAddRequest ==
  ASSUME IInv, Fcfs, NEW r \in Reqs, NEW n \in Prompts, AddRequest(r, n)
  PROVE  Fcfs'
<1>1. /\ status[r] = "NONE" /\ \A q \in Reqs : q < r => status[q] # "NONE"
      /\ status' = [status EXCEPT ![r] = "WAITING"] /\ len' = [len EXCEPT ![r] = n]
      /\ prompt' = [prompt EXCEPT ![r] = n] /\ waiting' = Append(waiting, r) /\ round' = round
  BY DEF AddRequest
<1>2. \A q \in Reqs : status[q] # "NONE" => q < r
  BY <1>1, ConstantTypes DEF Fcfs, Arrivals
<1>3. Arrivals'
  BY <1>1 DEF Fcfs, Arrivals, IInv, Types
<1>4. ASSUME NEW q \in Reqs, q # r
      PROVE  status'[q] = status[q] /\ len'[q] = len[q] /\ prompt'[q] = prompt[q]
  BY <1>1, <1>4 DEF IInv, Types
<1>5. OthersHaveOutput'
  <2> SUFFICES ASSUME NEW q \in Reqs
               PROVE  /\ status'[q] \in {"RUNNING", "SWAPPED"} /\ Occ(q, round.prefill) = 0 => HasOutput(q)'
                      /\ Occ(q, round.recompute) # 0 \/ Occ(q, round.preempted) # 0 => HasOutput(q)'
    BY <1>1 DEF OthersHaveOutput
  <2>1. CASE q = r
    <3>1. status'[q] = "WAITING"
      BY <1>1, <2>1 DEF IInv, Types
    <3>2. InWaiting(r) = 0
      BY <1>1 DEF IInv, Placed, One
    <3>3. /\ Occ(r, waiting) \in Nat /\ Occ(r, round.waiting) \in Nat
          /\ Occ(r, round.recompute) \in Nat /\ Occ(r, round.preempted) \in Nat
      BY OccNat DEF IInv
    <3>4. Occ(r, round.recompute) = 0 /\ Occ(r, round.preempted) = 0
      BY <3>2, <3>3 DEF InWaiting
    <3> QED BY <2>1, <3>1, <3>4
  <2>2. CASE q # r
    BY <1>4, <2>2 DEF Fcfs, OthersHaveOutput, HasOutput
  <2> QED BY <2>1, <2>2
<1>6. NewInOrder'
  <2>1. /\ \A i \in DOMAIN waiting : waiting[i] \in Reqs /\ waiting[i] < r
        /\ \A i \in DOMAIN round.waiting : round.waiting[i] \in Reqs /\ round.waiting[i] < r
        /\ r \in Nat
    BY <1>2, WaitingMembers, ConstantTypes
  <2>2. /\ \A i \in DOMAIN waiting : New(len', prompt', waiting[i]) <=> New(len, prompt, waiting[i])
        /\ \A i \in DOMAIN round.waiting :
             New(len', prompt', round.waiting[i]) <=> New(len, prompt, round.waiting[i])
    <3>1. ASSUME NEW q \in Reqs, q < r
          PROVE  New(len', prompt', q) <=> New(len, prompt, q)
      <4>1. q # r
        BY <2>1, <3>1, ConstantTypes
      <4> QED BY <1>4, <4>1 DEF New
    <3> QED BY <2>1, <3>1
  <2>3. waiting \in Seq(Reqs)
    BY WaitingMembers
  <2>4. /\ DOMAIN waiting' = 1..(Len(waiting) + 1) /\ DOMAIN waiting = 1..Len(waiting)
        /\ \A i \in 1..Len(waiting) : waiting'[i] = waiting[i]
        /\ waiting'[Len(waiting) + 1] = r /\ Len(waiting) \in Nat
    BY <1>1, <2>3
  <2>5. InOrder(len, prompt, round.waiting) /\ InOrder(len, prompt, waiting)
        /\ Before(len, prompt, round.waiting, waiting)
    BY DEF Fcfs, NewInOrder
  <2>6. InOrder(len', prompt', round.waiting)
    BY <2>2, <2>5 DEF InOrder
  <2>7. InOrder(len', prompt', waiting')
    <3> SUFFICES ASSUME NEW i \in DOMAIN waiting', NEW j \in DOMAIN waiting', i < j,
                        New(len', prompt', waiting'[i]), New(len', prompt', waiting'[j])
                 PROVE  waiting'[i] < waiting'[j]
      BY DEF InOrder
    <3>1. i \in DOMAIN waiting /\ waiting'[i] = waiting[i]
      BY <2>4
    <3>2. CASE j = Len(waiting) + 1
      BY <2>1, <2>4, <3>1, <3>2
    <3>3. CASE j # Len(waiting) + 1
      <4>1. j \in DOMAIN waiting /\ waiting'[j] = waiting[j]
        BY <2>4, <3>3
      <4>2. New(len, prompt, waiting[i]) /\ New(len, prompt, waiting[j])
        BY <2>2, <3>1, <4>1
      <4> QED BY <2>5, <3>1, <4>1, <4>2 DEF InOrder
    <3> QED BY <3>2, <3>3
  <2>8. Before(len', prompt', round.waiting, waiting')
    <3> SUFFICES ASSUME NEW i \in DOMAIN round.waiting, NEW j \in DOMAIN waiting',
                        New(len', prompt', round.waiting[i]), New(len', prompt', waiting'[j])
                 PROVE  round.waiting[i] < waiting'[j]
      BY DEF Before
    <3>1. CASE j = Len(waiting) + 1
      BY <2>1, <2>4, <3>1
    <3>2. CASE j # Len(waiting) + 1
      <4>1. j \in DOMAIN waiting /\ waiting'[j] = waiting[j]
        BY <2>4, <3>2
      <4>2. New(len, prompt, round.waiting[i]) /\ New(len, prompt, waiting[j])
        BY <2>2, <4>1
      <4> QED BY <2>5, <4>1, <4>2 DEF Before
    <3> QED BY <3>1, <3>2
  <2> QED BY <1>1, <2>6, <2>7, <2>8 DEF NewInOrder
<1> QED
  BY <1>3, <1>5, <1>6 DEF Fcfs

(* After ClearSeqGrp the requests that are left are as they were, and      *)
(* those that are gone wait nowhere.                                       *)
LEMMA FcfsClear ==
  ASSUME IInv, Fcfs, IInv', NEW S \in SUBSET Reqs, ClearSeqGrps(S), UNCHANGED round,
         \A r \in S : Live(r)
  PROVE  /\ Arrivals' /\ OthersHaveOutput'
         /\ \A r \in Reqs \ S : New(len', prompt', r) <=> New(len, prompt, r)
         /\ \A r \in S : status'[r] = "FINISH"
<1>1. /\ status' = [r \in Reqs |-> IF r \in S THEN "FINISH" ELSE status[r]]
      /\ len' = [r \in Reqs |-> IF r \in S THEN 0 ELSE len[r]]
      /\ prompt' = [r \in Reqs |-> IF r \in S THEN 0 ELSE prompt[r]]
  BY DEF ClearSeqGrps
<1>2. Arrivals'
  <2>1. \A r \in Reqs : status'[r] = "NONE" <=> status[r] = "NONE"
    BY <1>1 DEF Live
  <2> QED BY <2>1, ArrivalsKept DEF Fcfs
<1>3. OthersHaveOutput'
  <2> SUFFICES ASSUME NEW q \in Reqs
               PROVE  /\ status'[q] \in {"RUNNING", "SWAPPED"} /\ Occ(q, round.prefill) = 0 => HasOutput(q)'
                      /\ Occ(q, round.recompute) # 0 \/ Occ(q, round.preempted) # 0 => HasOutput(q)'
    BY DEF OthersHaveOutput
  <2>1. CASE q \in S
    <3>1. status'[q] = "FINISH"
      BY <1>1, <2>1
    <3>2. InWaiting(q)' = 0
      BY <3>1 DEF IInv, Placed, One
    <3>3. /\ Occ(q, waiting)' \in Nat /\ Occ(q, round.waiting)' \in Nat
          /\ Occ(q, round.recompute)' \in Nat /\ Occ(q, round.preempted)' \in Nat
      <4>1. Types'
        BY DEF IInv
      <4> QED BY <4>1, OccType DEF Types, Rounds
    <3>4. Occ(q, round.recompute)' = 0 /\ Occ(q, round.preempted)' = 0
      BY <3>2, <3>3 DEF InWaiting
    <3> QED BY <3>1, <3>4
  <2>2. CASE q \notin S
    BY <1>1, <2>2 DEF Fcfs, OthersHaveOutput, HasOutput
  <2> QED BY <2>1, <2>2
<1>4. \A r \in Reqs \ S : New(len', prompt', r) <=> New(len, prompt, r)
  BY <1>1 DEF New
<1> QED
  BY <1>1, <1>2, <1>3, <1>4

LEMMA FcfsStop ==
  ASSUME IInv, Fcfs, IInv', StopRunningRequest
  PROVE  Fcfs'
<1> DEFINE all == ToSet(waiting \o running \o swapped)
<1>1. /\ ClearSeqGrps(all) /\ waiting' = <<>> /\ UNCHANGED round /\ round = EmptyRound
  BY DEF StopRunningRequest, IInv, Phases
<1>2. all \in SUBSET Reqs /\ \A r \in all : Live(r)
  <2> DEFINE a == waiting
             b == running
             c == swapped
  <2>1. a \in Seq(Reqs) /\ b \in Seq(Reqs) /\ c \in Seq(Reqs)
    BY DEF IInv, Types
  <2> HIDE DEF a, b, c
  <2>2. ASSUME NEW r
        PROVE  a \o b \o c \in Seq(Reqs) /\ Occ(r, a \o b \o c) = Occ(r, a) + Occ(r, b) + Occ(r, c)
    BY <2>1, OccConcat3
  <2>3. all = ToSet(a \o b \o c)
    BY DEF a, b, c
  <2>4. all \in SUBSET Reqs
    <3>1. \A t \in Seq(Reqs) : ToSet(t) \in SUBSET Reqs
      BY DEF ToSet
    <3> QED BY <2>2, <2>3, <3>1
  <2>5. ASSUME NEW r \in all
        PROVE  Live(r)
    <3>1. Occ(r, a \o b \o c) # 0
      BY <2>2, <2>3, OccMember
    <3>2. Occ(r, a) # 0 \/ Occ(r, b) # 0 \/ Occ(r, c) # 0
      BY <2>2, <3>1
    <3>3. Occ(r, waiting) # 0 \/ Occ(r, running) # 0 \/ Occ(r, swapped) # 0
      BY <3>2 DEF a, b, c
    <3>4. Occ(r, waiting) \in Nat /\ Occ(r, running) \in Nat /\ Occ(r, swapped) \in Nat
      BY OccNat DEF IInv
    <3>5. InWaiting(r) # 0 \/ InRunning(r) # 0 \/ InSwapped(r) # 0
      BY <1>1, <3>3, <3>4, OccEmpty DEF InWaiting, InRunning, InSwapped, EmptyRound
    <3> QED BY <2>4, <3>5, PlaceTellsStatus DEF Live
  <2> QED BY <2>4, <2>5
<1> HIDE DEF all
<1>3. Arrivals' /\ OthersHaveOutput'
  BY <1>1, <1>2, FcfsClear
<1>4. NewInOrder'
  BY <1>1 DEF NewInOrder, InOrder, Before, EmptyRound
<1> QED
  BY <1>3, <1>4 DEF Fcfs

(* The head of a sequence comes before the rest.                           *)
LEMMA OrderTail ==
  ASSUME NEW l, NEW p, NEW s \in Seq(Reqs), s # <<>>, InOrder(l, p, s)
  PROVE  /\ InOrder(l, p, Tail(s))
         /\ \A j \in DOMAIN Tail(s) : New(l, p, Head(s)) /\ New(l, p, Tail(s)[j]) => Head(s) < Tail(s)[j]
         /\ \A j \in DOMAIN Tail(s) : j + 1 \in DOMAIN s /\ Tail(s)[j] = s[j + 1]
         /\ 1 \in DOMAIN s /\ Head(s) = s[1]
<1>1. /\ Len(s) \in Nat \ {0} /\ DOMAIN s = 1..Len(s) /\ DOMAIN Tail(s) = 1..(Len(s) - 1) /\ Head(s) = s[1]
      /\ \A j \in 1..(Len(s) - 1) : Tail(s)[j] = s[j + 1]
  BY EmptySeq
<1>2. InOrder(l, p, Tail(s))
  <2> SUFFICES ASSUME NEW i \in DOMAIN Tail(s), NEW j \in DOMAIN Tail(s), i < j,
                      New(l, p, Tail(s)[i]), New(l, p, Tail(s)[j])
               PROVE  Tail(s)[i] < Tail(s)[j]
    BY DEF InOrder
  <2>1. /\ i + 1 \in DOMAIN s /\ j + 1 \in DOMAIN s /\ i + 1 < j + 1
        /\ Tail(s)[i] = s[i + 1] /\ Tail(s)[j] = s[j + 1]
    BY <1>1
  <2> QED BY <2>1 DEF InOrder
<1>3. ASSUME NEW j \in DOMAIN Tail(s), New(l, p, Head(s)), New(l, p, Tail(s)[j])
      PROVE  Head(s) < Tail(s)[j]
  <2>1. 1 \in DOMAIN s /\ j + 1 \in DOMAIN s /\ 1 < j + 1 /\ Tail(s)[j] = s[j + 1] /\ Head(s) = s[1]
    BY <1>1
  <2> QED BY <1>3, <2>1 DEF InOrder
<1> QED
  BY <1>1, <1>2, <1>3

LEMMA OrderAppend ==
  ASSUME NEW l, NEW p, NEW s \in Seq(Reqs), NEW r \in Reqs, InOrder(l, p, s),
         \A i \in DOMAIN s : New(l, p, s[i]) /\ New(l, p, r) => s[i] < r
  PROVE  /\ InOrder(l, p, Append(s, r))
         /\ \A i \in DOMAIN Append(s, r) : Append(s, r)[i] = r \/ (i \in DOMAIN s /\ Append(s, r)[i] = s[i])
<1> DEFINE t == Append(s, r)
<1>1. /\ DOMAIN t = 1..(Len(s) + 1) /\ DOMAIN s = 1..Len(s) /\ Len(s) \in Nat
      /\ \A i \in 1..Len(s) : t[i] = s[i]
      /\ t[Len(s) + 1] = r
  OBVIOUS
<1> HIDE DEF t
<1>2. InOrder(l, p, t)
  <2> SUFFICES ASSUME NEW i \in DOMAIN t, NEW j \in DOMAIN t, i < j, New(l, p, t[i]), New(l, p, t[j])
               PROVE  t[i] < t[j]
    BY DEF InOrder
  <2>1. i \in DOMAIN s /\ t[i] = s[i]
    BY <1>1
  <2>2. CASE j = Len(s) + 1
    BY <1>1, <2>1, <2>2
  <2>3. CASE j # Len(s) + 1
    <3>1. j \in DOMAIN s /\ t[j] = s[j]
      BY <1>1, <2>3
    <3> QED BY <2>1, <3>1 DEF InOrder
  <2> QED BY <2>2, <2>3
<1>3. \A i \in DOMAIN t : t[i] = r \/ (i \in DOMAIN s /\ t[i] = s[i])
  BY <1>1
<1> QED
  BY <1>2, <1>3 DEF t

LEMMA FcfsDequeueRunning ==
  ASSUME IInv, Fcfs, IInv', PrepCandidates, DequeueFrom = "running"
  PROVE  Fcfs'
<1> DEFINE r == Head(running)
<1>1. running # <<>> /\ running \in Seq(Reqs) /\ round \in Rounds /\ waiting' = waiting
  BY DEF PrepCandidates, Dequeue, DequeueFrom, IInv, Types
<1>2. \/ Ended(r) /\ ClearSeqGrps({r}) /\ UNCHANGED round
      \/ round' = [round EXCEPT !.running = Append(@, r)] /\ UNCHANGED <<status, len, prompt>>
  BY DEF PrepCandidates, Dequeue
<1>3. r \in Reqs /\ Occ(r, running) # 0
  BY <1>1, HeadOccurs
<1> HIDE DEF r
<1>4. status[r] = "RUNNING"
  <2>1. /\ Occ(r, running) \in Nat /\ Occ(r, round.running) \in Nat /\ Occ(r, round.decode) \in Nat
        /\ Occ(r, round.swappedIn) \in Nat /\ Occ(r, round.prefill) \in Nat
    BY OccNat DEF IInv
  <2>2. InRunning(r) # 0
    BY <1>3, <2>1 DEF InRunning
  <2> QED BY <1>3, <2>2, PlaceTellsStatus
<1>5. CASE Ended(r) /\ ClearSeqGrps({r}) /\ UNCHANGED round
  <2>1. {r} \in SUBSET Reqs /\ \A q \in {r} : Live(q)
    BY <1>3, <1>4 DEF Live
  <2>2. Arrivals' /\ OthersHaveOutput' /\ \A q \in Reqs \ {r} : New(len', prompt', q) <=> New(len, prompt, q)
    BY <1>5, <2>1, FcfsClear
  <2>3. NewInOrder'
    BY <1>1, <1>4, <1>5, <2>2, OrderKept DEF Fcfs
  <2> QED BY <2>2, <2>3 DEF Fcfs
<1>6. CASE round' = [round EXCEPT !.running = Append(@, r)] /\ UNCHANGED <<status, len, prompt>>
  <2>1. /\ round'.waiting = round.waiting /\ round'.recompute = round.recompute
        /\ round'.preempted = round.preempted /\ round'.prefill = round.prefill
    BY <1>1, <1>6 DEF Rounds
  <2>2. OthersHaveOutput'
    BY <1>6, <2>1 DEF Fcfs, OthersHaveOutput, HasOutput
  <2> QED BY <1>1, <1>6, <2>1, <2>2, FcfsStay
<1> QED
  BY <1>2, <1>5, <1>6

LEMMA FcfsDequeueSwapped ==
  ASSUME IInv, Fcfs, IInv', PrepCandidates, DequeueFrom = "swapped"
  PROVE  Fcfs'
<1> DEFINE r == Head(swapped)
<1>1. swapped # <<>> /\ swapped \in Seq(Reqs) /\ round \in Rounds /\ waiting' = waiting
  BY DEF PrepCandidates, Dequeue, DequeueFrom, IInv, Types
<1>2. \/ Ended(r) /\ ClearSeqGrps({r}) /\ UNCHANGED round
      \/ round' = [round EXCEPT !.swapped = Append(@, r)] /\ UNCHANGED <<status, len, prompt>>
  BY DEF PrepCandidates, Dequeue
<1>3. r \in Reqs /\ Occ(r, swapped) # 0
  BY <1>1, HeadOccurs
<1> HIDE DEF r
<1>4. status[r] = "SWAPPED"
  <2>1. InSwapped(r) # 0
    BY <1>3, OccNat DEF IInv, InSwapped
  <2> QED BY <1>3, <2>1, PlaceTellsStatus
<1>5. CASE Ended(r) /\ ClearSeqGrps({r}) /\ UNCHANGED round
  <2>1. {r} \in SUBSET Reqs /\ \A q \in {r} : Live(q)
    BY <1>3, <1>4 DEF Live
  <2>2. Arrivals' /\ OthersHaveOutput' /\ \A q \in Reqs \ {r} : New(len', prompt', q) <=> New(len, prompt, q)
    BY <1>5, <2>1, FcfsClear
  <2>3. NewInOrder'
    BY <1>1, <1>4, <1>5, <2>2, OrderKept DEF Fcfs
  <2> QED BY <2>2, <2>3 DEF Fcfs
<1>6. CASE round' = [round EXCEPT !.swapped = Append(@, r)] /\ UNCHANGED <<status, len, prompt>>
  <2>1. /\ round'.waiting = round.waiting /\ round'.recompute = round.recompute
        /\ round'.preempted = round.preempted /\ round'.prefill = round.prefill
    BY <1>1, <1>6 DEF Rounds
  <2>2. OthersHaveOutput'
    BY <1>6, <2>1 DEF Fcfs, OthersHaveOutput, HasOutput
  <2> QED BY <1>1, <1>6, <2>1, <2>2, FcfsStay
<1> QED
  BY <1>2, <1>5, <1>6

LEMMA FcfsDequeueWaiting ==
  ASSUME IInv, Fcfs, IInv', PrepCandidates, DequeueFrom = "waiting"
  PROVE  Fcfs'
<1> DEFINE r == Head(waiting)
           rest == Tail(waiting)
<1>1. waiting # <<>> /\ waiting \in Seq(Reqs) /\ round \in Rounds /\ waiting' = rest /\ round.waiting \in Seq(Reqs)
  BY DEF PrepCandidates, Dequeue, DequeueFrom, IInv, Types, Rounds
<1>2. \/ Ended(r) /\ ClearSeqGrps({r}) /\ UNCHANGED round
      \/ HasOutput(r) /\ round' = [round EXCEPT !.recompute = Append(@, r)] /\ UNCHANGED <<status, len, prompt>>
      \/ ~HasOutput(r) /\ round' = [round EXCEPT !.waiting = Append(@, r)] /\ UNCHANGED <<status, len, prompt>>
  BY DEF PrepCandidates, Dequeue
<1>3. r \in Reqs /\ Occ(r, waiting) # 0 /\ rest \in Seq(Reqs)
  BY <1>1, HeadOccurs
<1>4. InOrder(len, prompt, round.waiting) /\ InOrder(len, prompt, waiting)
      /\ Before(len, prompt, round.waiting, waiting)
  BY DEF Fcfs, NewInOrder
<1>5. /\ InOrder(len, prompt, rest)
      /\ \A j \in DOMAIN rest : New(len, prompt, r) /\ New(len, prompt, rest[j]) => r < rest[j]
      /\ \A j \in DOMAIN rest : j + 1 \in DOMAIN waiting /\ rest[j] = waiting[j + 1]
      /\ 1 \in DOMAIN waiting /\ r = waiting[1]
  BY <1>1, <1>4, OrderTail
<1> HIDE DEF r, rest
<1>6. Before(len, prompt, round.waiting, rest)
      /\ \A i \in DOMAIN round.waiting : New(len, prompt, round.waiting[i]) /\ New(len, prompt, r)
                                         => round.waiting[i] < r
  BY <1>4, <1>5 DEF Before
<1>7. status[r] = "WAITING"
  BY <1>5, WaitingMembers
<1>8. CASE Ended(r) /\ ClearSeqGrps({r}) /\ UNCHANGED round
  <2>1. {r} \in SUBSET Reqs /\ \A q \in {r} : Live(q)
    BY <1>3, <1>7 DEF Live
  <2>2. /\ Arrivals' /\ OthersHaveOutput' /\ status'[r] = "FINISH"
        /\ \A q \in Reqs \ {r} : New(len', prompt', q) <=> New(len, prompt, q)
    BY <1>8, <2>1, FcfsClear
  <2>3. /\ \A i \in DOMAIN waiting' : waiting'[i] \in Reqs \ {r}
        /\ \A i \in DOMAIN round'.waiting : round'.waiting[i] \in Reqs \ {r}
    <3>1. /\ \A i \in DOMAIN waiting' : waiting'[i] \in Reqs /\ status'[waiting'[i]] = "WAITING"
          /\ \A i \in DOMAIN round'.waiting : round'.waiting[i] \in Reqs /\ status'[round'.waiting[i]] = "WAITING"
      BY ListedWaitNext DEF ListedWait
    <3> QED BY <2>2, <3>1
  <2>4. NewInOrder'
    <3>1. /\ \A i \in DOMAIN rest : New(len', prompt', rest[i]) <=> New(len, prompt, rest[i])
          /\ \A i \in DOMAIN round.waiting :
               New(len', prompt', round.waiting[i]) <=> New(len, prompt, round.waiting[i])
      BY <1>1, <1>8, <2>2, <2>3
    <3>2. InOrder(len', prompt', rest) /\ InOrder(len', prompt', round.waiting)
      BY <1>4, <1>5, <3>1 DEF InOrder
    <3>3. Before(len', prompt', round.waiting, rest)
      BY <1>6, <3>1 DEF Before
    <3> QED BY <1>1, <1>8, <3>2, <3>3 DEF NewInOrder
  <2> QED BY <2>2, <2>4 DEF Fcfs
<1>9. CASE HasOutput(r) /\ round' = [round EXCEPT !.recompute = Append(@, r)] /\ UNCHANGED <<status, len, prompt>>
  <2>1. /\ round'.waiting = round.waiting /\ round'.recompute = Append(round.recompute, r)
        /\ round'.preempted = round.preempted /\ round'.prefill = round.prefill
        /\ round.recompute \in Seq(Reqs)
    BY <1>1, <1>9 DEF Rounds
  <2>2. ASSUME NEW q
        PROVE  Occ(q, round'.recompute) = Occ(q, round.recompute) + One(r = q)
    <3>1. Occ(q, Append(round.recompute, r)) = Occ(q, round.recompute) + One(r = q)
      BY <1>3, <2>1, OccAppend
    <3> QED BY <2>1, <3>1
  <2>3. OthersHaveOutput'
    <3> SUFFICES ASSUME NEW q \in Reqs, Occ(q, round'.recompute) # 0
                 PROVE  HasOutput(q)
      BY <1>9, <2>1 DEF Fcfs, OthersHaveOutput, HasOutput
    <3>1. CASE q = r
      BY <1>9, <3>1
    <3>2. CASE q # r
      <4>1. Occ(q, round.recompute) \in Nat
        BY OccNat DEF IInv
      <4>2. Occ(q, round.recompute) # 0
        BY <2>2, <3>2, <4>1 DEF One
      <4> QED BY <4>2 DEF Fcfs, OthersHaveOutput
    <3> QED BY <3>1, <3>2
  <2>4. NewInOrder'
    BY <1>1, <1>4, <1>5, <1>6, <1>9, <2>1 DEF NewInOrder
  <2>5. Arrivals'
    BY <1>9 DEF Fcfs, Arrivals
  <2> QED BY <2>3, <2>4, <2>5 DEF Fcfs
<1>10. CASE ~HasOutput(r) /\ round' = [round EXCEPT !.waiting = Append(@, r)] /\ UNCHANGED <<status, len, prompt>>
  <2>1. /\ round'.waiting = Append(round.waiting, r) /\ round'.recompute = round.recompute
        /\ round'.preempted = round.preempted /\ round'.prefill = round.prefill
    BY <1>1, <1>10 DEF Rounds
  <2>2. OthersHaveOutput' /\ Arrivals'
    BY <1>10, <2>1 DEF Fcfs, OthersHaveOutput, HasOutput, Arrivals
  <2>3. /\ InOrder(len, prompt, Append(round.waiting, r))
        /\ \A i \in DOMAIN Append(round.waiting, r) :
             Append(round.waiting, r)[i] = r \/ (i \in DOMAIN round.waiting /\ Append(round.waiting, r)[i] = round.waiting[i])
    BY <1>1, <1>3, <1>4, <1>6, OrderAppend
  <2> DEFINE t == Append(round.waiting, r)
  <2> HIDE DEF t
  <2>4. Before(len, prompt, t, rest)
    <3> SUFFICES ASSUME NEW i \in DOMAIN t, NEW j \in DOMAIN rest, New(len, prompt, t[i]), New(len, prompt, rest[j])
                 PROVE  t[i] < rest[j]
      BY DEF Before
    <3>1. t[i] = r \/ (i \in DOMAIN round.waiting /\ t[i] = round.waiting[i])
      BY <2>3 DEF t
    <3> QED BY <1>5, <1>6, <3>1 DEF Before
  <2>5. NewInOrder'
    BY <1>1, <1>5, <1>10, <2>1, <2>3, <2>4 DEF NewInOrder, t
  <2> QED BY <2>2, <2>5 DEF Fcfs
<1> QED
  BY <1>2, <1>8, <1>9, <1>10

LEMMA OrderConcat ==
  ASSUME NEW l, NEW p, NEW s \in Seq(Reqs), NEW t \in Seq(Reqs), InOrder(l, p, s), InOrder(l, p, t), Before(l, p, s, t)
  PROVE  InOrder(l, p, s \o t)
<1>1. /\ Len(s \o t) = Len(s) + Len(t) /\ DOMAIN (s \o t) = 1..(Len(s) + Len(t))
      /\ DOMAIN s = 1..Len(s) /\ DOMAIN t = 1..Len(t) /\ Len(s) \in Nat /\ Len(t) \in Nat
      /\ \A i \in 1 .. Len(s) + Len(t) : (s \o t)[i] = IF i <= Len(s) THEN s[i] ELSE t[i - Len(s)]
  BY ConcatProperties
<1> DEFINE u == s \o t
<1> HIDE DEF u
<1>2. DOMAIN u = 1..(Len(s) + Len(t)) /\ \A i \in DOMAIN u : u[i] = IF i <= Len(s) THEN s[i] ELSE t[i - Len(s)]
  BY <1>1 DEF u
<1> SUFFICES ASSUME NEW i \in DOMAIN u, NEW j \in DOMAIN u, i < j, New(l, p, u[i]), New(l, p, u[j])
             PROVE  u[i] < u[j]
  BY DEF InOrder, u
<1>3. CASE j <= Len(s)
  <2>1. i \in DOMAIN s /\ j \in DOMAIN s /\ u[i] = s[i] /\ u[j] = s[j]
    BY <1>1, <1>2, <1>3
  <2> QED BY <2>1 DEF InOrder
<1>4. CASE ~(j <= Len(s)) /\ i <= Len(s)
  <2>1. i \in DOMAIN s /\ j - Len(s) \in DOMAIN t /\ u[i] = s[i] /\ u[j] = t[j - Len(s)]
    BY <1>1, <1>2, <1>4
  <2> QED BY <2>1 DEF Before
<1>5. CASE ~(i <= Len(s))
  <2>1. /\ i - Len(s) \in DOMAIN t /\ j - Len(s) \in DOMAIN t /\ i - Len(s) < j - Len(s)
        /\ u[i] = t[i - Len(s)] /\ u[j] = t[j - Len(s)]
    BY <1>1, <1>2, <1>5
  <2> QED BY <2>1 DEF InOrder
<1> QED
  BY <1>1, <1>2, <1>3, <1>4, <1>5

LEMMA MemberOfConcat ==
  ASSUME NEW s \in Seq(Reqs), NEW t \in Seq(Reqs), NEW i \in DOMAIN (s \o t)
  PROVE  \/ \E k \in DOMAIN s : (s \o t)[i] = s[k]
         \/ \E k \in DOMAIN t : (s \o t)[i] = t[k]
<1>1. /\ DOMAIN (s \o t) = 1..(Len(s) + Len(t))
      /\ DOMAIN s = 1..Len(s) /\ DOMAIN t = 1..Len(t) /\ Len(s) \in Nat /\ Len(t) \in Nat
      /\ \A k \in 1 .. Len(s) + Len(t) : (s \o t)[k] = IF k <= Len(s) THEN s[k] ELSE t[k - Len(s)]
  BY ConcatProperties
<1>2. CASE i <= Len(s)
  BY <1>1, <1>2
<1>3. CASE ~(i <= Len(s))
  <2>1. i - Len(s) \in DOMAIN t /\ (s \o t)[i] = t[i - Len(s)]
    BY <1>1, <1>3
  <2> QED BY <2>1
<1> QED
  BY <1>2, <1>3

LEMMA FcfsApplyPolicy ==
  ASSUME IInv, Fcfs, ApplyPolicy
  PROVE  Fcfs'
<1> DEFINE s == round.waiting
           t == round.recompute
<1>1. s \in Seq(Reqs) /\ t \in Seq(Reqs) /\ round \in Rounds
  BY DEF IInv, Types, Rounds
<1>2. /\ round'.waiting = s \o t /\ round'.recompute = <<>> /\ round'.preempted = round.preempted
      /\ round'.prefill = round.prefill /\ UNCHANGED <<waiting, status, len, prompt>>
  BY <1>1 DEF ApplyPolicy, Rounds, queueVars
<1>3. \A i \in DOMAIN t : ~New(len, prompt, t[i])
  <2> SUFFICES ASSUME NEW i \in DOMAIN t
               PROVE  HasOutput(t[i])
    BY DEF New, HasOutput
  <2>1. t[i] \in Reqs /\ t[i] \in ToSet(t)
    BY <1>1 DEF ToSet
  <2>2. Occ(t[i], t) # 0
    BY <1>1, <2>1, OccMember
  <2> QED BY <2>1, <2>2 DEF Fcfs, OthersHaveOutput
<1>4. InOrder(len, prompt, s) /\ InOrder(len, prompt, waiting) /\ Before(len, prompt, s, waiting)
  BY DEF Fcfs, NewInOrder
<1>5. Arrivals' /\ OthersHaveOutput'
  BY <1>2, OccEmpty DEF Fcfs, Arrivals, OthersHaveOutput, HasOutput
<1> HIDE DEF s, t
<1>6. InOrder(len, prompt, t) /\ Before(len, prompt, s, t)
  BY <1>3 DEF InOrder, Before
<1>7. InOrder(len, prompt, s \o t)
  BY <1>1, <1>4, <1>6, OrderConcat
<1>8. Before(len, prompt, s \o t, waiting)
  <2> SUFFICES ASSUME NEW i \in DOMAIN (s \o t), NEW j \in DOMAIN waiting,
                      New(len, prompt, (s \o t)[i]), New(len, prompt, waiting[j])
               PROVE  (s \o t)[i] < waiting[j]
    BY DEF Before
  <2>1. \E k \in DOMAIN s : (s \o t)[i] = s[k]
    BY <1>1, <1>3, MemberOfConcat
  <2> QED BY <1>4, <2>1 DEF Before
<1>9. NewInOrder'
  BY <1>2, <1>4, <1>7, <1>8 DEF NewInOrder
<1> QED
  BY <1>5, <1>9 DEF Fcfs

LEMMA FcfsStartRound ==
  ASSUME IInv, Fcfs, StartRound
  PROVE  Fcfs'
<1>1. /\ round = EmptyRound /\ round'.waiting = <<>> /\ round'.recompute = <<>> /\ round'.preempted = <<>>
      /\ round'.prefill = <<>> /\ UNCHANGED <<waiting, status, len, prompt>>
  BY DEF StartRound, IInv, Phases, EmptyRound, queueVars
<1>2. OthersHaveOutput'
  BY <1>1, OccEmpty DEF Fcfs, OthersHaveOutput, HasOutput, EmptyRound
<1>3. round'.waiting = round.waiting
  BY <1>1 DEF EmptyRound
<1> QED
  BY <1>1, <1>2, <1>3, FcfsStay

LEMMA RunningCandidate ==
  ASSUME IInv, NEW r \in Reqs, Occ(r, round.running) # 0
  PROVE  status[r] = "RUNNING" /\ Occ(r, round.prefill) = 0
<1>1. /\ Occ(r, running) \in Nat /\ Occ(r, round.running) \in Nat /\ Occ(r, round.decode) \in Nat
      /\ Occ(r, round.swappedIn) \in Nat /\ Occ(r, round.prefill) \in Nat
  BY OccNat DEF IInv
<1>2. InRunning(r) # 0
  BY <1>1 DEF InRunning
<1>3. status[r] = "RUNNING"
  BY <1>2, PlaceTellsStatus
<1>4. InRunning(r) = 1
  BY <1>3 DEF IInv, Placed, One
<1> QED
  BY <1>1, <1>3, <1>4 DEF InRunning

LEMMA FcfsDecode ==
  ASSUME IInv, Fcfs, AppendFront \/ PreemptBySwap \/ SwapIn
  PROVE  Fcfs'
<1>1. round \in Rounds /\ UNCHANGED <<waiting, len, prompt>>
  BY DEF IInv, Types, AppendFront, PreemptBySwap, SwapIn, queueVars
<1>2. /\ round'.waiting = round.waiting /\ round'.recompute = round.recompute
      /\ round'.preempted = round.preempted /\ round'.prefill = round.prefill
  BY <1>1 DEF Rounds, AppendFront, PreemptBySwap, SwapIn
<1>3. \E r \in Reqs, st \in {"RUNNING", "SWAPPED"} :
        status[r] \in {"RUNNING", "SWAPPED"} /\ status' = [status EXCEPT ![r] = st]
  <2>1. CASE AppendFront
    <3>1. round.running \in Seq(Reqs) /\ round.running # <<>> /\ status' = status
      BY <1>1, <2>1 DEF AppendFront, CanRunFront, Rounds
    <3> DEFINE r == Head(round.running)
    <3>2. r \in Reqs /\ Occ(r, round.running) # 0
      BY <3>1, HeadOccurs
    <3> HIDE DEF r
    <3>3. status[r] = "RUNNING"
      BY <3>2, RunningCandidate
    <3>4. status' = [status EXCEPT ![r] = "RUNNING"]
      BY <3>1, <3>2, <3>3 DEF IInv, Types
    <3> QED BY <3>2, <3>3, <3>4
  <2>2. CASE PreemptBySwap
    <3>1. round.running \in Seq(Reqs) /\ round.running # <<>> /\ status' = [status EXCEPT ![Victim] = "SWAPPED"]
      BY <1>1, <2>2 DEF PreemptBySwap, MustPreempt, CanRunFront, Rounds
    <3>2. Victim \in Reqs /\ Occ(Victim, round.running) # 0
      BY <3>1, HeadOccurs DEF Victim
    <3>3. status[Victim] = "RUNNING"
      BY <3>2, RunningCandidate
    <3> QED BY <3>1, <3>2, <3>3
  <2>3. CASE SwapIn
    <3> DEFINE r == Head(round.swapped)
    <3>1. round.swapped \in Seq(Reqs) /\ round.swapped # <<>> /\ status' = [status EXCEPT ![r] = "RUNNING"]
      BY <1>1, <2>3 DEF SwapIn, CanSwapInFront, Rounds
    <3>2. r \in Reqs /\ Occ(r, round.swapped) # 0
      BY <3>1, HeadOccurs
    <3> HIDE DEF r
    <3>3. InSwapped(r) # 0
      BY <3>2, OccNat DEF IInv, InSwapped
    <3>4. status[r] = "SWAPPED"
      BY <3>2, <3>3, PlaceTellsStatus
    <3> QED BY <3>1, <3>2, <3>4
  <2> QED BY <2>1, <2>2, <2>3
<1>4. OthersHaveOutput'
  BY <1>1, <1>2, <1>3 DEF Fcfs, OthersHaveOutput, HasOutput, IInv, Types
<1>5. \A r \in Reqs : status'[r] = "NONE" <=> status[r] = "NONE"
  BY <1>3 DEF IInv, Types
<1> QED
  BY <1>1, <1>2, <1>4, <1>5, FcfsStay

LEMMA FcfsPreemptByRecompute ==
  ASSUME IInv, Fcfs, PreemptByRecompute
  PROVE  Fcfs'
<1> DEFINE r == Victim
<1>1. /\ round \in Rounds /\ round.running \in Seq(Reqs) /\ round.running # <<>> /\ round.preempted \in Seq(Reqs)
      /\ status' = [status EXCEPT ![r] = "WAITING"] /\ UNCHANGED <<waiting, len, prompt>>
      /\ round' = [round EXCEPT !.running = Front(@), !.preempted = Append(@, r)]
  BY DEF PreemptByRecompute, MustPreempt, CanRunFront, IInv, Types, Rounds, queueVars
<1>2. r \in Reqs /\ Occ(r, round.running) # 0
  BY <1>1, HeadOccurs DEF Victim
<1> HIDE DEF r
<1>3. status[r] = "RUNNING" /\ HasOutput(r)
  BY <1>2, RunningCandidate DEF Fcfs, OthersHaveOutput
<1>4. /\ round'.waiting = round.waiting /\ round'.recompute = round.recompute
      /\ round'.preempted = Append(round.preempted, r) /\ round'.prefill = round.prefill
  BY <1>1 DEF Rounds
<1>5. OthersHaveOutput'
  <2> SUFFICES ASSUME NEW q \in Reqs
               PROVE  /\ status'[q] \in {"RUNNING", "SWAPPED"} /\ Occ(q, round.prefill) = 0 => HasOutput(q)
                      /\ Occ(q, round.recompute) # 0 \/ Occ(q, round'.preempted) # 0 => HasOutput(q)
    BY <1>1, <1>4 DEF OthersHaveOutput, HasOutput
  <2>1. CASE q = r
    BY <1>3, <2>1
  <2>2. CASE q # r
    <3>1. Occ(q, Append(round.preempted, r)) = Occ(q, round.preempted) + One(r = q)
      BY <1>1, <1>2, OccAppend
    <3>2. Occ(q, round.preempted) \in Nat
      BY OccNat DEF IInv
    <3>3. Occ(q, round'.preempted) = Occ(q, round.preempted) /\ status'[q] = status[q]
      BY <1>1, <1>4, <2>2, <3>1, <3>2 DEF One, IInv, Types
    <3> QED BY <3>3 DEF Fcfs, OthersHaveOutput
  <2> QED BY <2>1, <2>2
<1>6. \A q \in Reqs : status'[q] = "NONE" <=> status[q] = "NONE"
  BY <1>1, <1>2, <1>3 DEF IInv, Types
<1> QED
  BY <1>1, <1>4, <1>5, <1>6, FcfsStay

LEMMA FcfsAllocate ==
  ASSUME IInv, Fcfs, AllocateAndSetRunning
  PROVE  Fcfs'
<1> DEFINE r == Head(round.waiting)
           rest == Tail(round.waiting)
<1>1. /\ round \in Rounds /\ round.waiting \in Seq(Reqs) /\ round.waiting # <<>> /\ round.prefill \in Seq(Reqs)
      /\ status' = [status EXCEPT ![r] = "RUNNING"] /\ UNCHANGED <<waiting, len, prompt>>
      /\ round' = [round EXCEPT !.waiting = Tail(@), !.prefill = Append(@, r), !.tokens = @ + len[r]]
  BY DEF AllocateAndSetRunning, CanAdmitFront, IInv, Types, Rounds, queueVars
<1>2. r \in Reqs /\ Occ(r, round.waiting) # 0
  BY <1>1, HeadOccurs
<1>3. /\ round'.waiting = rest /\ round'.recompute = round.recompute
      /\ round'.preempted = round.preempted /\ round'.prefill = Append(round.prefill, r)
  BY <1>1 DEF Rounds
<1>4. InOrder(len, prompt, round.waiting) /\ InOrder(len, prompt, waiting)
      /\ Before(len, prompt, round.waiting, waiting)
  BY DEF Fcfs, NewInOrder
<1>5. /\ InOrder(len, prompt, rest) /\ 1 \in DOMAIN round.waiting /\ r = round.waiting[1]
      /\ \A j \in DOMAIN rest : j + 1 \in DOMAIN round.waiting /\ rest[j] = round.waiting[j + 1]
  BY <1>1, <1>4, OrderTail
<1> HIDE DEF r, rest
<1>6. status[r] = "WAITING"
  BY <1>5, WaitingMembers
<1>7. Before(len, prompt, rest, waiting)
  BY <1>4, <1>5 DEF Before
<1>8. NewInOrder'
  BY <1>1, <1>3, <1>4, <1>5, <1>7 DEF NewInOrder
<1>9. OthersHaveOutput'
  <2> SUFFICES ASSUME NEW q \in Reqs
               PROVE  /\ status'[q] \in {"RUNNING", "SWAPPED"} /\ Occ(q, round'.prefill) = 0 => HasOutput(q)
                      /\ Occ(q, round.recompute) # 0 \/ Occ(q, round.preempted) # 0 => HasOutput(q)
    BY <1>1, <1>3 DEF OthersHaveOutput, HasOutput
  <2>1. Occ(q, Append(round.prefill, r)) = Occ(q, round.prefill) + One(r = q)
    BY <1>1, <1>2, OccAppend
  <2>2. Occ(q, round.prefill) \in Nat
    BY OccNat DEF IInv
  <2>3. Occ(q, round'.prefill) = 0 => q # r /\ Occ(q, round.prefill) = 0
    BY <1>3, <2>1, <2>2 DEF One
  <2>4. q # r => status'[q] = status[q]
    BY <1>1 DEF IInv, Types
  <2> QED BY <2>3, <2>4 DEF Fcfs, OthersHaveOutput
<1>10. \A q \in Reqs : status'[q] = "NONE" <=> status[q] = "NONE"
  BY <1>1, <1>2, <1>6 DEF IInv, Types
<1> QED
  BY <1>8, <1>9, <1>10, ArrivalsKept DEF Fcfs

LEMMA FcfsEndRound ==
  ASSUME IInv, Fcfs, EndRound
  PROVE  Fcfs'
<1> DEFINE w == SortedBySeqId(ToSet(round.waiting))
           t == round.preempted
<1>1. /\ waiting' = w \o waiting \o t /\ round' = EmptyRound /\ UNCHANGED <<status, prompt>>
      /\ len' = [r \in Reqs |-> IF r \in Batch THEN len[r] + 1 ELSE len[r]]
  BY DEF EndRound, BackfillConcurrentQueue, AddNextTokenPlaceHolder
<1>2. /\ waiting \in Seq(Reqs) /\ round.waiting \in Seq(Reqs) /\ t \in Seq(Reqs)
      /\ \A r \in Reqs : len[r] \in Nat /\ prompt[r] \in Nat /\ prompt[r] <= len[r]
  BY DEF IInv, Types, Rounds, Lengths
<1>3. ToSet(round.waiting) \in SUBSET Reqs
  BY <1>2 DEF ToSet
<1>4. /\ w \in Seq(Reqs) /\ \A i, j \in DOMAIN w : i < j => w[i] < w[j]
      /\ \A r : Occ(r, w) = One(r \in ToSet(round.waiting))
  BY <1>3, SortedBySeqIdProperties
<1> HIDE DEF w
<1>5. ASSUME NEW r \in Reqs
      PROVE  /\ status[r] # "RUNNING" => (New(len', prompt', r) <=> New(len, prompt, r))
             /\ HasOutput(r) => ~New(len', prompt', r)
             /\ r \in Batch => ~New(len', prompt', r)
  <2>1. r \in Batch => status[r] = "RUNNING"
    BY BatchProperties
  <2>2. len'[r] = IF r \in Batch THEN len[r] + 1 ELSE len[r]
    BY <1>1
  <2> HIDE DEF Batch
  <2> QED BY <1>1, <1>2, <2>1, <2>2 DEF New, HasOutput
<1>6. Arrivals'
  BY <1>1, ArrivalsKept DEF Fcfs
<1>7. OthersHaveOutput'
  <2> SUFFICES ASSUME NEW r \in Reqs, status[r] \in {"RUNNING", "SWAPPED"}
               PROVE  ~New(len', prompt', r)
    BY <1>1, OccEmpty DEF OthersHaveOutput, HasOutput, New, EmptyRound
  <2>1. Occ(r, round.prefill) # 0 => r \in Batch
    BY BatchProperties
  <2> QED BY <1>5, <2>1 DEF Fcfs, OthersHaveOutput
<1>8. \A i \in DOMAIN t : ~New(len', prompt', t[i])
  <2> SUFFICES ASSUME NEW i \in DOMAIN t
               PROVE  t[i] \in Reqs /\ HasOutput(t[i])
    BY <1>5
  <2>1. t[i] \in Reqs /\ t[i] \in ToSet(t)
    BY <1>2 DEF ToSet
  <2>2. Occ(t[i], t) # 0
    BY <1>2, <2>1, OccMember
  <2> QED BY <2>1, <2>2 DEF Fcfs, OthersHaveOutput
<1>9. \A i \in DOMAIN w : \E k \in DOMAIN round.waiting : w[i] = round.waiting[k]
  <2> SUFFICES ASSUME NEW i \in DOMAIN w
               PROVE  w[i] \in ToSet(round.waiting)
    BY DEF ToSet
  <2>1. w[i] \in ToSet(w)
    BY <1>4 DEF ToSet
  <2>2. Occ(w[i], w) # 0
    BY <1>4, <2>1, OccMember
  <2> QED BY <1>4, <2>2 DEF One
<1>10. /\ \A i \in DOMAIN waiting : New(len', prompt', waiting[i]) <=> New(len, prompt, waiting[i])
       /\ \A i \in DOMAIN round.waiting :
            New(len', prompt', round.waiting[i]) <=> New(len, prompt, round.waiting[i])
  BY <1>5, WaitingMembers
<1>11. InOrder(len', prompt', w)
  BY <1>4 DEF InOrder
<1>12. InOrder(len', prompt', waiting)
  BY <1>10 DEF Fcfs, NewInOrder, InOrder
<1>13. Before(len', prompt', w, waiting)
  BY <1>9, <1>10 DEF Fcfs, NewInOrder, Before
<1> HIDE DEF t
<1>14. InOrder(len', prompt', t)
  BY <1>8 DEF InOrder
<1>15. InOrder(len', prompt', w \o waiting \o t)
  <2> DEFINE u == w \o waiting
  <2>1. u \in Seq(Reqs)
    BY <1>2, <1>4
  <2>2. InOrder(len', prompt', u)
    BY <1>2, <1>4, <1>11, <1>12, <1>13, OrderConcat
  <2> HIDE DEF u
  <2>3. Before(len', prompt', u, t)
    BY <1>8 DEF Before
  <2>4. InOrder(len', prompt', u \o t)
    BY <1>2, <1>14, <2>1, <2>2, <2>3, OrderConcat
  <2> QED BY <2>4 DEF u
<1>16. NewInOrder'
  <2>1. round'.waiting = <<>>
    BY <1>1 DEF EmptyRound
  <2>2. InOrder(len', prompt', <<>>) /\ Before(len', prompt', <<>>, waiting')
    BY DEF InOrder, Before
  <2>3. InOrder(len', prompt', waiting')
    BY <1>1, <1>15
  <2> QED BY <2>1, <2>2, <2>3 DEF NewInOrder
<1> QED
  BY <1>6, <1>7, <1>16 DEF Fcfs

LEMMA FcfsNext == IInv /\ IInv' /\ Fcfs /\ [Next]_vars => Fcfs'
<1> SUFFICES ASSUME IInv, IInv', Fcfs, [Next]_vars
             PROVE  Fcfs'
  OBVIOUS
<1>1. ASSUME NEW r \in Reqs, NEW n \in Prompts, AddRequest(r, n) PROVE Fcfs'
  BY <1>1, FcfsAddRequest
<1>2. ASSUME NEW r \in Reqs, AbortRequest(r) \/ Wait(r) PROVE Fcfs'
  <2>1. UNCHANGED <<waiting, status, len, prompt, round>>
    BY <1>2 DEF AbortRequest, Wait, queueVars
  <2> QED BY <2>1, FcfsQuiet
<1>3. CASE Respond \/ RunningDone \/ SwappedDone \/ WaitingDone \/ UNCHANGED vars
  <2>1. UNCHANGED <<waiting, status, len, prompt, round>>
    BY <1>3 DEF Respond, RunningDone, SwappedDone, WaitingDone, vars, queueVars
  <2> QED BY <2>1, FcfsQuiet
<1>4. CASE StartRound \/ ApplyPolicy
  BY <1>4, FcfsStartRound, FcfsApplyPolicy
<1>5. CASE PrepCandidates
  <2>1. DequeueFrom \in {"waiting", "running", "swapped"}
    BY <1>5 DEF PrepCandidates, DequeueFrom
  <2> QED BY <1>5, <2>1, FcfsDequeueWaiting, FcfsDequeueRunning, FcfsDequeueSwapped
<1>6. CASE AppendFront \/ PreemptBySwap \/ SwapIn
  BY <1>6, FcfsDecode
<1>7. CASE PreemptByRecompute \/ AllocateAndSetRunning
  BY <1>7, FcfsPreemptByRecompute, FcfsAllocate
<1>8. CASE EndRound \/ StopRunningRequest
  BY <1>8, FcfsEndRound, FcfsStop
<1> QED
  BY <1>1, <1>2, <1>3, <1>4, <1>5, <1>6, <1>7, <1>8 DEF Next, SchedulerThread

LEMMA FcfsInit == Init => Fcfs
  BY OccEmpty DEF Init, Fcfs, Arrivals, OthersHaveOutput, NewInOrder, InOrder, Before, EmptyRound

(* A new request is admitted only if no earlier new request waits.         *)
LEMMA AdmittedInTurn ==
  ASSUME IInv, Fcfs, [Next]_vars,
         NEW r \in Reqs, status[r] = "WAITING", status'[r] = "RUNNING", ~HasOutput(r),
         NEW q \in Reqs, q < r
  PROVE  ~(status[q] = "WAITING" /\ ~HasOutput(q))
<1>1. AllocateAndSetRunning
  <2>1. ASSUME NEW p \in Reqs, NEW n \in Prompts, AddRequest(p, n) PROVE FALSE
    BY <2>1 DEF AddRequest, IInv, Types
  <2>2. ASSUME NEW p \in Reqs, AbortRequest(p) \/ Wait(p) PROVE FALSE
    BY <2>2 DEF AbortRequest, Wait
  <2>3. ASSUME Respond \/ StartRound \/ ApplyPolicy \/ RunningDone \/ SwappedDone \/ WaitingDone
                 \/ AppendFront \/ EndRound \/ UNCHANGED vars
        PROVE  FALSE
    BY <2>3 DEF Respond, StartRound, ApplyPolicy, RunningDone, SwappedDone, WaitingDone, AppendFront, EndRound, vars
  <2>4. ASSUME PrepCandidates \/ StopRunningRequest PROVE FALSE
    BY <2>4 DEF PrepCandidates, Dequeue, StopRunningRequest, ClearSeqGrps
  <2>5. ASSUME PreemptBySwap \/ PreemptByRecompute PROVE FALSE
    BY <2>5 DEF PreemptBySwap, PreemptByRecompute, IInv, Types
  <2>6. ASSUME SwapIn PROVE FALSE
    <3> DEFINE p == Head(round.swapped)
    <3>1. round.swapped \in Seq(Reqs) /\ round.swapped # <<>> /\ status' = [status EXCEPT ![p] = "RUNNING"]
      BY <2>6 DEF SwapIn, CanSwapInFront, IInv, Types, Rounds
    <3>2. p \in Reqs /\ Occ(p, round.swapped) # 0
      BY <3>1, HeadOccurs
    <3> HIDE DEF p
    <3>3. InSwapped(p) # 0
      BY <3>2, OccNat DEF IInv, InSwapped
    <3>4. status[p] = "SWAPPED"
      BY <3>2, <3>3, PlaceTellsStatus
    <3> QED BY <3>1, <3>4 DEF IInv, Types
  <2> QED BY <2>1, <2>2, <2>3, <2>4, <2>5, <2>6 DEF Next, SchedulerThread
<1>2. r = Head(round.waiting) /\ round.waiting \in Seq(Reqs) /\ round.waiting # <<>>
  BY <1>1 DEF AllocateAndSetRunning, CanAdmitFront, IInv, Types, Rounds
<1>3. InOrder(len, prompt, round.waiting) /\ Before(len, prompt, round.waiting, waiting)
  BY DEF Fcfs, NewInOrder
<1>4. 1 \in DOMAIN round.waiting /\ r = round.waiting[1]
  BY <1>2, <1>3, OrderTail
<1> SUFFICES ASSUME status[q] = "WAITING", ~HasOutput(q)
             PROVE  FALSE
  OBVIOUS
<1>5. Occ(q, waiting) # 0 \/ Occ(q, round.waiting) # 0
  <2>1. Occ(q, round.recompute) = 0 /\ Occ(q, round.preempted) = 0
    BY DEF Fcfs, OthersHaveOutput
  <2>2. InWaiting(q) = 1
    BY DEF IInv, Placed, One
  <2>3. Occ(q, waiting) \in Nat /\ Occ(q, round.waiting) \in Nat
    BY OccNat DEF IInv
  <2> QED BY <2>1, <2>2, <2>3 DEF InWaiting
<1>6. (\E j \in DOMAIN waiting : waiting[j] = q) \/ (\E j \in DOMAIN round.waiting : round.waiting[j] = q)
  <2>1. q \in ToSet(waiting) \/ q \in ToSet(round.waiting)
    BY <1>2, <1>5, WaitingMembers, OccMember
  <2> QED BY <2>1 DEF ToSet
<1>7. New(len, prompt, q) /\ New(len, prompt, r) /\ q \in Nat /\ r \in Nat
  BY ConstantTypes DEF New, HasOutput
<1>8. CASE \E j \in DOMAIN waiting : waiting[j] = q
  <2>1. r < q
    BY <1>3, <1>4, <1>7, <1>8 DEF Before
  <2> QED BY <1>7, <2>1
<1>9. CASE \E j \in DOMAIN round.waiting : round.waiting[j] = q
  <2>1. PICK j \in DOMAIN round.waiting : round.waiting[j] = q
    BY <1>9
  <2>2. j # 1 /\ j \in Nat /\ 1 < j
    <3>1. DOMAIN round.waiting = 1..Len(round.waiting)
      BY <1>2
    <3> QED BY <1>4, <1>7, <2>1, <3>1
  <2>3. r < q
    BY <1>3, <1>4, <1>7, <2>1, <2>2 DEF InOrder
  <2> QED BY <1>7, <2>3
<1> QED
  BY <1>6, <1>8, <1>9

(* New requests are first served in the order they came, though rounds     *)
(* take them off the queue, put them back sorted and mix them with         *)
(* recomputed ones.                                                        *)
THEOREM ServedInOrder == Spec => FirstComeFirstServed
<1>1. Spec => []Fcfs
  <2>1. Init => Fcfs
    BY FcfsInit
  <2>2. IInv /\ IInv' /\ Fcfs /\ [Next]_vars => Fcfs'
    BY FcfsNext
  <2> QED BY <2>1, <2>2, Invariance, PTL DEF Spec
<1>2. IInv /\ Fcfs /\ [Next]_vars
        => [\A r \in Reqs :
              status[r] = "WAITING" /\ status'[r] = "RUNNING" /\ ~HasOutput(r)
                => \A q \in Reqs : q < r => ~(status[q] = "WAITING" /\ ~HasOutput(q))]_vars
  BY AdmittedInTurn
<1> QED
  BY <1>1, <1>2, Invariance, PTL DEF Spec, FirstComeFirstServed
=============================================================================
