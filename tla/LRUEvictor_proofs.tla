-------------------------- MODULE LRUEvictor_proofs --------------------------
(***************************************************************************)
(* The priority queue of LRUEvictor may hold stale entries; what makes     *)
(* Evict right is that no live entry is ever missing.  The inductive       *)
(* invariant is the types and CandidatesQueued; QueueBounded needs, beside *)
(* it, that the queue is finite.                                           *)
(***************************************************************************)
EXTENDS LRUEvictor, FiniteSetTheorems, TLAPS

(* The queue after Evict has dropped the entries in popped and one copy of *)
(* d.                                                                      *)
Popped(popped, d) ==
  [e \in DOMAIN priorityQueue \ popped |-> priorityQueue[e]] (-) SetToBag({d})

(* A queue of entries, each at least once.                                 *)
IsQueue(q) == DOMAIN q \subseteq BlockMetaData /\ \A e \in DOMAIN q : q[e] \in Nat \ {0}

(* Bags: an entry that is added is there, and everything else stays.       *)
LEMMA Pushed ==
  ASSUME NEW q, IsQueue(q), NEW d \in BlockMetaData
  PROVE  /\ IsQueue(q (+) SetToBag({d}))
         /\ DOMAIN (q (+) SetToBag({d})) = DOMAIN q \cup {d}
<1>1. DOMAIN SetToBag({d}) = {d} /\ SetToBag({d})[d] = 1
  BY DEF SetToBag
<1>2. DOMAIN (q (+) SetToBag({d})) = DOMAIN q \cup {d}
  BY <1>1 DEF (+)
<1>3. ASSUME NEW e \in DOMAIN q \cup {d}
      PROVE  (q (+) SetToBag({d}))[e] \in Nat \ {0}
  <2>1. (q (+) SetToBag({d}))[e] =
          (IF e \in DOMAIN q THEN q[e] ELSE 0) + (IF e \in {d} THEN 1 ELSE 0)
    BY <1>1 DEF (+)
  <2> QED BY <2>1 DEF IsQueue
<1> QED BY <1>2, <1>3 DEF IsQueue

(* Cleanup leaves one entry per candidate.                                 *)
LEMMA Cleaned ==
  ASSUME NEW cands, \A b \in DOMAIN cands : cands[b] \in BlockMetaData
  PROVE  /\ IsQueue(Cleanup(cands))
         /\ \A b \in DOMAIN cands : cands[b] \in DOMAIN Cleanup(cands)
BY DEF Cleanup, SetToBag, IsQueue

(* What Evict drops is gone, d loses a copy, and every other entry stays.  *)
LEMMA AfterEvict ==
  ASSUME IsQueue(priorityQueue), NEW popped, NEW d \in DOMAIN priorityQueue
  PROVE  /\ IsQueue(Popped(popped, d))
         /\ \A e \in DOMAIN priorityQueue : e \notin popped /\ e # d => e \in DOMAIN Popped(popped, d)
<1> DEFINE q == [e \in DOMAIN priorityQueue \ popped |-> priorityQueue[e]]
           left == [e \in DOMAIN q |-> IF e \in {d} THEN q[e] - 1 ELSE q[e]]
<1>1. DOMAIN SetToBag({d}) = {d} /\ SetToBag({d})[d] = 1
  BY DEF SetToBag
<1>2. left = [e \in DOMAIN q |-> IF e \in DOMAIN SetToBag({d}) THEN q[e] - SetToBag({d})[e] ELSE q[e]]
  BY <1>1
<1>3. Popped(popped, d) = [e \in {x \in DOMAIN left : left[x] > 0} |-> left[e]]
  BY <1>2 DEF Popped, (-)
<1>4. \A e \in DOMAIN q : left[e] \in Int /\ (e # d => left[e] = priorityQueue[e])
  BY DEF IsQueue
<1>5. DOMAIN q = DOMAIN priorityQueue \ popped /\ DOMAIN left = DOMAIN q
  OBVIOUS
<1> HIDE DEF left, q
<1> QED BY <1>3, <1>4, <1>5 DEF IsQueue
-----------------------------------------------------------------------------
IInv == TypeOK /\ CandidatesQueued

LEMMA QueueTyped == TypeOK => IsQueue(priorityQueue)
BY DEF TypeOK, IsQueue

LEMMA InitIInv == Init => IInv
BY DEF Init, IInv, TypeOK, CandidatesQueued, EmptyBag, SetToBag

(* Add puts the new candidate's entry into the queue, or rebuilds it.      *)
LEMMA AddKeeps ==
  ASSUME IInv, NEW d \in BlockMetaData, Add(d)
  PROVE  IInv'
<1> USE DEF IInv, TypeOK
<1> DEFINE cands == [c \in DOMAIN candidates \cup {d.blockId} |->
                       IF c = d.blockId THEN d ELSE candidates[c]]
           queue == priorityQueue (+) SetToBag({d})
<1>1. /\ candidates' = cands /\ evicted' = INVALID_BLOCKID
      /\ priorityQueue' = queue \/ priorityQueue' = Cleanup(cands)
  BY DEF Add
<1>2. d.blockId \in BlockIds
  BY DEF BlockMetaData
<1>3. /\ DOMAIN cands \subseteq BlockIds
      /\ \A b \in DOMAIN cands : cands[b] \in BlockMetaData /\ cands[b].blockId = b
      /\ \A b \in DOMAIN cands : cands[b] \in DOMAIN priorityQueue \cup {d}
  BY <1>2 DEF CandidatesQueued
<1>4. IsQueue(queue) /\ DOMAIN queue = DOMAIN priorityQueue \cup {d}
  BY Pushed, QueueTyped
<1>5. IsQueue(Cleanup(cands)) /\ \A b \in DOMAIN cands : cands[b] \in DOMAIN Cleanup(cands)
  BY Cleaned, <1>3
<1>6. IsQueue(priorityQueue') /\ \A b \in DOMAIN cands : cands[b] \in DOMAIN priorityQueue'
  BY <1>1, <1>3, <1>4, <1>5
<1> HIDE DEF cands, queue
<1> QED BY <1>1, <1>3, <1>6 DEF CandidatesQueued, IsQueue

(* Remove takes a candidate away and leaves the queue alone.               *)
LEMMA RemoveKeeps ==
  ASSUME IInv, NEW b \in BlockIds, Remove(b)
  PROVE  IInv'
BY DEF IInv, TypeOK, CandidatesQueued, Remove, Without

(* A candidate's own entry always matches it.                              *)
LEMMA OwnEntryMatches ==
  ASSUME IInv, NEW b \in DOMAIN candidates
  PROVE  candidates[b] \in DOMAIN priorityQueue /\ Matches(candidates[b])
<1>1. /\ candidates[b] \in BlockMetaData /\ candidates[b].blockId = b
      /\ candidates[b] \in DOMAIN priorityQueue
  BY DEF IInv, TypeOK, CandidatesQueued
<1>2. candidates[b].lastAccessedTime \in Int
  BY <1>1, EvictorAssumption DEF BlockMetaData
<1> QED BY <1>1, <1>2, EvictorAssumption DEF Matches, IsClose

(* Evict drops only entries that match nobody, and the victim's own.       *)
LEMMA EvictKeeps ==
  ASSUME IInv, NEW d \in DOMAIN priorityQueue, Evict(d)
  PROVE  IInv'
<1>1. PICK popped \in SUBSET {e \in DOMAIN priorityQueue : ~Before(d, e) /\ ~Matches(e)} :
        priorityQueue' = Popped(popped, d)
  BY DEF Evict, Popped
<1>2. /\ candidates' = Without(d.blockId) /\ evicted' = d.blockId
      /\ d.blockId \in DOMAIN candidates
  BY DEF Evict, Matches
<1>3. IsQueue(priorityQueue')
  BY <1>1, AfterEvict, QueueTyped DEF IInv
<1>4. ASSUME NEW b \in DOMAIN candidates, b # d.blockId
      PROVE  candidates[b] \in DOMAIN priorityQueue'
  <2>1. candidates[b] \in DOMAIN priorityQueue /\ Matches(candidates[b])
    BY OwnEntryMatches
  <2>2. candidates[b] \notin popped
    BY <2>1
  <2>3. candidates[b] # d
    BY <1>4 DEF IInv, TypeOK
  <2> QED BY <1>1, <2>1, <2>2, <2>3, AfterEvict, QueueTyped DEF IInv
<1>5. TypeOK'
  BY <1>2, <1>3 DEF IInv, TypeOK, Without, IsQueue
<1>6. CandidatesQueued'
  BY <1>2, <1>4 DEF CandidatesQueued, Without
<1> QED BY <1>5, <1>6 DEF IInv

THEOREM EvictorInvariant == Spec => []IInv
<1>1. IInv /\ [Next]_vars => IInv'
  <2>1. CASE UNCHANGED vars
    BY <2>1 DEF IInv, TypeOK, CandidatesQueued, vars
  <2> QED BY <2>1, AddKeeps, RemoveKeeps, EvictKeeps DEF Next
<1> QED BY <1>1, InitIInv, PTL DEF Spec
-----------------------------------------------------------------------------
(* The candidates, the queue and the victim stay well formed: each         *)
(* candidate's data is its own.                                            *)
THEOREM TypeCorrect == Spec => []TypeOK
<1>1. IInv => TypeOK
  BY DEF IInv
<1> QED BY <1>1, EvictorInvariant, PTL

(* Evict never runs the queue empty while there is a candidate, whatever   *)
(* Remove leaves behind and Cleanup throws away.                           *)
THEOREM CandidatesAreQueued == Spec => []CandidatesQueued
<1>1. IInv => CandidatesQueued
  BY DEF IInv
<1> QED BY <1>1, EvictorInvariant, PTL

-----------------------------------------------------------------------------
(* The size of the queue.  It is finite because Add is the only way in and *)
(* checks it; Evict and Remove never add a copy.                           *)
HasCopy(q, d, i) == d \in DOMAIN q /\ i \in 1 .. q[d]

LEMMA CopiesAre ==
  ASSUME NEW q, NEW c
  PROVE  c \in Copies(q) <=> \E d, i : c = <<d, i>> /\ HasCopy(q, d, i)
BY DEF Copies, HasCopy

LEMMA PushedSize ==
  ASSUME NEW q, IsQueue(q), NEW d \in BlockMetaData, IsFiniteSet(Copies(q))
  PROVE  /\ IsFiniteSet(Copies(q (+) SetToBag({d})))
         /\ Size(q (+) SetToBag({d})) = Size(q) + 1
<1> DEFINE p == q (+) SetToBag({d})
           n == IF d \in DOMAIN q THEN q[d] ELSE 0
<1>1. DOMAIN SetToBag({d}) = {d} /\ SetToBag({d})[d] = 1
  BY DEF SetToBag
<1>2. DOMAIN p = DOMAIN q \cup {d}
  BY Pushed
<1>3. n \in Nat /\ \A e \in DOMAIN q : q[e] \in Nat
  BY DEF IsQueue
<1>4. p[d] = n + 1 /\ \A e \in DOMAIN q : e # d => p[e] = q[e]
  <2>1. \A e \in DOMAIN q \cup {d} :
          p[e] = (IF e \in DOMAIN q THEN q[e] ELSE 0) + (IF e \in {d} THEN 1 ELSE 0)
    BY <1>1 DEF (+)
  <2> HIDE DEF p
  <2>2. p[d] = n + 1
    BY <2>1
  <2>3. ASSUME NEW e \in DOMAIN q, e # d
        PROVE  p[e] = q[e]
    BY <1>3, <2>1, <2>3
  <2> QED BY <2>2, <2>3
<1> HIDE DEF p
<1>5. \A e, i : HasCopy(p, e, i) <=> HasCopy(q, e, i) \/ (e = d /\ i = n + 1)
  <2> SUFFICES ASSUME NEW e, NEW i
               PROVE  HasCopy(p, e, i) <=> HasCopy(q, e, i) \/ (e = d /\ i = n + 1)
    OBVIOUS
  <2>1. CASE e # d
    BY <1>2, <1>4, <2>1 DEF HasCopy
  <2>2. CASE e = d
    <3>1. HasCopy(p, e, i) <=> i \in 1 .. n + 1
      BY <1>2, <1>4, <2>2 DEF HasCopy
    <3>2. HasCopy(q, e, i) <=> i \in 1 .. n
      BY <1>3, <2>2 DEF HasCopy
    <3> QED BY <1>3, <2>2, <3>1, <3>2
  <2> QED BY <2>1, <2>2
<1>6. ~ HasCopy(q, d, n + 1)
  BY <1>3 DEF HasCopy
<1> HIDE DEF n
<1>7. Copies(p) = Copies(q) \cup {<<d, n + 1>>}
  <2>1. \A c : c \in Copies(p) <=> c \in Copies(q) \/ c = <<d, n + 1>>
    BY <1>5, CopiesAre
  <2> QED BY <2>1
<1>8. <<d, n + 1>> \notin Copies(q)
  BY <1>6, CopiesAre
<1>9. IsFiniteSet(Copies(p)) /\ Cardinality(Copies(p)) = Cardinality(Copies(q)) + 1
  BY <1>7, <1>8, FS_AddElement
<1> QED BY <1>9 DEF Size, p

(* Cleanup leaves no more entries than there are candidates.               *)
LEMMA CleanedSize ==
  ASSUME NEW cands, IsFiniteSet(DOMAIN cands)
  PROVE  /\ IsFiniteSet(Copies(Cleanup(cands)))
         /\ Size(Cleanup(cands)) <= Cardinality(DOMAIN cands)
<1> DEFINE B == DOMAIN cands
           C == Copies(Cleanup(cands))
           f == [b \in B |-> <<cands[b], 1>>]
<1>1. DOMAIN Cleanup(cands) = {cands[b] : b \in B} /\ \A e \in DOMAIN Cleanup(cands) : Cleanup(cands)[e] = 1
  BY DEF Cleanup, SetToBag
<1>2. \A c : c \in C <=> \E b \in B : c = <<cands[b], 1>>
  <2>1. \A d, i : HasCopy(Cleanup(cands), d, i) <=> i = 1 /\ \E b \in B : d = cands[b]
    BY <1>1 DEF HasCopy
  <2> QED BY <2>1, CopiesAre
<1>3. f \in Surjection(B, C)
  <2>1. f \in [B -> C] /\ \A c \in C : \E b \in B : f[b] = c
    BY <1>2
  <2> QED BY <2>1 DEF Surjection
<1> HIDE DEF B, C, f
<1>4. IsFiniteSet(C) /\ Cardinality(C) <= Cardinality(B)
  BY <1>3, FS_Surjection DEF B
<1> QED BY <1>4 DEF Size, B, C

LEMMA EvictShrinks ==
  ASSUME IsQueue(priorityQueue), IsFiniteSet(Copies(priorityQueue)),
         NEW popped, NEW d \in DOMAIN priorityQueue
  PROVE  /\ IsFiniteSet(Copies(Popped(popped, d)))
         /\ Size(Popped(popped, d)) <= Size(priorityQueue)
<1> DEFINE q == [e \in DOMAIN priorityQueue \ popped |-> priorityQueue[e]]
           left == [e \in DOMAIN q |-> IF e \in {d} THEN q[e] - 1 ELSE q[e]]
           p == Popped(popped, d)
<1>1. DOMAIN SetToBag({d}) = {d} /\ SetToBag({d})[d] = 1
  BY DEF SetToBag
<1>2. left = [e \in DOMAIN q |-> IF e \in DOMAIN SetToBag({d}) THEN q[e] - SetToBag({d})[e] ELSE q[e]]
  BY <1>1
<1>3. p = [e \in {x \in DOMAIN left : left[x] > 0} |-> left[e]]
  BY <1>2 DEF Popped, (-)
<1>4. \A e \in DOMAIN left : e \in DOMAIN priorityQueue /\ left[e] \in Int /\ left[e] <= priorityQueue[e]
  BY DEF IsQueue
<1> HIDE DEF left, p
<1>5. \A e \in DOMAIN p : e \in DOMAIN priorityQueue /\ p[e] \in Int /\ p[e] <= priorityQueue[e]
  BY <1>3, <1>4
<1>6. \A e, i : HasCopy(p, e, i) => HasCopy(priorityQueue, e, i)
  BY <1>5 DEF HasCopy, IsQueue
<1>7. Copies(p) \in SUBSET Copies(priorityQueue)
  BY <1>6, CopiesAre
<1> QED BY <1>7, FS_Subset DEF Size, p

(* The bound does not depend on how many candidates there are at the       *)
(* moment: T entries for each of m candidates are at most T for each of n  *)
(* blocks.                                                                 *)
LEMMA BoundGrows ==
  ASSUME NEW T \in Nat \ {0}, NEW n \in Nat, NEW m \in 0 .. n
  PROVE  m <= T * n /\ T * m <= T * n /\ T * n \in Nat
OBVIOUS

SizeInv == IsFiniteSet(Copies(priorityQueue)) /\ QueueBounded

LEMMA InitSizeInv == Init => SizeInv
<1> SUFFICES ASSUME Init PROVE SizeInv
  OBVIOUS
<1>1. Copies(priorityQueue) = {}
  BY DEF Init, Copies, EmptyBag, SetToBag
<1>2. IsFiniteSet(Copies(priorityQueue)) /\ Size(priorityQueue) = 0
  BY <1>1, FS_EmptySet DEF Size
<1>3. Cardinality(BlockIds) \in Nat /\ CleanupThreshold \in Nat \ {0}
  BY EvictorAssumption, FS_CardinalityType
<1>4. 0 <= CleanupThreshold * Cardinality(BlockIds)
  BY <1>3, BoundGrows
<1> QED BY <1>2, <1>4 DEF SizeInv, QueueBounded

LEMMA AddBounded ==
  ASSUME IInv, SizeInv, NEW d \in BlockMetaData, Add(d)
  PROVE  SizeInv'
<1> DEFINE cands == [c \in DOMAIN candidates \cup {d.blockId} |->
                       IF c = d.blockId THEN d ELSE candidates[c]]
           queue == priorityQueue (+) SetToBag({d})
           m == Cardinality(DOMAIN cands)
           n == Cardinality(BlockIds)
<1>1. priorityQueue' = IF Size(queue) > CleanupThreshold * m THEN Cleanup(cands) ELSE queue
  BY DEF Add
<1>2. DOMAIN cands \in SUBSET BlockIds
  BY DEF IInv, TypeOK, BlockMetaData
<1>3. IsFiniteSet(DOMAIN cands) /\ m <= n
  BY <1>2, EvictorAssumption, FS_Subset
<1>4. n \in Nat /\ m \in Nat /\ CleanupThreshold \in Nat \ {0}
  BY <1>3, EvictorAssumption, FS_CardinalityType
<1>5. IsFiniteSet(Copies(queue)) /\ Size(queue) \in Nat
  <2>1. IsFiniteSet(Copies(queue))
    BY PushedSize, QueueTyped DEF IInv, SizeInv
  <2> QED BY <2>1, FS_CardinalityType DEF Size
<1>6. IsFiniteSet(Copies(Cleanup(cands))) /\ Size(Cleanup(cands)) \in Nat /\ Size(Cleanup(cands)) <= m
  <2>1. IsFiniteSet(Copies(Cleanup(cands))) /\ Size(Cleanup(cands)) <= m
    BY <1>3, CleanedSize
  <2> QED BY <2>1, FS_CardinalityType DEF Size
<1> HIDE DEF cands, queue, m, n
<1>7. m <= CleanupThreshold * n /\ CleanupThreshold * m <= CleanupThreshold * n
      /\ CleanupThreshold * n \in Nat /\ CleanupThreshold * m \in Nat
  <2>1. m \in 0 .. n /\ m \in 0 .. m
    BY <1>3, <1>4
  <2> QED BY <1>4, <2>1, BoundGrows
<1> DEFINE bound == CleanupThreshold * n
           limit == CleanupThreshold * m
<1>8. m <= bound /\ limit <= bound /\ bound \in Nat /\ limit \in Nat
  BY <1>7
<1> HIDE DEF bound, limit
<1>9. CASE Size(queue) > limit
  <2>1. priorityQueue' = Cleanup(cands)
    BY <1>1, <1>9 DEF limit
  <2>2. Size(Cleanup(cands)) <= bound
    BY <1>4, <1>6, <1>8
  <2> QED BY <1>6, <2>1, <2>2 DEF SizeInv, QueueBounded, bound, n
<1>10. CASE ~ (Size(queue) > limit)
  <2>1. priorityQueue' = queue
    BY <1>1, <1>10 DEF limit
  <2>2. Size(queue) <= bound
    BY <1>5, <1>8, <1>10
  <2> QED BY <1>5, <2>1, <2>2 DEF SizeInv, QueueBounded, bound, n
<1> QED BY <1>9, <1>10

LEMMA EvictBounded ==
  ASSUME IInv, SizeInv, NEW d \in DOMAIN priorityQueue, Evict(d)
  PROVE  SizeInv'
<1>1. PICK popped \in SUBSET {e \in DOMAIN priorityQueue : ~Before(d, e) /\ ~Matches(e)} :
        priorityQueue' = Popped(popped, d)
  BY DEF Evict, Popped
<1>2. /\ IsFiniteSet(Copies(priorityQueue')) /\ Size(priorityQueue') <= Size(priorityQueue)
  BY <1>1, EvictShrinks, QueueTyped DEF IInv, SizeInv
<1>3. Size(priorityQueue) \in Nat /\ Size(priorityQueue') \in Nat
  BY <1>2, FS_CardinalityType DEF Size, SizeInv
<1>4. Cardinality(BlockIds) \in Nat /\ CleanupThreshold \in Nat \ {0}
  BY EvictorAssumption, FS_CardinalityType
<1> DEFINE bound == CleanupThreshold * Cardinality(BlockIds)
<1>5. bound \in Nat /\ Size(priorityQueue) <= bound
  BY <1>4, BoundGrows DEF SizeInv, QueueBounded
<1> HIDE DEF bound
<1>6. Size(priorityQueue') <= bound
  BY <1>2, <1>3, <1>5
<1> QED BY <1>2, <1>6 DEF SizeInv, QueueBounded, bound

(* For any finite set of blocks and any threshold, the entries that Remove *)
(* leaves behind do not pile up: Add's check bounds the queue although     *)
(* Remove lowers the number of candidates it compares with.                *)
THEOREM QueueIsBounded == Spec => []QueueBounded
<1>1. IInv /\ SizeInv /\ [Next]_vars => SizeInv'
  <2>1. CASE UNCHANGED priorityQueue
    BY <2>1 DEF SizeInv, QueueBounded
  <2>2. CASE \E b \in BlockIds : Remove(b)
    BY <2>1, <2>2 DEF Remove
  <2>3. CASE UNCHANGED vars
    BY <2>1, <2>3 DEF vars
  <2> QED BY <2>2, <2>3, AddBounded, EvictBounded DEF Next
<1>2. SizeInv => QueueBounded
  BY DEF SizeInv
<1> QED BY <1>1, <1>2, InitSizeInv, EvictorInvariant, PTL DEF Spec

-----------------------------------------------------------------------------
(* The victim was not accessed more than Tolerance later than any other    *)
(* candidate: its entry is close to its access time, and every other       *)
(* candidate's own entry is in the queue and comes no earlier.             *)
LEMMA VictimIsOld ==
  ASSUME IInv, NEW d \in DOMAIN priorityQueue, Evict(d), NEW c \in DOMAIN candidates
  PROVE  accessed[d.blockId] <= accessed[c] + Tolerance
<1> DEFINE own == candidates[d.blockId].lastAccessedTime
           other == candidates[c].lastAccessedTime
<1>1. d \in BlockMetaData /\ d.blockId \in DOMAIN candidates
  BY DEF IInv, TypeOK, Evict, Matches
<1>2. own \in Int /\ other \in Int /\ d.lastAccessedTime \in Int
  BY <1>1, EvictorAssumption DEF IInv, TypeOK, BlockMetaData
<1>3. own - d.lastAccessedTime <= Tolerance
  BY DEF Evict, Matches, IsClose
<1>4. ~Before(candidates[c], d)
  BY OwnEntryMatches DEF Evict
<1>5. ~(other < d.lastAccessedTime)
  BY <1>4 DEF Before
<1>6. accessed[d.blockId] = own /\ accessed[c] = other
  BY <1>1 DEF accessed
<1> HIDE DEF own, other
<1> QED BY <1>2, <1>3, <1>5, <1>6, EvictorAssumption

(* For any blocks, times and thresholds, every Add, Remove and Evict of    *)
(* the lazy queue is one of the evictor it stands for.                     *)
THEOREM ImplementsEvictor == Spec => AbstractSpec
<1>1. Init => Abstract!Init
  BY DEF Init, Abstract!Init, accessed
<1>2. ASSUME IInv, [Next]_vars
      PROVE  [Abstract!Next]_<<accessed, evicted>>
  <2>1. ASSUME NEW d \in BlockMetaData, Add(d)
        PROVE  Abstract!Next
    <3>1. /\ d.blockId \in BlockIds /\ d.lastAccessedTime \in Times
          /\ d.blockId \notin DOMAIN accessed
          /\ evicted' = INVALID_BLOCKID
      BY <2>1 DEF BlockMetaData, Add, accessed
    <3>2. accessed' = [c \in DOMAIN accessed \cup {d.blockId} |->
                         IF c = d.blockId THEN d.lastAccessedTime ELSE accessed[c]]
      BY <2>1 DEF Add, accessed
    <3> QED BY <3>1, <3>2 DEF Abstract!Next, Abstract!Add
  <2>2. ASSUME NEW b \in BlockIds, Remove(b)
        PROVE  Abstract!Next
    <3>1. /\ b \in DOMAIN accessed /\ evicted' = INVALID_BLOCKID
          /\ accessed' = [c \in DOMAIN accessed \ {b} |-> accessed[c]]
      BY <2>2 DEF Remove, Without, accessed
    <3> QED BY <3>1 DEF Abstract!Next, Abstract!Remove, Abstract!Without
  <2>3. ASSUME NEW d \in DOMAIN priorityQueue, Evict(d)
        PROVE  Abstract!Next
    <3>1. d.blockId \in BlockIds /\ d.blockId \in DOMAIN accessed
      BY <1>2, <2>3 DEF IInv, TypeOK, Evict, Matches, accessed
    <3>2. \A c \in DOMAIN accessed : accessed[d.blockId] <= accessed[c] + Tolerance
      BY <1>2, <2>3, VictimIsOld DEF accessed
    <3>3. /\ evicted' = d.blockId
          /\ accessed' = [c \in DOMAIN accessed \ {d.blockId} |-> accessed[c]]
      BY <2>3 DEF Evict, Without, accessed
    <3> QED BY <3>1, <3>2, <3>3 DEF Abstract!Next, Abstract!Evict, Abstract!Without
  <2>4. CASE UNCHANGED vars
    BY <2>4 DEF vars, accessed
  <2> QED BY <1>2, <2>1, <2>2, <2>3, <2>4 DEF Next
<1> QED BY <1>1, <1>2, EvictorInvariant, PTL DEF Spec, AbstractSpec, Abstract!Spec
=============================================================================
