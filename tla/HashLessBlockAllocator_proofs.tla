-------------------- MODULE HashLessBlockAllocator_proofs --------------------
(***************************************************************************)
(* Proofs about the hashless allocator for any finite set of blocks and    *)
(* block objects.  The inductive invariant joins the types, the exact      *)
(* reference counts, the free list in terms of the counters, and the fact  *)
(* that pooled objects name no block.                                      *)
(***************************************************************************)
EXTENDS HashLessBlockAllocator, FiniteSetTheorems, TLAPS

FreeIsUncounted == freeBlockIndices = {b \in BlockIds : refCounts[b] = 0}

IInv == TypeOK /\ RefCountExact /\ FreeIsUncounted /\ PooledObjectsHoldNothing

(* The objects naming one block are finitely many, so they can be counted. *)
LEMMA HoldersFinite ==
  ASSUME NEW b
  PROVE  IsFiniteSet(Holders(b)) /\ Cardinality(Holders(b)) \in Nat
<1>1. IsFiniteSet(Holders(b))
  BY AllocatorAssumption, FS_Subset DEF Holders
<1> QED BY <1>1, FS_CardinalityType

(* A free block has no holder, and conversely: the free list is exact. *)
LEMMA FreeIffUnheld ==
  ASSUME IInv
  PROVE  FreeListExact
<1>1. \A b \in BlockIds : refCounts[b] = 0 <=> Holders(b) = {}
  BY HoldersFinite, FS_EmptySet DEF IInv, RefCountExact
<1> QED BY <1>1 DEF IInv, FreeIsUncounted, FreeListExact

(* Taking fresh ids keeps the counters, the free list and the types right, *)
(* when the objects that receive them name no block.                       *)
LEMMA TakeIds ==
  ASSUME IInv, NEW os \in SUBSET Objs, AllocateBlockIds(os),
         \A o \in os : blockId[o] = INVALID_BLOCKID
  PROVE  /\ freeBlockIndices' \subseteq BlockIds
         /\ refCounts' \in [BlockIds -> Nat]
         /\ blockId' \in [Objs -> BlockIds \cup {INVALID_BLOCKID}]
         /\ \A o \in Objs \ os : blockId'[o] = blockId[o]
         /\ RefCountExact'
         /\ FreeIsUncounted'
<1> USE DEF IInv, TypeOK
<1>1. PICK f \in [os -> freeBlockIndices] :
        /\ \A p, q \in os : f[p] = f[q] => p = q
        /\ freeBlockIndices' = freeBlockIndices \ {f[o] : o \in os}
        /\ refCounts' = [b \in BlockIds |->
                           IF \E o \in os : f[o] = b THEN refCounts[b] + 1 ELSE refCounts[b]]
        /\ blockId' = [o \in Objs |-> IF o \in os THEN f[o] ELSE blockId[o]]
  BY DEF AllocateBlockIds
<1>2. /\ freeBlockIndices' \subseteq BlockIds
      /\ refCounts' \in [BlockIds -> Nat]
      /\ blockId' \in [Objs -> BlockIds \cup {INVALID_BLOCKID}]
      /\ \A o \in Objs \ os : blockId'[o] = blockId[o]
  BY <1>1
<1>3. ASSUME NEW b \in BlockIds
      PROVE  refCounts'[b] = Cardinality(Holders(b)')
  <2>1. CASE \E o \in os : f[o] = b
    <3>1. PICK o \in os : f[o] = b
      BY <2>1
    <3>2. Holders(b) = {}
      BY <1>1, <3>1, FreeIffUnheld DEF FreeListExact
    <3>3. Holders(b)' = {o}
      BY <1>1, <3>1, <3>2, AllocatorAssumption DEF Holders
    <3>4. refCounts[b] = 0 /\ refCounts'[b] = 1
      BY <1>1, <3>1 DEF FreeIsUncounted
    <3> QED BY <3>3, <3>4, FS_Singleton
  <2>2. CASE ~ \E o \in os : f[o] = b
    <3>1. Holders(b)' = Holders(b)
      BY <1>1, <2>2, AllocatorAssumption DEF Holders
    <3> QED BY <1>1, <2>2, <3>1 DEF RefCountExact
  <2> QED BY <2>1, <2>2
<1>4. RefCountExact'
  BY <1>3 DEF RefCountExact
<1>5. FreeIsUncounted'
  BY <1>1 DEF FreeIsUncounted
<1> QED BY <1>2, <1>4, <1>5

(* Giving ids up keeps them right too. *)
LEMMA GiveUpIds ==
  ASSUME IInv, NEW os \in SUBSET Objs, FreeBlockId(os)
  PROVE  /\ freeBlockIndices' \subseteq BlockIds
         /\ refCounts' \in [BlockIds -> Nat]
         /\ blockId' \in [Objs -> BlockIds \cup {INVALID_BLOCKID}]
         /\ \A o \in Objs : blockId'[o] = IF o \in os THEN INVALID_BLOCKID ELSE blockId[o]
         /\ RefCountExact'
         /\ FreeIsUncounted'
<1> USE DEF IInv, TypeOK
<1>1. ASSUME NEW b \in BlockIds
      PROVE  /\ Cardinality(Naming(os, b)) \in Nat
             /\ Cardinality(Naming(os, b)) = 0 <=> Naming(os, b) = {}
  <2>1. IsFiniteSet(Naming(os, b))
    BY AllocatorAssumption, FS_Subset DEF Naming
  <2> QED BY <2>1, FS_CardinalityType, FS_EmptySet
<1>2. refCounts' = [b \in BlockIds |-> refCounts[b] - Cardinality(Naming(os, b))]
  BY DEF FreeBlockId
<1>3. refCounts' \in [BlockIds -> Nat]
  BY <1>1, <1>2 DEF FreeBlockId
<1>4. /\ blockId' \in [Objs -> BlockIds \cup {INVALID_BLOCKID}]
      /\ \A o \in Objs : blockId'[o] = IF o \in os THEN INVALID_BLOCKID ELSE blockId[o]
  BY DEF FreeBlockId
<1>5. ASSUME NEW b \in BlockIds
      PROVE  refCounts'[b] = Cardinality(Holders(b)')
  <2>1. Holders(b)' = Holders(b) \ Naming(os, b)
    BY <1>4, AllocatorAssumption DEF Holders, Naming
  <2>2. Holders(b) \cap Naming(os, b) = Naming(os, b)
    BY DEF Holders, Naming
  <2>3. Cardinality(Holders(b)') = Cardinality(Holders(b)) - Cardinality(Naming(os, b))
    BY <2>1, <2>2, HoldersFinite, FS_Difference
  <2> QED BY <1>2, <2>3 DEF RefCountExact
<1>6. RefCountExact'
  BY <1>5 DEF RefCountExact
<1>7. freeBlockIndices' =
        freeBlockIndices \cup {b \in BlockIds : Naming(os, b) # {} /\ refCounts'[b] = 0}
  BY DEF FreeBlockId
<1>8. ASSUME NEW b \in BlockIds
      PROVE  b \in freeBlockIndices' <=> refCounts'[b] = 0
  <2>1. CASE Naming(os, b) = {}
    <3>1. refCounts'[b] = refCounts[b]
      BY <1>1, <1>2, <2>1
    <3> QED BY <1>7, <2>1, <3>1 DEF FreeIsUncounted
  <2>2. CASE Naming(os, b) # {}
    <3>1. refCounts[b] # 0
      BY <1>1, <1>2, <1>3, <2>2
    <3>2. b \notin freeBlockIndices
      BY <3>1 DEF FreeIsUncounted
    <3> QED BY <1>7, <2>2, <3>2
  <2> QED BY <2>1, <2>2
<1>9. freeBlockIndices' \subseteq BlockIds
  BY <1>7
<1>10. FreeIsUncounted'
  BY <1>8, <1>9 DEF FreeIsUncounted
<1> QED BY <1>3, <1>4, <1>6, <1>9, <1>10

(* An append that copies: the shared block loses one holder, a free block  *)
(* gains one.                                                              *)
LEMMA CowKeepsIInv ==
  ASSUME IInv, NEW o \in Objs, NEW n \in 1..blockSize, AppendWithCow(o, n)
  PROVE  IInv'
<1> USE DEF IInv, TypeOK
<1> DEFINE src == blockId[o]
<1>1. PICK b \in freeBlockIndices :
        /\ freeBlockIndices' = freeBlockIndices \ {b}
        /\ refCounts' = [refCounts EXCEPT ![src] = @ - 1, ![b] = @ + 1]
        /\ blockId' = [blockId EXCEPT ![o] = b]
        /\ copyOnWrites' = copyOnWrites \cup {<<src, b>>}
  BY DEF AppendWithCow
<1>2. /\ o \in acquired /\ src \in BlockIds
      /\ refCounts[src] > 1
      /\ numTokens[o] + n <= blockSize
      /\ numTokens' = [numTokens EXCEPT ![o] = @ + n]
      /\ acquired' = acquired
  BY DEF AppendWithCow, IsAppendable
<1>3. b \in BlockIds /\ refCounts[b] = 0 /\ Holders(b) = {} /\ b # src
  BY <1>1, <1>2, FreeIffUnheld DEF FreeIsUncounted, FreeListExact
<1>4. TypeOK'
  <2>1. numTokens' \in [Objs -> 0..blockSize]
    BY <1>2, AllocatorAssumption
  <2>2. refCounts' \in [BlockIds -> Nat]
    BY <1>1, <1>2, <1>3
  <2> QED BY <1>1, <1>2, <1>3, <2>1, <2>2
<1>5. ASSUME NEW c \in BlockIds
      PROVE  refCounts'[c] = Cardinality(Holders(c)')
  <2>1. CASE c = b
    <3>1. Holders(c)' = {o}
      BY <1>1, <1>3, <2>1 DEF Holders
    <3>2. refCounts'[c] = 1
      BY <1>1, <1>2, <1>3, <2>1
    <3> QED BY <3>1, <3>2, FS_Singleton
  <2>2. CASE c = src
    <3>1. Holders(c)' = Holders(c) \ {o} /\ o \in Holders(c)
      BY <1>1, <1>3, <2>2 DEF Holders
    <3>2. Cardinality(Holders(c)') = Cardinality(Holders(c)) - 1
      BY <3>1, HoldersFinite, FS_RemoveElement
    <3>3. refCounts'[c] = refCounts[c] - 1
      BY <1>1, <1>3, <2>2
    <3> QED BY <3>2, <3>3 DEF RefCountExact
  <2>3. CASE c # b /\ c # src
    <3>1. Holders(c)' = Holders(c)
      BY <1>1, <2>3 DEF Holders
    <3>2. refCounts'[c] = refCounts[c]
      BY <1>1, <2>3
    <3> QED BY <3>1, <3>2 DEF RefCountExact
  <2> QED BY <2>1, <2>2, <2>3
<1>6. RefCountExact'
  BY <1>5 DEF RefCountExact
<1>7. FreeIsUncounted'
  BY <1>1, <1>2, <1>3 DEF FreeIsUncounted
<1>8. PooledObjectsHoldNothing'
  BY <1>1, <1>2 DEF PooledObjectsHoldNothing
<1> QED BY <1>4, <1>6, <1>7, <1>8

(* A fork adds as many holders to a block as twins were made of it. *)
LEMMA ForkKeepsIInv ==
  ASSUME IInv, NEW twins \in SUBSET Objs, NEW source \in [twins -> Objs],
         Fork(twins, source)
  PROVE  IInv'
<1> USE DEF IInv, TypeOK
<1> DEFINE New(b) == {t \in twins : blockId[source[t]] = b}
<1>1. ASSUME NEW b \in BlockIds
      PROVE  /\ IsFiniteSet(New(b))
             /\ Cardinality(New(b)) \in Nat
             /\ Cardinality(New(b)) = 0 <=> New(b) = {}
  <2>1. IsFiniteSet(New(b))
    BY AllocatorAssumption, FS_Subset
  <2> QED BY <2>1, FS_CardinalityType, FS_EmptySet
<1>2. refCounts' = [b \in BlockIds |-> refCounts[b] + Cardinality(New(b))]
  BY DEF Fork
<1>3. \A t \in twins : t \notin acquired /\ source[t] \in acquired
  BY DEF Fork
<1>4. blockId' = [o \in Objs |-> IF o \in twins THEN blockId[source[o]] ELSE blockId[o]]
  BY DEF Fork
<1>5. TypeOK'
  <2>1. refCounts' \in [BlockIds -> Nat]
    <3> HIDE DEF New
    <3> QED BY <1>1, <1>2
  <2>2. blockId' \in [Objs -> BlockIds \cup {INVALID_BLOCKID}]
    BY <1>4
  <2>3. numTokens' \in [Objs -> 0..blockSize]
    BY DEF Fork
  <2> QED BY <2>1, <2>2, <2>3 DEF Fork
<1>6. ASSUME NEW b \in BlockIds
      PROVE  refCounts'[b] = Cardinality(Holders(b)')
  <2>1. Holders(b)' = Holders(b) \cup New(b)
    BY <1>3, <1>4, AllocatorAssumption DEF Holders, PooledObjectsHoldNothing
  <2>2. Holders(b) \cap New(b) = {}
    BY <1>3, AllocatorAssumption DEF Holders, PooledObjectsHoldNothing
  <2>3. Cardinality(Holders(b)') = Cardinality(Holders(b)) + Cardinality(New(b))
    <3> HIDE DEF New
    <3>1. Cardinality(Holders(b) \cup New(b)) =
            Cardinality(Holders(b)) + Cardinality(New(b)) - Cardinality(Holders(b) \cap New(b))
      BY <1>1, HoldersFinite, FS_Union
    <3>2. Cardinality(Holders(b) \cap New(b)) = 0
      BY <2>2, FS_EmptySet
    <3>3. Cardinality(Holders(b)) \in Nat /\ Cardinality(New(b)) \in Nat
      BY <1>1, HoldersFinite
    <3>4. Cardinality(Holders(b) \cup New(b)) = Cardinality(Holders(b)) + Cardinality(New(b))
      BY <3>1, <3>2, <3>3
    <3> QED BY <2>1, <3>4
  <2> QED BY <1>2, <2>3 DEF RefCountExact
<1>7. RefCountExact'
  BY <1>6 DEF RefCountExact
<1>8. FreeIsUncounted'
  <2>1. ASSUME NEW b \in BlockIds
        PROVE  refCounts'[b] = 0 <=> refCounts[b] = 0
    <3>1. New(b) # {} => refCounts[b] # 0
      BY DEF Fork
    <3> HIDE DEF New
    <3> QED BY <1>1, <1>2, <3>1
  <2> QED BY <2>1 DEF FreeIsUncounted, Fork
<1>9. PooledObjectsHoldNothing'
  BY <1>4 DEF Fork, PooledObjectsHoldNothing
<1> QED BY <1>5, <1>7, <1>8, <1>9

(* Every operation of the allocator preserves the inductive invariant. *)
LEMMA NextKeepsIInv ==
  ASSUME IInv, [Next]_vars
  PROVE  IInv'
<1> USE DEF IInv
<1>1. ASSUME NEW o \in Objs, NEW n \in 0..blockSize, AllocateBlock(o, n)
      PROVE  IInv'
  <2>1. blockId[o] = INVALID_BLOCKID
    BY <1>1 DEF AllocateBlock, PooledObjectsHoldNothing
  <2>2. AllocateBlockIds({o})
    BY <1>1 DEF AllocateBlock
  <2>3. /\ freeBlockIndices' \subseteq BlockIds
        /\ refCounts' \in [BlockIds -> Nat]
        /\ blockId' \in [Objs -> BlockIds \cup {INVALID_BLOCKID}]
        /\ \A p \in Objs \ {o} : blockId'[p] = blockId[p]
        /\ RefCountExact' /\ FreeIsUncounted'
    BY <2>1, <2>2, TakeIds
  <2> QED BY <1>1, <2>3 DEF AllocateBlock, TypeOK, PooledObjectsHoldNothing
<1>2. ASSUME NEW os \in SUBSET Objs, AllocateImmutableBlocks(os)
      PROVE  IInv'
  <2>1. \A o \in os : blockId[o] = INVALID_BLOCKID
    BY <1>2 DEF AllocateImmutableBlocks, PooledObjectsHoldNothing
  <2>2. AllocateBlockIds(os)
    BY <1>2 DEF AllocateImmutableBlocks
  <2>3. /\ freeBlockIndices' \subseteq BlockIds
        /\ refCounts' \in [BlockIds -> Nat]
        /\ blockId' \in [Objs -> BlockIds \cup {INVALID_BLOCKID}]
        /\ \A p \in Objs \ os : blockId'[p] = blockId[p]
        /\ RefCountExact' /\ FreeIsUncounted'
    BY <2>1, <2>2, TakeIds
  <2>4. numTokens' \in [Objs -> 0..blockSize]
    BY <1>2, AllocatorAssumption DEF AllocateImmutableBlocks, TypeOK
  <2> QED BY <1>2, <2>3, <2>4 DEF AllocateImmutableBlocks, TypeOK, PooledObjectsHoldNothing
<1>3. ASSUME NEW os \in SUBSET Objs, SwapIn(os)
      PROVE  IInv'
  <2>1. AllocateBlockIds(os) /\ \A o \in os : blockId[o] = INVALID_BLOCKID
    BY <1>3 DEF SwapIn
  <2>2. /\ freeBlockIndices' \subseteq BlockIds
        /\ refCounts' \in [BlockIds -> Nat]
        /\ blockId' \in [Objs -> BlockIds \cup {INVALID_BLOCKID}]
        /\ \A p \in Objs \ os : blockId'[p] = blockId[p]
        /\ RefCountExact' /\ FreeIsUncounted'
    BY <2>1, TakeIds
  <2> QED BY <1>3, <2>2 DEF SwapIn, TypeOK, PooledObjectsHoldNothing
<1>4. ASSUME NEW os \in SUBSET Objs, SwapOut(os)
      PROVE  IInv'
  <2>1. FreeBlockId(os)
    BY <1>4 DEF SwapOut
  <2>2. /\ freeBlockIndices' \subseteq BlockIds
        /\ refCounts' \in [BlockIds -> Nat]
        /\ blockId' \in [Objs -> BlockIds \cup {INVALID_BLOCKID}]
        /\ \A p \in Objs : blockId'[p] = IF p \in os THEN INVALID_BLOCKID ELSE blockId[p]
        /\ RefCountExact' /\ FreeIsUncounted'
    BY <2>1, GiveUpIds
  <2> QED BY <1>4, <2>2 DEF SwapOut, TypeOK, PooledObjectsHoldNothing
<1>5. ASSUME NEW o \in Objs, Free(o)
      PROVE  IInv'
  <2>1. FreeBlockId({o})
    BY <1>5 DEF Free
  <2>2. /\ freeBlockIndices' \subseteq BlockIds
        /\ refCounts' \in [BlockIds -> Nat]
        /\ blockId' \in [Objs -> BlockIds \cup {INVALID_BLOCKID}]
        /\ \A p \in Objs : blockId'[p] = IF p \in {o} THEN INVALID_BLOCKID ELSE blockId[p]
        /\ RefCountExact' /\ FreeIsUncounted'
    BY <2>1, GiveUpIds
  <2>3. numTokens' \in [Objs -> 0..blockSize]
    BY <1>5, AllocatorAssumption DEF Free, TypeOK
  <2> QED BY <1>5, <2>2, <2>3 DEF Free, TypeOK, PooledObjectsHoldNothing
<1>6. ASSUME NEW o \in Objs, NEW n \in 1..blockSize, AppendInPlace(o, n)
      PROVE  IInv'
  <2>1. TypeOK'
    BY <1>6, AllocatorAssumption DEF AppendInPlace, TypeOK
  <2> QED BY <1>6, <2>1 DEF AppendInPlace, RefCountExact, Holders, FreeIsUncounted,
                            PooledObjectsHoldNothing
<1>7. ASSUME NEW o \in Objs, NEW n \in 1..blockSize, AppendOutOfBlocks(o, n)
      PROVE  IInv'
  <2>1. FreeBlockId({o})
    BY <1>7 DEF AppendOutOfBlocks
  <2>2. /\ freeBlockIndices' \subseteq BlockIds
        /\ refCounts' \in [BlockIds -> Nat]
        /\ blockId' \in [Objs -> BlockIds \cup {INVALID_BLOCKID}]
        /\ \A p \in Objs : blockId'[p] = IF p \in {o} THEN INVALID_BLOCKID ELSE blockId[p]
        /\ RefCountExact' /\ FreeIsUncounted'
    BY <2>1, GiveUpIds
  <2>3. numTokens' \in [Objs -> 0..blockSize]
    BY <1>7, AllocatorAssumption DEF AppendOutOfBlocks, TypeOK
  <2> QED BY <1>7, <2>2, <2>3 DEF AppendOutOfBlocks, TypeOK, PooledObjectsHoldNothing
<1>8. CASE ClearCopyOnWrites
  BY <1>8 DEF ClearCopyOnWrites, TypeOK, RefCountExact, Holders, FreeIsUncounted,
              PooledObjectsHoldNothing
<1>9. CASE UNCHANGED vars
  BY <1>9 DEF vars, TypeOK, RefCountExact, Holders, FreeIsUncounted,
              PooledObjectsHoldNothing
<1> QED
  BY <1>1, <1>2, <1>3, <1>4, <1>5, <1>6, <1>7, <1>8, <1>9, CowKeepsIInv, ForkKeepsIInv
  DEF Next

(* The allocator starts in the inductive invariant. *)
LEMMA InitIInv == Init => IInv
<1> SUFFICES ASSUME Init PROVE IInv
  OBVIOUS
<1>1. TypeOK
  BY AllocatorAssumption DEF Init, TypeOK
<1>2. RefCountExact
  BY AllocatorAssumption, FS_EmptySet DEF Init, RefCountExact, Holders
<1> QED BY <1>1, <1>2 DEF Init, IInv, FreeIsUncounted, PooledObjectsHoldNothing

(* The inductive invariant holds in every reachable state. *)
THEOREM AllocatorInvariant == Spec => []IInv
<1>1. IInv /\ [Next]_vars => IInv'
  BY NextKeepsIInv
<1> QED BY <1>1, InitIInv, PTL DEF Spec

(* The allocator's state stays well formed: ids, counters and tokens are   *)
(* in range for any number of blocks, a failed append included.            *)
THEOREM TypeCorrect == Spec => []TypeOK
<1>1. IInv => TypeOK
  BY DEF IInv
<1> QED BY <1>1, AllocatorInvariant, PTL

(* RefCounter and the block objects agree after any sequence of            *)
(* AllocateMutableBlock, Free, Fork, copy-on-write, SwapOut and SwapIn.    *)
THEOREM CountsAreExact == Spec => []RefCountExact
<1>1. IInv => RefCountExact
  BY DEF IInv
<1> QED BY <1>1, AllocatorInvariant, PTL

(* AllocateBlockId never hands out a block that an object still names, and *)
(* FreeBlockId never loses one.                                            *)
THEOREM FreeListIsExact == Spec => []FreeListExact
<1>1. IInv => FreeListExact
  BY FreeIffUnheld
<1> QED BY <1>1, AllocatorInvariant, PTL

(* An append never writes into a block that another object reads: when     *)
(* AppendTokenIds changes an object's tokens, the block it then names is   *)
(* named by nobody else.                                                   *)
THEOREM AppendsAreExclusive == Spec => AppendIsExclusive
<1> DEFINE Exclusive ==
      \A o \in acquired \cap acquired' :
        numTokens'[o] # numTokens[o] =>
          \A p \in Objs \ {o} : blockId'[o] = blockId'[p] => blockId'[o] = INVALID_BLOCKID
<1>1. ASSUME IInv, [Next]_vars
      PROVE  [Exclusive]_vars
  <2> USE DEF IInv, TypeOK
  <2>1. ASSUME NEW o \in Objs, NEW n \in 1..blockSize, AppendInPlace(o, n)
        PROVE  Exclusive
    <3>1. /\ blockId' = blockId /\ blockId[o] \in BlockIds /\ refCounts[blockId[o]] <= 1
          /\ numTokens' = [numTokens EXCEPT ![o] = @ + n]
      BY <1>1, <2>1 DEF AppendInPlace, IsAppendable
    <3>2. o \in Holders(blockId[o])
      BY DEF Holders
    <3>3. Cardinality(Holders(blockId[o])) = 1
      <4>1. refCounts[blockId[o]] = Cardinality(Holders(blockId[o]))
        BY <1>1, <3>1 DEF RefCountExact
      <4>2. Cardinality(Holders(blockId[o])) # 0
        BY <3>2, HoldersFinite, FS_EmptySet
      <4> QED BY <3>1, <4>1, <4>2, HoldersFinite
    <3>4. Holders(blockId[o]) = {o}
      BY <3>2, <3>3, HoldersFinite, FS_Singleton
    <3>5. \A p \in Objs \ {o} : blockId[p] # blockId[o]
      BY <3>4 DEF Holders
    <3> QED BY <3>1, <3>5
  <2>2. ASSUME NEW o \in Objs, NEW n \in 1..blockSize, AppendWithCow(o, n)
        PROVE  Exclusive
    <3>1. PICK b \in freeBlockIndices : blockId' = [blockId EXCEPT ![o] = b]
      BY <2>2 DEF AppendWithCow
    <3>2. \A p \in Objs : blockId[p] # b
      BY <1>1, <3>1, FreeIffUnheld DEF FreeListExact, Holders
    <3> QED BY <1>1, <2>2, <3>1, <3>2 DEF AppendWithCow
  <2>3. ASSUME NEW o \in Objs, NEW n \in 1..blockSize, AppendOutOfBlocks(o, n)
        PROVE  Exclusive
    BY <1>1, <2>3 DEF AppendOutOfBlocks, FreeBlockId
  <2>4. ASSUME NEW o \in Objs, NEW n \in 0..blockSize, AllocateBlock(o, n)
        PROVE  Exclusive
    BY <1>1, <2>4 DEF AllocateBlock
  <2>5. ASSUME NEW o \in Objs, Free(o)
        PROVE  Exclusive
    BY <1>1, <2>5 DEF Free
  <2>6. ASSUME NEW os \in SUBSET Objs, AllocateImmutableBlocks(os)
        PROVE  Exclusive
    BY <1>1, <2>6 DEF AllocateImmutableBlocks
  <2>7. ASSUME NEW os \in SUBSET Objs, NEW source \in [os -> Objs], Fork(os, source)
        PROVE  Exclusive
    BY <1>1, <2>7 DEF Fork
  <2>8. ASSUME NEW os \in SUBSET Objs, SwapOut(os) \/ SwapIn(os)
        PROVE  Exclusive
    BY <2>8 DEF SwapOut, SwapIn
  <2>9. CASE ClearCopyOnWrites
    BY <2>9 DEF ClearCopyOnWrites
  <2> HIDE DEF Exclusive
  <2> QED
    BY <1>1, <2>1, <2>2, <2>3, <2>4, <2>5, <2>6, <2>7, <2>8, <2>9 DEF Next
<1> QED BY <1>1, AllocatorInvariant, PTL DEF Spec, AppendIsExclusive
=============================================================================
