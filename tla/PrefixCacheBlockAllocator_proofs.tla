------------------ MODULE PrefixCacheBlockAllocator_proofs ------------------
(***************************************************************************)
(* Proofs about the prefix-caching allocator for any finite set of blocks  *)
(* and block objects and any set of hashes.  What the runs check about     *)
(* holders is stated here about counters (Places), which the actions       *)
(* maintain; RefCountExact connects the two.                               *)
(***************************************************************************)
EXTENDS PrefixCacheBlockAllocator, FiniteSetTheorems, TLAPS

Places ==
  \A b \in BlockIds :
    /\ b \in freeBlockIndices <=> refCounts[b] = 0 /\ candidates[b] = INVALID_HASH_VALUE
    /\ candidates[b] # INVALID_HASH_VALUE => refCounts[b] = 0
    /\ b \in active <=> refCounts[b] # 0

PooledObjectsHoldNothing ==
  \A o \in Objs \ acquired : blockId[o] = INVALID_BLOCKID /\ prefixHash[o] = INVALID_HASH_VALUE

HoldersAgree ==
  \A o, p \in Objs : blockId[o] = blockId[p] /\ blockId[o] # INVALID_BLOCKID
                       => prefixHash[o] = prefixHash[p]

IInv ==
  /\ TypeOK
  /\ RefCountExact
  /\ Places
  /\ CacheConsistent
  /\ PrivateUntilHashed
  /\ HoldersAgree
  /\ PooledObjectsHoldNothing

(* The objects naming one block are finitely many; there are none exactly  *)
(* when the counter is zero, and one when it is one.                       *)
LEMMA HoldersFinite ==
  ASSUME NEW b
  PROVE  /\ IsFiniteSet(Holders(b))
         /\ Cardinality(Holders(b)) \in Nat
         /\ Cardinality(Holders(b)) = 0 <=> Holders(b) = {}
         /\ Cardinality(Holders(b)) = 1 <=> \E o : Holders(b) = {o}
<1>1. IsFiniteSet(Holders(b))
  BY PrefixCacheAssumption, FS_Subset DEF Holders
<1> QED BY <1>1, FS_CardinalityType, FS_EmptySet, FS_Singleton

(* What the code reads off a reference counter: 0 means that no object     *)
(* names the block, 1 that the object at hand is the only one.             *)
LEMMA CountsTell ==
  ASSUME RefCountExact, TypeOK
  PROVE  /\ \A b \in BlockIds : refCounts[b] = 0 <=> \A o \in Objs : blockId[o] # b
         /\ \A o \in Objs : blockId[o] \in BlockIds =>
              (refCounts[blockId[o]] = 1 <=> \A p \in Objs \ {o} : blockId[p] # blockId[o])
<1>1. ASSUME NEW b \in BlockIds
      PROVE  refCounts[b] = 0 <=> \A o \in Objs : blockId[o] # b
  <2>1. refCounts[b] = 0 <=> Holders(b) = {}
    BY HoldersFinite DEF RefCountExact
  <2> QED BY <2>1 DEF Holders
<1>2. ASSUME NEW o \in Objs, blockId[o] \in BlockIds
      PROVE  refCounts[blockId[o]] = 1 <=> \A p \in Objs \ {o} : blockId[p] # blockId[o]
  <2>1. refCounts[blockId[o]] = 1 <=> \E p : Holders(blockId[o]) = {p}
    BY <1>2, HoldersFinite DEF RefCountExact
  <2>2. o \in Holders(blockId[o])
    BY DEF Holders
  <2>3. refCounts[blockId[o]] = 1 <=> Holders(blockId[o]) = {o}
    BY <2>1, <2>2
  <2> QED BY <2>3 DEF Holders
<1> QED BY <1>1, <1>2

(* An object that named no block takes up block b. *)
LEMMA CountOnTake ==
  ASSUME TypeOK, RefCountExact, NEW o \in Objs, NEW b \in BlockIds,
         blockId[o] = INVALID_BLOCKID,
         blockId' = [blockId EXCEPT ![o] = b],
         refCounts' = [refCounts EXCEPT ![b] = @ + 1]
  PROVE  /\ RefCountExact'
         /\ refCounts' \in [BlockIds -> Nat]
         /\ blockId' \in [Objs -> BlockIds \cup {INVALID_BLOCKID}]
<1> USE DEF TypeOK
<1>1. ASSUME NEW c \in BlockIds
      PROVE  refCounts'[c] = Cardinality(Holders(c)')
  <2>1. CASE c = b
    <3>1. Holders(c)' = Holders(c) \cup {o} /\ o \notin Holders(c)
      BY <2>1, PrefixCacheAssumption DEF Holders
    <3>2. Cardinality(Holders(c)') = Cardinality(Holders(c)) + 1
      BY <3>1, HoldersFinite, FS_AddElement
    <3> QED BY <2>1, <3>2 DEF RefCountExact
  <2>2. CASE c # b
    <3>1. Holders(c)' = Holders(c)
      BY <2>2, PrefixCacheAssumption DEF Holders
    <3> QED BY <2>2, <3>1 DEF RefCountExact
  <2> QED BY <2>1, <2>2
<1> QED BY <1>1 DEF RefCountExact

(* An object gives up the block b it named. *)
LEMMA CountOnDrop ==
  ASSUME TypeOK, RefCountExact, NEW o \in Objs, NEW b \in BlockIds,
         blockId[o] = b,
         blockId' = [blockId EXCEPT ![o] = INVALID_BLOCKID],
         refCounts' = [refCounts EXCEPT ![b] = @ - 1]
  PROVE  /\ RefCountExact'
         /\ refCounts' \in [BlockIds -> Nat]
         /\ blockId' \in [Objs -> BlockIds \cup {INVALID_BLOCKID}]
<1> USE DEF TypeOK
<1>1. refCounts[b] # 0
  BY CountsTell
<1>2. ASSUME NEW c \in BlockIds
      PROVE  refCounts'[c] = Cardinality(Holders(c)')
  <2>1. CASE c = b
    <3>1. Holders(c)' = Holders(c) \ {o} /\ o \in Holders(c)
      BY <2>1, PrefixCacheAssumption DEF Holders
    <3>2. Cardinality(Holders(c)') = Cardinality(Holders(c)) - 1
      BY <3>1, HoldersFinite, FS_RemoveElement
    <3> QED BY <2>1, <3>2 DEF RefCountExact
  <2>2. CASE c # b
    <3>1. Holders(c)' = Holders(c)
      BY <2>2, PrefixCacheAssumption DEF Holders
    <3> QED BY <2>2, <3>1 DEF RefCountExact
  <2> QED BY <2>1, <2>2
<1> QED BY <1>1, <1>2 DEF RefCountExact

(* An object moves from block b to block c. *)
LEMMA CountOnMove ==
  ASSUME TypeOK, RefCountExact, NEW o \in Objs, NEW b \in BlockIds, NEW c \in BlockIds,
         b # c, blockId[o] = b,
         blockId' = [blockId EXCEPT ![o] = c],
         refCounts' = [refCounts EXCEPT ![b] = @ - 1, ![c] = @ + 1]
  PROVE  /\ RefCountExact'
         /\ refCounts' \in [BlockIds -> Nat]
         /\ blockId' \in [Objs -> BlockIds \cup {INVALID_BLOCKID}]
<1> USE DEF TypeOK
<1>1. refCounts[b] # 0
  BY CountsTell
<1>2. ASSUME NEW d \in BlockIds
      PROVE  refCounts'[d] = Cardinality(Holders(d)')
  <2>1. CASE d = b
    <3>1. Holders(d)' = Holders(d) \ {o} /\ o \in Holders(d)
      BY <2>1 DEF Holders
    <3>2. Cardinality(Holders(d)') = Cardinality(Holders(d)) - 1
      BY <3>1, HoldersFinite, FS_RemoveElement
    <3> QED BY <2>1, <3>2 DEF RefCountExact
  <2>2. CASE d = c
    <3>1. Holders(d)' = Holders(d) \cup {o} /\ o \notin Holders(d)
      BY <2>2 DEF Holders
    <3>2. Cardinality(Holders(d)') = Cardinality(Holders(d)) + 1
      BY <3>1, HoldersFinite, FS_AddElement
    <3> QED BY <2>2, <3>2 DEF RefCountExact
  <2>3. CASE d # b /\ d # c
    <3>1. Holders(d)' = Holders(d)
      BY <2>3 DEF Holders
    <3> QED BY <2>3, <3>1 DEF RefCountExact
  <2> QED BY <2>1, <2>2, <2>3
<1> QED BY <1>1, <1>2 DEF RefCountExact

(* A block that AllocateBlockId may return is held by nobody, and its      *)
(* cache entry, if it has one, is the one the evictor recorded.            *)
LEMMA AvailableIsUnheld ==
  ASSUME IInv, NEW b \in BlockIds, Available(b)
  PROVE  /\ refCounts[b] = 0
         /\ \A o \in Objs : blockId[o] # b
         /\ \A h \in Hashes : cachedBlocks[h] = b => candidates[b] = h
<1> USE DEF IInv
<1>1. refCounts[b] = 0
  BY DEF Available, Places
<1>2. \A o \in Objs : blockId[o] # b
  BY <1>1, CountsTell
<1>3. \A h \in Hashes : cachedBlocks[h] = b => candidates[b] = h
  BY <1>2, PrefixCacheAssumption DEF CacheConsistent, Holders
<1> QED BY <1>1, <1>2, <1>3

(* A cached block is not free, its holders carry its hash, and it is       *)
(* cached under no other one.                                              *)
LEMMA CachedIsHashed ==
  ASSUME IInv, NEW h \in Hashes, cachedBlocks[h] \in BlockIds
  PROVE  /\ cachedBlocks[h] \notin freeBlockIndices
         /\ \A p \in Objs : blockId[p] = cachedBlocks[h] => prefixHash[p] = h
         /\ \A g \in Hashes : cachedBlocks[g] = cachedBlocks[h] => g = h
<1> USE DEF IInv, TypeOK
<1> DEFINE c == cachedBlocks[h]
<1>1. CASE candidates[c] = h
  <2>1. refCounts[c] = 0 /\ c \notin freeBlockIndices
    BY <1>1, PrefixCacheAssumption DEF Places
  <2>2. \A p \in Objs : blockId[p] # c
    BY <2>1, CountsTell
  <2> QED BY <1>1, <2>1, <2>2, PrefixCacheAssumption DEF CacheConsistent, Holders
<1>2. CASE \E p \in Objs : blockId[p] = c /\ prefixHash[p] = h
  <2>1. refCounts[c] # 0
    BY <1>2, CountsTell
  <2>2. c \notin freeBlockIndices /\ candidates[c] = INVALID_HASH_VALUE
    BY <2>1 DEF Places
  <2>3. \A p \in Objs : blockId[p] = c => prefixHash[p] = h
    BY <1>2, PrefixCacheAssumption DEF HoldersAgree
  <2> QED BY <2>2, <2>3, PrefixCacheAssumption DEF CacheConsistent, Holders
<1> QED BY <1>1, <1>2, PrefixCacheAssumption DEF CacheConsistent, Holders

(* Taking up a block, by whichever way, preserves the invariant. *)
LEMMA ObtainKeepsIInv ==
  ASSUME IInv, NEW o \in Objs, NEW h \in Hashes \cup {INVALID_HASH_VALUE},
         blockId[o] = INVALID_BLOCKID, Obtain(o, h),
         prefixHash' = [prefixHash EXCEPT ![o] = h],
         acquired' = acquired \cup {o}
  PROVE  IInv'
<1> USE DEF IInv
<1>0. PooledObjectsHoldNothing' /\ acquired' \subseteq Objs
      /\ prefixHash' \in [Objs -> Hashes \cup {INVALID_HASH_VALUE}]
  BY DEF Obtain, ObtainMutable, ObtainCached, ObtainNew, AllocateBlockId, TypeOK,
         PooledObjectsHoldNothing
<1>1. CASE h \in Hashes /\ ObtainCached(o, h)
  <2> DEFINE hit == cachedBlocks[h]
  <2>1. /\ hit \in BlockIds
        /\ refCounts' = [refCounts EXCEPT ![hit] = @ + 1]
        /\ candidates' = [candidates EXCEPT ![hit] = INVALID_HASH_VALUE]
        /\ active' = active \cup {hit}
        /\ computed' \subseteq BlockIds
        /\ blockId' = [blockId EXCEPT ![o] = hit]
        /\ UNCHANGED <<freeBlockIndices, cachedBlocks, touchedBlocks>>
    BY <1>1 DEF ObtainCached, IncrRefCountCacheBlock, TypeOK
  <2>h. /\ hit \notin freeBlockIndices
        /\ \A p \in Objs : blockId[p] = hit => prefixHash[p] = h
        /\ \A g \in Hashes : cachedBlocks[g] = hit => g = h
    BY <1>1, <2>1, CachedIsHashed
  <2> HIDE DEF hit
  <2>2. /\ RefCountExact'
        /\ refCounts' \in [BlockIds -> Nat]
        /\ blockId' \in [Objs -> BlockIds \cup {INVALID_BLOCKID}]
    BY <2>1, CountOnTake
  <2>3. TypeOK'
    BY <1>0, <2>1, <2>2 DEF TypeOK
  <2>4. Places'
    BY <2>1, <2>h DEF Places, TypeOK
  <2>5. CacheConsistent'
    <3>1. \A p \in Objs : blockId'[p] # INVALID_BLOCKID /\ prefixHash'[p] # INVALID_HASH_VALUE
                            => cachedBlocks'[prefixHash'[p]] = blockId'[p]
      BY <1>1, <2>1 DEF hit, CacheConsistent, TypeOK
    <3>2. \A b \in BlockIds : candidates'[b] # INVALID_HASH_VALUE
                                => cachedBlocks'[candidates'[b]] = b
      BY <2>1 DEF CacheConsistent, TypeOK
    <3>3. ASSUME NEW g \in Hashes, cachedBlocks'[g] # INVALID_BLOCKID
          PROVE  \/ candidates'[cachedBlocks'[g]] = g
                 \/ \E p \in Objs : blockId'[p] = cachedBlocks'[g] /\ prefixHash'[p] = g
      <4>1. CASE g = h
        BY <1>1, <2>1, <4>1 DEF hit, TypeOK
      <4>2. CASE g # h
        <5>1. CASE candidates[cachedBlocks[g]] = g
          <6>1. cachedBlocks[g] # hit
            BY <2>h, <4>2
          <6> QED BY <2>1, <3>3, <5>1, <6>1 DEF TypeOK
        <5>2. CASE \E p \in Objs : blockId[p] = cachedBlocks[g] /\ prefixHash[p] = g
          BY <2>1, <3>3, <5>2 DEF TypeOK
        <5> QED BY <2>1, <3>3, <5>1, <5>2 DEF CacheConsistent, Holders
      <4> QED BY <4>1, <4>2
    <3> QED BY <3>1, <3>2, <3>3 DEF CacheConsistent, Holders
  <2>6. PrivateUntilHashed'
    BY <1>1, <2>1, <2>h, PrefixCacheAssumption DEF PrivateUntilHashed, TypeOK
  <2>7. HoldersAgree'
    BY <2>1, <2>h DEF HoldersAgree, TypeOK
  <2> QED BY <1>0, <2>2, <2>3, <2>4, <2>5, <2>6, <2>7
<1>2. CASE ~ (h \in Hashes /\ ObtainCached(o, h))
  <2>1. PICK b \in BlockIds :
          /\ AllocateBlockId(o, b)
          /\ \A g \in Hashes : cachedBlocks'[g] =
               IF g = h THEN b ELSE IF candidates[b] = g THEN INVALID_BLOCKID ELSE cachedBlocks[g]
          /\ cachedBlocks' \in [Hashes -> BlockIds \cup {INVALID_BLOCKID}]
          /\ touchedBlocks' \subseteq BlockIds
          /\ h \in Hashes => cachedBlocks[h] = INVALID_BLOCKID
    <3>1. CASE h = INVALID_HASH_VALUE /\ ObtainMutable(o)
      <4>1. PICK b \in BlockIds : AllocateBlockId(o, b) /\ cachedBlocks' = CacheAfterEviction(b)
        BY <3>1 DEF ObtainMutable
      <4> QED BY <3>1, <4>1, PrefixCacheAssumption DEF ObtainMutable, CacheAfterEviction, TypeOK
    <3>2. CASE h \in Hashes /\ ObtainNew(o, h)
      <4>1. PICK b \in BlockIds :
              /\ AllocateBlockId(o, b)
              /\ cachedBlocks' = [CacheAfterEviction(b) EXCEPT ![h] = b]
              /\ touchedBlocks' = touchedBlocks \cup {b}
        BY <3>2 DEF ObtainNew
      <4> QED BY <3>2, <4>1 DEF ObtainNew, CacheAfterEviction, TypeOK
    <3> QED BY <1>2, <3>1, <3>2 DEF Obtain
  <2>2. /\ Available(b)
        /\ freeBlockIndices' = freeBlockIndices \ {b}
        /\ candidates' = [candidates EXCEPT ![b] = INVALID_HASH_VALUE]
        /\ refCounts' = [refCounts EXCEPT ![b] = @ + 1]
        /\ active' = active \cup {b}
        /\ computed' = computed \ {b}
        /\ blockId' = [blockId EXCEPT ![o] = b]
    BY <2>1 DEF AllocateBlockId
  <2>3. /\ refCounts[b] = 0
        /\ \A p \in Objs : blockId[p] # b
        /\ \A g \in Hashes : cachedBlocks[g] = b => candidates[b] = g
    BY <2>2, AvailableIsUnheld
  <2>4. /\ RefCountExact'
        /\ refCounts' \in [BlockIds -> Nat]
        /\ blockId' \in [Objs -> BlockIds \cup {INVALID_BLOCKID}]
    BY <2>2, CountOnTake
  <2>5. TypeOK'
    BY <1>0, <2>1, <2>2, <2>4 DEF TypeOK
  <2>6. Places'
    BY <2>2, <2>3 DEF Places, TypeOK
  <2>7. CacheConsistent'
    <3>1. \A p \in Objs : blockId'[p] # INVALID_BLOCKID /\ prefixHash'[p] # INVALID_HASH_VALUE
                            => cachedBlocks'[prefixHash'[p]] = blockId'[p]
      BY <2>1, <2>2, <2>3 DEF CacheConsistent, TypeOK
    <3>2. \A c \in BlockIds : candidates'[c] # INVALID_HASH_VALUE
                                => cachedBlocks'[candidates'[c]] = c
      BY <2>1, <2>2, <2>3, PrefixCacheAssumption DEF CacheConsistent, TypeOK
    <3>3. ASSUME NEW g \in Hashes, cachedBlocks'[g] # INVALID_BLOCKID
          PROVE  \/ candidates'[cachedBlocks'[g]] = g
                 \/ \E p \in Objs : blockId'[p] = cachedBlocks'[g] /\ prefixHash'[p] = g
      BY <2>1, <2>2, <2>3, <3>3 DEF CacheConsistent, TypeOK, Holders
    <3> QED BY <3>1, <3>2, <3>3 DEF CacheConsistent, Holders
  <2>8. PrivateUntilHashed'
    BY <2>2, <2>3 DEF PrivateUntilHashed, TypeOK
  <2>9. HoldersAgree'
    BY <2>2, <2>3 DEF HoldersAgree, TypeOK
  <2> QED BY <1>0, <2>4, <2>5, <2>6, <2>7, <2>8, <2>9
<1> QED BY <1>1, <1>2

(* Giving up a block preserves it, whether the object keeps its hash       *)
(* (SwapOut) or loses it (Free).                                           *)
LEMMA FreeKeepsIInv ==
  ASSUME IInv, NEW o \in acquired, FreeBlockId(o),
         \/ UNCHANGED <<acquired, prefixHash>>
         \/ /\ acquired' = acquired \ {o}
            /\ prefixHash' = [prefixHash EXCEPT ![o] = INVALID_HASH_VALUE]
  PROVE  IInv'
<1> USE DEF IInv
<1> DEFINE b == blockId[o]
           h == prefixHash[o]
<1>1. /\ o \in Objs /\ b \in BlockIds
      /\ refCounts' = [refCounts EXCEPT ![b] = @ - 1]
      /\ blockId' = [blockId EXCEPT ![o] = INVALID_BLOCKID]
      /\ UNCHANGED <<cachedBlocks, touchedBlocks>>
      /\ active' = active \ (IF refCounts[b] = 1 THEN {b} ELSE {})
      /\ computed' \subseteq computed
      /\ Release(o)
  BY DEF FreeBlockId, TypeOK
<1>2. /\ \A p \in Objs \ {o} : prefixHash'[p] = prefixHash[p]
      /\ prefixHash' \in [Objs -> Hashes \cup {INVALID_HASH_VALUE}]
      /\ acquired' \subseteq Objs
  BY <1>1 DEF TypeOK
<1>3. /\ RefCountExact'
      /\ refCounts' \in [BlockIds -> Nat]
      /\ blockId' \in [Objs -> BlockIds \cup {INVALID_BLOCKID}]
  BY <1>1, CountOnDrop
<1>4. /\ refCounts[b] # 0
      /\ refCounts[b] = 1 <=> \A p \in Objs \ {o} : blockId[p] # b
  BY <1>1, CountsTell
<1>5. PooledObjectsHoldNothing'
  BY <1>1 DEF PooledObjectsHoldNothing, TypeOK
<1>6. PrivateUntilHashed' /\ HoldersAgree'
  BY <1>1, <1>2, PrefixCacheAssumption DEF PrivateUntilHashed, HoldersAgree, TypeOK
<1>7. CASE refCounts[b] > 1 /\ UNCHANGED <<freeBlockIndices, candidates>>
  <2>1. TypeOK'
    BY <1>1, <1>2, <1>3, <1>7 DEF TypeOK
  <2>2. Places'
    BY <1>1, <1>7 DEF Places, TypeOK
  <2>3. CacheConsistent'
    <3>1. PICK p \in Objs \ {o} : blockId[p] = b
      BY <1>4, <1>7
    <3>2. prefixHash[p] = h /\ prefixHash'[p] = h /\ blockId'[p] = b
      BY <1>1, <1>2, <3>1, PrefixCacheAssumption DEF HoldersAgree, TypeOK
    <3>3. ASSUME NEW g \in Hashes, cachedBlocks'[g] # INVALID_BLOCKID
          PROVE  \/ candidates'[cachedBlocks'[g]] = g
                 \/ \E q \in Objs : blockId'[q] = cachedBlocks'[g] /\ prefixHash'[q] = g
      <4>1. CASE \E q \in Objs : blockId[q] = cachedBlocks[g] /\ prefixHash[q] = g
        <5>1. PICK q \in Objs : blockId[q] = cachedBlocks[g] /\ prefixHash[q] = g
          BY <4>1
        <5>2. CASE q = o
          BY <1>1, <3>2, <5>1, <5>2
        <5>3. CASE q # o
          BY <1>1, <1>2, <5>1, <5>3 DEF TypeOK
        <5> QED BY <5>2, <5>3
      <4> QED BY <1>1, <1>7, <3>3, <4>1 DEF CacheConsistent, Holders
    <3>4. \A q \in Objs : blockId'[q] # INVALID_BLOCKID /\ prefixHash'[q] # INVALID_HASH_VALUE
                            => cachedBlocks'[prefixHash'[q]] = blockId'[q]
      BY <1>1, <1>2 DEF CacheConsistent, TypeOK
    <3> QED BY <1>1, <1>7, <3>3, <3>4 DEF CacheConsistent, Holders
  <2> QED BY <1>3, <1>5, <1>6, <2>1, <2>2, <2>3
<1>8. CASE /\ refCounts[b] = 1 /\ h = INVALID_HASH_VALUE
           /\ freeBlockIndices' = freeBlockIndices \cup {b}
           /\ UNCHANGED candidates
  <2>1. TypeOK'
    BY <1>1, <1>2, <1>3, <1>8 DEF TypeOK
  <2>2. Places'
    BY <1>1, <1>8 DEF Places, TypeOK
  <2>3. CacheConsistent'
    <3>1. ASSUME NEW g \in Hashes, cachedBlocks'[g] # INVALID_BLOCKID
          PROVE  \/ candidates'[cachedBlocks'[g]] = g
                 \/ \E q \in Objs : blockId'[q] = cachedBlocks'[g] /\ prefixHash'[q] = g
      <4>1. CASE \E q \in Objs : blockId[q] = cachedBlocks[g] /\ prefixHash[q] = g
        <5>1. PICK q \in Objs : blockId[q] = cachedBlocks[g] /\ prefixHash[q] = g
          BY <4>1
        <5>2. q # o
          BY <1>8, <5>1, PrefixCacheAssumption
        <5> QED BY <1>1, <1>2, <5>1, <5>2 DEF TypeOK
      <4> QED BY <1>1, <1>8, <3>1, <4>1 DEF CacheConsistent, Holders
    <3>2. \A q \in Objs : blockId'[q] # INVALID_BLOCKID /\ prefixHash'[q] # INVALID_HASH_VALUE
                            => cachedBlocks'[prefixHash'[q]] = blockId'[q]
      BY <1>1, <1>2 DEF CacheConsistent, TypeOK
    <3> QED BY <1>1, <1>8, <3>1, <3>2 DEF CacheConsistent, Holders
  <2> QED BY <1>3, <1>5, <1>6, <2>1, <2>2, <2>3
<1>9. CASE /\ refCounts[b] = 1 /\ h # INVALID_HASH_VALUE
           /\ cachedBlocks[h] = b
           /\ candidates' = [candidates EXCEPT ![b] = h]
           /\ UNCHANGED freeBlockIndices
  <2>0. h \in Hashes
    BY <1>1, <1>9 DEF TypeOK
  <2>1. TypeOK'
    BY <1>1, <1>2, <1>3, <1>9, <2>0 DEF TypeOK
  <2>2. Places'
    BY <1>1, <1>9 DEF Places, TypeOK
  <2>3. CacheConsistent'
    <3>1. ASSUME NEW g \in Hashes, cachedBlocks'[g] # INVALID_BLOCKID
          PROVE  \/ candidates'[cachedBlocks'[g]] = g
                 \/ \E q \in Objs : blockId'[q] = cachedBlocks'[g] /\ prefixHash'[q] = g
      <4>0. cachedBlocks[g] \in BlockIds
        BY <1>1, <3>1 DEF TypeOK
      <4>1. CASE cachedBlocks[g] = b
        <5>1. g = h
          BY <1>1, <1>9, <2>0, <4>1, CachedIsHashed
        <5> QED BY <1>1, <1>9, <4>1, <5>1 DEF TypeOK
      <4>2. CASE cachedBlocks[g] # b
        <5>1. CASE candidates[cachedBlocks[g]] = g
          BY <1>1, <1>9, <4>0, <4>2, <5>1 DEF TypeOK
        <5>2. CASE \E q \in Objs : blockId[q] = cachedBlocks[g] /\ prefixHash[q] = g
          <6>1. PICK q \in Objs : blockId[q] = cachedBlocks[g] /\ prefixHash[q] = g
            BY <5>2
          <6>2. q # o
            BY <4>2, <6>1
          <6> QED BY <1>1, <1>2, <6>1, <6>2 DEF TypeOK
        <5> QED BY <1>1, <3>1, <5>1, <5>2 DEF CacheConsistent, Holders
      <4> QED BY <4>1, <4>2
    <3>2. \A q \in Objs : blockId'[q] # INVALID_BLOCKID /\ prefixHash'[q] # INVALID_HASH_VALUE
                            => cachedBlocks'[prefixHash'[q]] = blockId'[q]
      BY <1>1, <1>2 DEF CacheConsistent, TypeOK
    <3>3. \A c \in BlockIds : candidates'[c] # INVALID_HASH_VALUE
                                => cachedBlocks'[candidates'[c]] = c
      BY <1>1, <1>9 DEF CacheConsistent, TypeOK
    <3> QED BY <3>1, <3>2, <3>3 DEF CacheConsistent, Holders
  <2> QED BY <1>3, <1>5, <1>6, <2>1, <2>2, <2>3
<1> QED BY <1>1, <1>7, <1>8, <1>9 DEF Release

(* So does the promotion of a block that enters the cache ... *)
LEMMA PromoteNewKeepsIInv ==
  ASSUME IInv, NEW o \in Objs, NEW h \in Hashes, PromoteNew(o, h)
  PROVE  IInv'
<1> USE DEF IInv
<1> DEFINE b == blockId[o]
<1>1. /\ o \in acquired /\ b \in BlockIds
      /\ prefixHash[o] = INVALID_HASH_VALUE
      /\ cachedBlocks[h] = INVALID_BLOCKID
      /\ prefixHash' = [prefixHash EXCEPT ![o] = h]
      /\ cachedBlocks' = [cachedBlocks EXCEPT ![h] = b]
      /\ touchedBlocks' = touchedBlocks \cup {b}
      /\ UNCHANGED <<freeBlockIndices, refCounts, candidates, active, computed, acquired, blockId>>
  BY DEF PromoteNew
<1>2. TypeOK'
  BY <1>1 DEF TypeOK
<1>3. RefCountExact' /\ Places'
  BY <1>1 DEF RefCountExact, Holders, Places
<1>4. \A p \in Objs \ {o} : blockId[p] # b
  BY <1>1, PrefixCacheAssumption DEF PrivateUntilHashed
<1>5. PrivateUntilHashed' /\ HoldersAgree' /\ PooledObjectsHoldNothing'
  BY <1>1, <1>4, PrefixCacheAssumption
  DEF PrivateUntilHashed, HoldersAgree, PooledObjectsHoldNothing, TypeOK
<1>6. CacheConsistent'
  <2>1. \A p \in Objs : blockId'[p] # INVALID_BLOCKID /\ prefixHash'[p] # INVALID_HASH_VALUE
                          => cachedBlocks'[prefixHash'[p]] = blockId'[p]
    BY <1>1 DEF CacheConsistent, TypeOK
  <2>2. \A c \in BlockIds : candidates'[c] # INVALID_HASH_VALUE
                              => cachedBlocks'[candidates'[c]] = c
    BY <1>1, PrefixCacheAssumption DEF CacheConsistent, TypeOK
  <2>3. ASSUME NEW g \in Hashes, cachedBlocks'[g] # INVALID_BLOCKID
        PROVE  \/ candidates'[cachedBlocks'[g]] = g
               \/ \E q \in Objs : blockId'[q] = cachedBlocks'[g] /\ prefixHash'[q] = g
    <3>1. CASE g = h
      BY <1>1, <3>1 DEF TypeOK
    <3>2. CASE g # h
      <4>1. cachedBlocks'[g] = cachedBlocks[g]
        BY <1>1, <3>2 DEF TypeOK
      <4>2. CASE \E q \in Objs : blockId[q] = cachedBlocks[g] /\ prefixHash[q] = g
        <5>1. PICK q \in Objs : blockId[q] = cachedBlocks[g] /\ prefixHash[q] = g
          BY <4>2
        <5>2. q # o
          BY <1>1, <5>1, PrefixCacheAssumption
        <5> QED BY <1>1, <4>1, <5>1, <5>2 DEF TypeOK
      <4> QED BY <1>1, <2>3, <4>1, <4>2 DEF CacheConsistent, Holders
    <3> QED BY <3>1, <3>2
  <2> QED BY <2>1, <2>2, <2>3 DEF CacheConsistent, Holders
<1> QED BY <1>2, <1>3, <1>5, <1>6

(* ... and of one that is replaced by the block already cached. *)
LEMMA PromoteOntoCachedKeepsIInv ==
  ASSUME IInv, NEW o \in Objs, NEW h \in Hashes, PromoteOntoCached(o, h)
  PROVE  IInv'
<1> USE DEF IInv
<1> DEFINE own == blockId[o]
           hit == cachedBlocks[h]
<1>1. /\ o \in acquired /\ own \in BlockIds /\ hit \in BlockIds
      /\ prefixHash[o] = INVALID_HASH_VALUE
  BY DEF PromoteOntoCached, TypeOK
<1>2. \A p \in Objs \ {o} : blockId[p] # own
  BY <1>1, PrefixCacheAssumption DEF PrivateUntilHashed
<1>3. refCounts[own] = 1
  BY <1>1, <1>2, CountsTell
<1>4. /\ refCounts' = [refCounts EXCEPT ![own] = @ - 1, ![hit] = @ + 1]
      /\ freeBlockIndices' = freeBlockIndices \cup {own}
      /\ candidates' = [candidates EXCEPT ![hit] = INVALID_HASH_VALUE]
      /\ active' = (active \ {own}) \cup {hit}
      /\ computed' \subseteq BlockIds
      /\ prefixHash' = [prefixHash EXCEPT ![o] = h]
      /\ blockId' = [blockId EXCEPT ![o] = hit]
      /\ UNCHANGED <<cachedBlocks, touchedBlocks, acquired>>
  BY <1>1, <1>3 DEF PromoteOntoCached, TypeOK
<1>5. /\ hit \notin freeBlockIndices
      /\ \A p \in Objs : blockId[p] = hit => prefixHash[p] = h
      /\ \A g \in Hashes : cachedBlocks[g] = hit => g = h
  BY <1>1, CachedIsHashed
<1>6. own # hit
  BY <1>1, <1>5, PrefixCacheAssumption
<1> HIDE DEF own, hit
<1>7. /\ RefCountExact'
      /\ refCounts' \in [BlockIds -> Nat]
      /\ blockId' \in [Objs -> BlockIds \cup {INVALID_BLOCKID}]
  BY <1>1, <1>4, <1>6, CountOnMove DEF own
<1>8. TypeOK'
  BY <1>1, <1>4, <1>7 DEF TypeOK
<1>9. Places'
  BY <1>1, <1>3, <1>4, <1>5, <1>6 DEF Places, TypeOK
<1>10. PrivateUntilHashed' /\ HoldersAgree' /\ PooledObjectsHoldNothing'
  BY <1>1, <1>4, <1>5, PrefixCacheAssumption
  DEF PrivateUntilHashed, HoldersAgree, PooledObjectsHoldNothing, TypeOK
<1>11. CacheConsistent'
  <2>1. \A p \in Objs : blockId'[p] # INVALID_BLOCKID /\ prefixHash'[p] # INVALID_HASH_VALUE
                          => cachedBlocks'[prefixHash'[p]] = blockId'[p]
    BY <1>1, <1>4 DEF CacheConsistent, TypeOK, hit
  <2>2. \A c \in BlockIds : candidates'[c] # INVALID_HASH_VALUE
                              => cachedBlocks'[candidates'[c]] = c
    BY <1>1, <1>4 DEF CacheConsistent, TypeOK
  <2>3. ASSUME NEW g \in Hashes, cachedBlocks'[g] # INVALID_BLOCKID
        PROVE  \/ candidates'[cachedBlocks'[g]] = g
               \/ \E q \in Objs : blockId'[q] = cachedBlocks'[g] /\ prefixHash'[q] = g
    <3>1. CASE g = h
      BY <1>1, <1>4, <3>1 DEF TypeOK, hit
    <3>2. CASE g # h
      <4>1. cachedBlocks'[g] = cachedBlocks[g] /\ cachedBlocks[g] # hit
        BY <1>4, <1>5, <3>2
      <4>2. CASE \E q \in Objs : blockId[q] = cachedBlocks[g] /\ prefixHash[q] = g
        <5>1. PICK q \in Objs : blockId[q] = cachedBlocks[g] /\ prefixHash[q] = g
          BY <4>2
        <5>2. q # o
          BY <1>1, <5>1, PrefixCacheAssumption
        <5> QED BY <1>4, <4>1, <5>1, <5>2 DEF TypeOK
      <4>3. CASE candidates[cachedBlocks[g]] = g
        BY <1>1, <1>4, <2>3, <4>1, <4>3 DEF TypeOK
      <4> QED BY <2>3, <4>1, <4>2, <4>3 DEF CacheConsistent, Holders
    <3> QED BY <3>1, <3>2
  <2> QED BY <2>1, <2>2, <2>3 DEF CacheConsistent, Holders
<1> QED BY <1>7, <1>8, <1>9, <1>10, <1>11

(* Every operation of the allocator preserves the inductive invariant. *)
LEMMA NextKeepsIInv ==
  ASSUME IInv, [Next]_vars
  PROVE  IInv'
<1>1. ASSUME NEW o \in Objs, NEW h \in Hashes \cup {INVALID_HASH_VALUE}, AllocateBlock(o, h)
      PROVE  IInv'
  <2>1. blockId[o] = INVALID_BLOCKID
    BY <1>1 DEF AllocateBlock, IInv, PooledObjectsHoldNothing
  <2> QED BY <1>1, <2>1, ObtainKeepsIInv DEF AllocateBlock
<1>2. ASSUME NEW o \in Objs, SwapIn(o)
      PROVE  IInv'
  <2>1. /\ blockId[o] = INVALID_BLOCKID /\ Obtain(o, prefixHash[o])
        /\ acquired' = acquired \cup {o}
    BY <1>2 DEF SwapIn
  <2>2. /\ prefixHash[o] \in Hashes \cup {INVALID_HASH_VALUE}
        /\ prefixHash' = [prefixHash EXCEPT ![o] = prefixHash[o]]
    BY <1>2 DEF SwapIn, IInv, TypeOK
  <2> QED BY <2>1, <2>2, ObtainKeepsIInv
<1>3. ASSUME NEW o \in Objs, Free(o)
      PROVE  IInv'
  BY <1>3, FreeKeepsIInv DEF Free
<1>4. ASSUME NEW o \in Objs, SwapOut(o)
      PROVE  IInv'
  BY <1>4, FreeKeepsIInv DEF SwapOut
<1>5. CASE MarkBlocksAsComputed
  BY <1>5 DEF MarkBlocksAsComputed, IInv, TypeOK, RefCountExact, Holders, Places,
              CacheConsistent, PrivateUntilHashed, HoldersAgree, PooledObjectsHoldNothing
<1>6. CASE UNCHANGED vars
  BY <1>6 DEF vars, pool, IInv, TypeOK, RefCountExact, Holders, Places,
              CacheConsistent, PrivateUntilHashed, HoldersAgree, PooledObjectsHoldNothing
<1> QED
  BY <1>1, <1>2, <1>3, <1>4, <1>5, <1>6, PromoteNewKeepsIInv, PromoteOntoCachedKeepsIInv
  DEF Next

(* The allocator starts in the inductive invariant. *)
LEMMA InitIInv == Init => IInv
<1> SUFFICES ASSUME Init PROVE IInv
  OBVIOUS
<1>1. TypeOK
  BY DEF Init, TypeOK
<1>2. RefCountExact
  BY PrefixCacheAssumption, FS_EmptySet DEF Init, RefCountExact, Holders
<1>3. Places /\ CacheConsistent
  BY PrefixCacheAssumption DEF Init, Places, CacheConsistent
<1> QED BY <1>1, <1>2, <1>3
        DEF Init, IInv, PrivateUntilHashed, HoldersAgree, PooledObjectsHoldNothing

(* The inductive invariant holds in every reachable state. *)
THEOREM PrefixCacheInvariant == Spec => []IInv
<1>1. IInv /\ [Next]_vars => IInv'
  BY NextKeepsIInv
<1> QED BY <1>1, InitIInv, PTL DEF Spec

(* The allocator's state stays well formed, over eviction and promotion.   *)
THEOREM TypeCorrect == Spec => []TypeOK
<1>1. IInv => TypeOK
  BY DEF IInv
<1> QED BY <1>1, PrefixCacheInvariant, PTL

(* Reference counts stay exact although objects trade their own block for  *)
(* a cached one.                                                           *)
THEOREM CountsAreExact == Spec => []RefCountExact
<1>1. IInv => RefCountExact
  BY DEF IInv
<1> QED BY <1>1, PrefixCacheInvariant, PTL

(* The counters decide where a block is and whether it is tracked.         *)
LEMMA PlacesTell == IInv => BlocksPartitioned /\ ActiveExact
<1> SUFFICES ASSUME IInv PROVE BlocksPartitioned /\ ActiveExact
  OBVIOUS
<1>1. \A b \in BlockIds : refCounts[b] = 0 <=> Holders(b) = {}
  BY CountsTell DEF IInv, Holders
<1>2. active \subseteq BlockIds
  BY DEF IInv, TypeOK
<1> QED BY <1>1, <1>2 DEF IInv, Places, BlocksPartitioned, ActiveExact

(* No block is lost or handed out twice: each is held, evictable or free,  *)
(* whatever AllocateBlockId, promotion and FreeBlockId do to it.           *)
THEOREM PlacesAreExact == Spec => []BlocksPartitioned
<1> QED BY PlacesTell, PrefixCacheInvariant, PTL

(* TrackBlockId and UntrackBlockId follow the counters: a block is active  *)
(* exactly while an object holds it.                                       *)
THEOREM ActiveIsExact == Spec => []ActiveExact
<1> QED BY PlacesTell, PrefixCacheInvariant, PTL

(* The cache never disagrees with the evictor or with the block objects,   *)
(* so the checks that throw in DecrRefCountCacheBlock and                  *)
(* MayBeAllocateEvictedBlockId never do.                                   *)
THEOREM CacheIsConsistent == Spec => []CacheConsistent
<1>1. IInv => CacheConsistent
  BY DEF IInv
<1> QED BY <1>1, PrefixCacheInvariant, PTL

(* A block that may still be appended to (it has no hash) has one holder.  *)
THEOREM PrivateBlocks == Spec => []PrivateUntilHashed
<1>1. IInv => PrivateUntilHashed
  BY DEF IInv
<1> QED BY <1>1, PrefixCacheInvariant, PTL

(* MayBeAllocateEvictedBlockId and the promotions never take away the      *)
(* cache entry of a block that is in use.                                  *)
THEOREM EntriesInUseStay == Spec => HeldEntriesStay
<1> DEFINE Stay == \A h \in Hashes :
                     cachedBlocks[h] # INVALID_BLOCKID /\ Holders(cachedBlocks[h]) # {}
                       => cachedBlocks'[h] = cachedBlocks[h]
<1>1. ASSUME IInv, [Next]_vars
      PROVE  [Stay]_vars
  <2> USE DEF IInv, TypeOK
  <2>1. ASSUME NEW o \in Objs, NEW h \in Hashes \cup {INVALID_HASH_VALUE}, Obtain(o, h)
        PROVE  Stay
    <3>1. CASE ObtainCached(o, h)
      BY <3>1 DEF ObtainCached
    <3>2. CASE ObtainMutable(o) \/ (h \in Hashes /\ ObtainNew(o, h))
      <4>1. PICK b \in BlockIds :
              /\ AllocateBlockId(o, b)
              /\ \/ cachedBlocks' = CacheAfterEviction(b)
                 \/ /\ h \in Hashes /\ cachedBlocks[h] = INVALID_BLOCKID
                    /\ cachedBlocks' = [CacheAfterEviction(b) EXCEPT ![h] = b]
        BY <3>2 DEF ObtainMutable, ObtainNew
      <4>2. \A p \in Objs : blockId[p] # b
        BY <1>1, <4>1, AvailableIsUnheld DEF AllocateBlockId
      <4>3. \A g \in Hashes : candidates[b] = g => cachedBlocks[g] = b
        BY <1>1, PrefixCacheAssumption DEF CacheConsistent
      <4>4. Holders(b) = {}
        BY <4>2 DEF Holders
      <4> QED BY <1>1, <4>1, <4>3, <4>4 DEF CacheAfterEviction
    <3> QED BY <2>1, <3>1, <3>2 DEF Obtain
  <2>2. ASSUME NEW o \in Objs, NEW h \in Hashes, PromoteNew(o, h)
        PROVE  Stay
    BY <1>1, <2>2 DEF PromoteNew
  <2>3. ASSUME NEW o \in Objs, NEW h \in Hashes, PromoteOntoCached(o, h)
        PROVE  Stay
    BY <2>3 DEF PromoteOntoCached
  <2>4. ASSUME NEW o \in Objs, FreeBlockId(o)
        PROVE  Stay
    BY <2>4 DEF FreeBlockId
  <2>5. ASSUME NEW o \in Objs, SwapIn(o)
        PROVE  Stay
    BY <1>1, <2>1, <2>5 DEF SwapIn
  <2>6. CASE MarkBlocksAsComputed
    BY <2>6 DEF MarkBlocksAsComputed
  <2> HIDE DEF Stay, IInv, TypeOK
  <2> QED BY <1>1, <2>1, <2>2, <2>3, <2>4, <2>5, <2>6 DEF Next, AllocateBlock, Free, SwapOut
<1> QED BY <1>1, PrefixCacheInvariant, PTL DEF Spec, HeldEntriesStay
=============================================================================
