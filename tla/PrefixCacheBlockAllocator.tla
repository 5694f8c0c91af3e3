---------------------- MODULE PrefixCacheBlockAllocator ----------------------
(***************************************************************************)
(* The block allocator used when prefix caching is on                      *)
(* (prefix_cache_block_allocator.cpp), with its reference counter, its     *)
(* computed-block attributes (BlockComputedAttr) and its evictor.  A block *)
(* that is full and holds no placeholder has a prefix hash; blocks with    *)
(* the same hash share one block id through cachedBlocks, and a hashed     *)
(* block that nobody holds waits in the evictor instead of on the free     *)
(* list, so that a later request can take it up again.                     *)
(*                                                                         *)
(* Which token makes a block's hash valid is the business of the block     *)
(* tables, so the hash an object obtains is a parameter here.  The evictor *)
(* may give up any of its candidates; module LRUEvictor says which.  The   *)
(* free list is a set.  Fork and the copy-on-write it brings are modelled  *)
(* in HashLessBlockAllocator and left out here: nothing calls Fork while   *)
(* prefix caching is on, and PrivateUntilHashed then says that the copy    *)
(* branch of AppendTokenIds cannot be entered.                             *)
(***************************************************************************)
EXTENDS Integers, FiniteSets

CONSTANTS
  BlockIds,          \* allBlockIndices_
  Objs,              \* the block objects of blockObjPool_
  Hashes,            \* the prefix hashes of full blocks
  INVALID_BLOCKID,
  INVALID_HASH_VALUE

ASSUME PrefixCacheAssumption ==
  /\ IsFiniteSet(BlockIds)
  /\ IsFiniteSet(Objs)
  /\ INVALID_BLOCKID \notin BlockIds
  /\ INVALID_HASH_VALUE \notin Hashes

VARIABLES
  freeBlockIndices,
  refCounts,        \* RefCounter::refCounts_
  cachedBlocks,     \* hash -> block id, INVALID_BLOCKID where there is no entry
  candidates,       \* LRUEvictor::candidates_: block id -> its hash
  active,           \* BlockComputedAttr: ids whose active flag is set
  computed,         \* BlockComputedAttr: ids whose computed flag is set
  touchedBlocks,    \* ids cached since the last MarkBlocksAsComputed
  acquired,         \* objects taken from the pool
  blockId,          \* BlockObj::blockId_
  prefixHash        \* PrefixCachingBlockObj::cachedPrefixHash_

pool == <<freeBlockIndices, refCounts, cachedBlocks, candidates, active, computed, touchedBlocks>>
vars == <<pool, acquired, blockId, prefixHash>>

Holders(b) == {o \in Objs : blockId[o] = b}

Init ==
  /\ freeBlockIndices = BlockIds
  /\ refCounts = [b \in BlockIds |-> 0]
  /\ cachedBlocks = [h \in Hashes |-> INVALID_BLOCKID]
  /\ candidates = [b \in BlockIds |-> INVALID_HASH_VALUE]
  /\ active = {}
  /\ computed = {}
  /\ touchedBlocks = {}
  /\ acquired = {}
  /\ blockId = [o \in Objs |-> INVALID_BLOCKID]
  /\ prefixHash = [o \in Objs |-> INVALID_HASH_VALUE]

(***************************************************************************)
(* AllocateBlockId: a free id if there is one, else one that the evictor   *)
(* gives up and whose cache entry goes with it (MayBeAllocateEvictedBlock- *)
(* Id).  The id is tracked as active and not computed.                     *)
(***************************************************************************)
Available(b) ==
  IF freeBlockIndices # {} THEN b \in freeBlockIndices
                           ELSE candidates[b] # INVALID_HASH_VALUE

(* Mutant: an evicted block keeps its cache entry. *)
KeepEvictedEntry(b) == cachedBlocks

(* The cache once b is allocated: an evicted block's entry is erased. *)
CacheAfterEviction(b) ==
  [h \in Hashes |-> IF candidates[b] = h THEN INVALID_BLOCKID ELSE cachedBlocks[h]]

AllocateBlockId(o, b) ==
  /\ Available(b)
  /\ freeBlockIndices' = freeBlockIndices \ {b}
  /\ candidates' = [candidates EXCEPT ![b] = INVALID_HASH_VALUE]
  /\ refCounts' = [refCounts EXCEPT ![b] = @ + 1]
  /\ active' = active \cup {b}
  /\ computed' = computed \ {b}
  /\ blockId' = [blockId EXCEPT ![o] = b]

(* Mutant: a block taken from the evictor stays a candidate. *)
IncrRefCountStillEvictable(b) ==
  /\ refCounts' = [refCounts EXCEPT ![b] = @ + 1]
  /\ active' = active \cup {b}
  /\ computed' = IF refCounts[b] = 0 THEN computed \cup {b} ELSE computed
  /\ UNCHANGED candidates

(* IncrRefCountCacheBlock: one more object uses the cached block b; the    *)
(* first one takes it out of the evictor and tracks it as computed.        *)
IncrRefCountCacheBlock(b) ==
  /\ refCounts' = [refCounts EXCEPT ![b] = @ + 1]
  /\ candidates' = [candidates EXCEPT ![b] = INVALID_HASH_VALUE]
  /\ active' = active \cup {b}
  /\ computed' = IF refCounts[b] = 0 THEN computed \cup {b} ELSE computed

(* AllocateMutableBlock of tokens that give no hash. *)
ObtainMutable(o) ==
  /\ \E b \in BlockIds :
       /\ AllocateBlockId(o, b)
       /\ cachedBlocks' = CacheAfterEviction(b)
  /\ UNCHANGED touchedBlocks

(* AllocateImmutableBlock, the hash found in the cache. *)
ObtainCached(o, h) ==
  /\ cachedBlocks[h] # INVALID_BLOCKID
  /\ IncrRefCountCacheBlock(cachedBlocks[h])
  /\ blockId' = [blockId EXCEPT ![o] = cachedBlocks[h]]
  /\ UNCHANGED <<freeBlockIndices, cachedBlocks, touchedBlocks>>

(* AllocateImmutableBlock, the hash not found: a new block is allocated    *)
(* (the eviction comes first) and entered into the cache by the promotion  *)
(* at the end of AppendTokenIds.                                           *)
ObtainNew(o, h) ==
  /\ cachedBlocks[h] = INVALID_BLOCKID
  /\ \E b \in BlockIds :
       /\ AllocateBlockId(o, b)
       /\ cachedBlocks' = [CacheAfterEviction(b) EXCEPT ![h] = b]
       /\ touchedBlocks' = touchedBlocks \cup {b}

Obtain(o, h) ==
  \/ h = INVALID_HASH_VALUE /\ ObtainMutable(o)
  \/ h \in Hashes /\ ObtainCached(o, h)
  \/ h \in Hashes /\ ObtainNew(o, h)

(* AllocateMutableBlock and AllocateImmutableBlock. *)
AllocateBlock(o, h) ==
  /\ o \notin acquired
  /\ Obtain(o, h)
  /\ acquired' = acquired \cup {o}
  /\ prefixHash' = [prefixHash EXCEPT ![o] = h]

(* Mutant: the block's own id overwrites the entry another block has. *)
PromoteNewOverwriting(o, h) ==
  /\ o \in acquired /\ blockId[o] \in BlockIds
  /\ prefixHash[o] = INVALID_HASH_VALUE
  /\ prefixHash' = [prefixHash EXCEPT ![o] = h]
  /\ cachedBlocks' = [cachedBlocks EXCEPT ![h] = blockId[o]]
  /\ touchedBlocks' = touchedBlocks \cup {blockId[o]}
  /\ UNCHANGED <<freeBlockIndices, refCounts, candidates, active, computed, acquired, blockId>>

(* AppendTokenIds that fills the block and gives it the hash h, when no    *)
(* block with that hash is cached: the block itself enters the cache.      *)
PromoteNew(o, h) ==
  /\ o \in acquired /\ blockId[o] \in BlockIds
  /\ prefixHash[o] = INVALID_HASH_VALUE
  /\ cachedBlocks[h] = INVALID_BLOCKID
  /\ prefixHash' = [prefixHash EXCEPT ![o] = h]
  /\ cachedBlocks' = [cachedBlocks EXCEPT ![h] = blockId[o]]
  /\ touchedBlocks' = touchedBlocks \cup {blockId[o]}
  /\ UNCHANGED <<freeBlockIndices, refCounts, candidates, active, computed, acquired, blockId>>

(* Mutant: the block's own id is dropped without being released. *)
PromoteOntoCachedLeaky(o, h) ==
  /\ o \in acquired /\ blockId[o] \in BlockIds
  /\ prefixHash[o] = INVALID_HASH_VALUE
  /\ cachedBlocks[h] # INVALID_BLOCKID
  /\ IncrRefCountCacheBlock(cachedBlocks[h])
  /\ prefixHash' = [prefixHash EXCEPT ![o] = h]
  /\ blockId' = [blockId EXCEPT ![o] = cachedBlocks[h]]
  /\ UNCHANGED <<freeBlockIndices, cachedBlocks, touchedBlocks, acquired>>

(* The same when the hash is cached: the block's own id is released and    *)
(* the cached one taken instead.                                           *)
PromoteOntoCached(o, h) ==
  LET own == blockId[o]
      hit == cachedBlocks[h]
      last == refCounts[own] = 1
  IN  /\ o \in acquired /\ own \in BlockIds
      /\ prefixHash[o] = INVALID_HASH_VALUE
      /\ hit # INVALID_BLOCKID
      /\ refCounts[own] > 0
      /\ refCounts' = [refCounts EXCEPT ![own] = @ - 1, ![hit] = @ + 1]
      /\ freeBlockIndices' = IF last THEN freeBlockIndices \cup {own} ELSE freeBlockIndices
      /\ candidates' = [candidates EXCEPT ![hit] = INVALID_HASH_VALUE]
      /\ active' = (IF last THEN active \ {own} ELSE active) \cup {hit}
      /\ computed' = (IF last THEN computed \ {own} ELSE computed)
                       \cup (IF refCounts[hit] = 0 THEN {hit} ELSE {})
      /\ prefixHash' = [prefixHash EXCEPT ![o] = h]
      /\ blockId' = [blockId EXCEPT ![o] = hit]
      /\ UNCHANGED <<cachedBlocks, touchedBlocks, acquired>>

(* Where an id goes when its last holder lets go: to the evictor under its *)
(* hash (DecrRefCountCacheBlock, which throws unless the cache agrees), or *)
(* to the free list.                                                       *)
Release(o) ==
  LET b == blockId[o]
      h == prefixHash[o]
  IN  \/ /\ refCounts[b] > 1
         /\ UNCHANGED <<freeBlockIndices, candidates>>
      \/ /\ refCounts[b] = 1 /\ h = INVALID_HASH_VALUE
         /\ freeBlockIndices' = freeBlockIndices \cup {b}
         /\ UNCHANGED candidates
      \/ /\ refCounts[b] = 1 /\ h # INVALID_HASH_VALUE
         /\ cachedBlocks[h] = b
         /\ candidates' = [candidates EXCEPT ![b] = h]
         /\ UNCHANGED freeBlockIndices

FreeBlockId(o) ==
  LET b == blockId[o]
      last == IF refCounts[b] = 1 THEN {b} ELSE {}
  IN  /\ b \in BlockIds
      /\ Release(o)
      /\ refCounts' = [refCounts EXCEPT ![b] = @ - 1]
      /\ active' = active \ last
      /\ computed' = computed \ last
      /\ blockId' = [blockId EXCEPT ![o] = INVALID_BLOCKID]
      /\ UNCHANGED <<cachedBlocks, touchedBlocks>>

(* Free: the object goes back to the pool as well. *)
Free(o) ==
  /\ o \in acquired
  /\ FreeBlockId(o)
  /\ acquired' = acquired \ {o}
  /\ prefixHash' = [prefixHash EXCEPT ![o] = INVALID_HASH_VALUE]

(* SwapOut and SwapIn of one block: the object and its hash are kept. *)
SwapOut(o) ==
  /\ o \in acquired
  /\ FreeBlockId(o)
  /\ UNCHANGED <<acquired, prefixHash>>

SwapIn(o) ==
  /\ o \in acquired /\ blockId[o] = INVALID_BLOCKID
  /\ Obtain(o, prefixHash[o])
  /\ UNCHANGED <<acquired, prefixHash>>

MarkBlocksAsComputed ==
  /\ touchedBlocks # {}
  /\ computed' = computed \cup touchedBlocks
  /\ touchedBlocks' = {}
  /\ UNCHANGED <<freeBlockIndices, refCounts, cachedBlocks, candidates, active,
                 acquired, blockId, prefixHash>>

Next ==
  \/ \E o \in Objs :
       \/ \E h \in Hashes \cup {INVALID_HASH_VALUE} : AllocateBlock(o, h)
       \/ \E h \in Hashes : PromoteNew(o, h) \/ PromoteOntoCached(o, h)
       \/ Free(o)
       \/ SwapOut(o)
       \/ SwapIn(o)
  \/ MarkBlocksAsComputed

Spec == Init /\ [][Next]_vars

-----------------------------------------------------------------------------
(* The types of the allocator's state. *)
TypeOK ==
  /\ freeBlockIndices \subseteq BlockIds
  /\ refCounts \in [BlockIds -> Nat]
  /\ cachedBlocks \in [Hashes -> BlockIds \cup {INVALID_BLOCKID}]
  /\ candidates \in [BlockIds -> Hashes \cup {INVALID_HASH_VALUE}]
  /\ active \subseteq BlockIds
  /\ computed \subseteq BlockIds
  /\ touchedBlocks \subseteq BlockIds
  /\ acquired \subseteq Objs
  /\ blockId \in [Objs -> BlockIds \cup {INVALID_BLOCKID}]
  /\ prefixHash \in [Objs -> Hashes \cup {INVALID_HASH_VALUE}]

(* A block's counter is the number of block objects that name it, although *)
(* objects change ids when they are promoted onto a cached block.          *)
RefCountExact == \A b \in BlockIds : refCounts[b] = Cardinality(Holders(b))

(* Every block is in exactly one place: named by an object, waiting in the *)
(* evictor, or free.  GetNumFreeBlock, which adds up the last two, is then *)
(* the number of blocks the scheduler may still hand out.                  *)
BlocksPartitioned ==
  \A b \in BlockIds :
    LET held == Holders(b) # {}
        evictable == candidates[b] # INVALID_HASH_VALUE
        free == b \in freeBlockIndices
    IN  /\ held \/ evictable \/ free
        /\ ~(held /\ evictable) /\ ~(held /\ free) /\ ~(evictable /\ free)

(* The cache, the evictor and the objects agree: a hashed object names the *)
(* block cached under its hash, a candidate is cached under the hash the   *)
(* evictor recorded, and no entry points to a block that has neither.  The *)
(* exceptions of MayBeAllocateEvictedBlockId and DecrRefCountCacheBlock    *)
(* ("unmatch", "not in cache") are then never thrown.                      *)
CacheConsistent ==
  /\ \A o \in Objs : blockId[o] # INVALID_BLOCKID /\ prefixHash[o] # INVALID_HASH_VALUE
                       => cachedBlocks[prefixHash[o]] = blockId[o]
  /\ \A b \in BlockIds : candidates[b] # INVALID_HASH_VALUE => cachedBlocks[candidates[b]] = b
  /\ \A h \in Hashes : cachedBlocks[h] # INVALID_BLOCKID =>
       \/ candidates[cachedBlocks[h]] = h
       \/ \E o \in Holders(cachedBlocks[h]) : prefixHash[o] = h

(* A block is tracked exactly while somebody holds it, so that Enable,     *)
(* Disable and MarkBlocksAsAccessed never throw.                           *)
ActiveExact == active = {b \in BlockIds : Holders(b) # {}}

(* A block without a hash has one holder: appending to it writes into      *)
(* nobody else's KV cache, and AppendTokenIds never has to copy.           *)
PrivateUntilHashed ==
  \A o, p \in Objs :
    /\ blockId[o] # INVALID_BLOCKID
    /\ prefixHash[o] = INVALID_HASH_VALUE
    /\ p # o
    => blockId[p] # blockId[o]

(* The cache entry of a block in use is never erased or pointed elsewhere. *)
HeldEntriesStay ==
  [][\A h \in Hashes : cachedBlocks[h] # INVALID_BLOCKID /\ Holders(cachedBlocks[h]) # {}
                         => cachedBlocks'[h] = cachedBlocks[h]]_vars

=============================================================================
