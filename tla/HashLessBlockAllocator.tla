----------------------- MODULE HashLessBlockAllocator -----------------------
(***************************************************************************)
(* The block allocator used when prefix caching is off                     *)
(* (hashless_block_allocator.cpp), with the reference counter and the      *)
(* copy-on-write tracker it owns.  A block object (HashLessBlockObj) is a  *)
(* handle that names at most one block id; several objects may name the    *)
(* same id after a Fork.                                                   *)
(*                                                                         *)
(* The free list is a set here: the code takes its front and pushes to its *)
(* back, and no property depends on which free id is handed out.  A block  *)
(* object's tokens are abstracted to their number.  Objs stands for the    *)
(* object pool, which in the code is large enough for every block.         *)
(***************************************************************************)
EXTENDS Integers, FiniteSets

CONSTANTS
  BlockIds,        \* allBlockIndices_
  Objs,            \* the block objects of blockObjPool_
  INVALID_BLOCKID,
  blockSize,
  MaxCows          \* bound: copy-on-writes recorded before they are cleared

ASSUME AllocatorAssumption ==
  /\ IsFiniteSet(BlockIds)
  /\ IsFiniteSet(Objs)
  /\ INVALID_BLOCKID \notin BlockIds
  /\ blockSize \in Nat \ {0}
  /\ MaxCows \in Nat

VARIABLES
  freeBlockIndices, \* ids nobody holds
  refCounts,        \* RefCounter::refCounts_
  copyOnWrites,     \* <<source, target>> pairs of CopyOnWriteTracker
  acquired,         \* objects taken from the pool
  blockId,          \* BlockObj::blockId_
  numTokens         \* length of BlockObj::tokenIds_

vars == <<freeBlockIndices, refCounts, copyOnWrites, acquired, blockId, numTokens>>

Holders(b) == {o \in Objs : blockId[o] = b}

Init ==
  /\ freeBlockIndices = BlockIds
  /\ refCounts = [b \in BlockIds |-> 0]
  /\ copyOnWrites = {}
  /\ acquired = {}
  /\ blockId = [o \in Objs |-> INVALID_BLOCKID]
  /\ numTokens = [o \in Objs |-> 0]

(***************************************************************************)
(* AllocateBlockId, once for every object of os: the ids leave the free    *)
(* list, distinct objects get distinct ids, and each counter goes up.      *)
(* The callers reserve the blocks first (CanAllocate, CanSwapIn); one that *)
(* did not would make the code throw half-way and lose the ids taken.      *)
(***************************************************************************)
AllocateBlockIds(os) ==
  \E f \in [os -> freeBlockIndices] :
    /\ \A p, q \in os : f[p] = f[q] => p = q
    /\ freeBlockIndices' = freeBlockIndices \ {f[o] : o \in os}
    /\ refCounts' = [b \in BlockIds |->
                       IF \E o \in os : f[o] = b THEN refCounts[b] + 1 ELSE refCounts[b]]
    /\ blockId' = [o \in Objs |-> IF o \in os THEN f[o] ELSE blockId[o]]

(* AllocateMutableBlock and AllocateImmutableBlock: a pooled object gets a *)
(* fresh id and n tokens; the append inside the latter never copies since  *)
(* the new block has one holder.                                           *)
AllocateBlock(o, n) ==
  /\ o \notin acquired
  /\ AllocateBlockIds({o})
  /\ acquired' = acquired \cup {o}
  /\ numTokens' = [numTokens EXCEPT ![o] = n]
  /\ UNCHANGED copyOnWrites

(* AllocateImmutableBlocks: one full block per chunk. *)
AllocateImmutableBlocks(os) ==
  /\ os \cap acquired = {}
  /\ AllocateBlockIds(os)
  /\ acquired' = acquired \cup os
  /\ numTokens' = [o \in Objs |-> IF o \in os THEN blockSize ELSE numTokens[o]]
  /\ UNCHANGED copyOnWrites

Naming(os, b) == {o \in os : blockId[o] = b}

(* Mutant: the id is freed whenever one holder lets go. *)
FreeBlockIdAlways(os) ==
  /\ \A o \in os : blockId[o] \in BlockIds
  /\ refCounts' = [b \in BlockIds |-> refCounts[b] - Cardinality(Naming(os, b))]
  /\ freeBlockIndices' = freeBlockIndices \cup {blockId[o] : o \in os}
  /\ blockId' = [o \in Objs |-> IF o \in os THEN INVALID_BLOCKID ELSE blockId[o]]

(* FreeBlockId, once for every object of os: the counter goes down (it     *)
(* throws rather than pass zero), and the id is free when it is zero.      *)
FreeBlockId(os) ==
  /\ \A o \in os : blockId[o] \in BlockIds
  /\ \A b \in BlockIds : Cardinality(Naming(os, b)) <= refCounts[b]
  /\ refCounts' = [b \in BlockIds |-> refCounts[b] - Cardinality(Naming(os, b))]
  /\ freeBlockIndices' =
       freeBlockIndices \cup {b \in BlockIds : Naming(os, b) # {} /\ refCounts'[b] = 0}
  /\ blockId' = [o \in Objs |-> IF o \in os THEN INVALID_BLOCKID ELSE blockId[o]]

(* Free: give up the id and return the object to the pool. *)
Free(o) ==
  /\ o \in acquired
  /\ FreeBlockId({o})
  /\ acquired' = acquired \ {o}
  /\ numTokens' = [numTokens EXCEPT ![o] = 0]
  /\ UNCHANGED copyOnWrites

(* Fork of a chain of blocks: every source block gets a twin from the pool *)
(* that names the same id and holds the same tokens; source[t] is the      *)
(* block the twin t is made from.                                          *)
Fork(twins, source) ==
  /\ twins \cap acquired = {}
  /\ \A t, u \in twins : source[t] = source[u] => t = u
  /\ \A t \in twins : source[t] \in acquired /\ blockId[source[t]] \in BlockIds
  /\ \A t \in twins : refCounts[blockId[source[t]]] >= 1
  /\ refCounts' = [b \in BlockIds |->
                     refCounts[b] + Cardinality({t \in twins : blockId[source[t]] = b})]
  /\ blockId' = [o \in Objs |-> IF o \in twins THEN blockId[source[o]] ELSE blockId[o]]
  /\ numTokens' = [o \in Objs |-> IF o \in twins THEN numTokens[source[o]] ELSE numTokens[o]]
  /\ acquired' = acquired \cup twins
  /\ UNCHANGED <<freeBlockIndices, copyOnWrites>>

(* Mutant: a block with two holders counts as private. *)
IsAppendableOffByOne(b) == refCounts[b] <= 2

(* CopyOnWriteTracker::IsAppendable *)
IsAppendable(b) == refCounts[b] <= 1

(***************************************************************************)
(* AppendTokenIds, then CowBlockIfNotAppendable.  The tokens are added to  *)
(* the object first.  A block somebody else also holds is given up and     *)
(* replaced by a fresh one, and the copy is recorded.                      *)
(***************************************************************************)
AppendInPlace(o, n) ==
  /\ o \in acquired /\ blockId[o] \in BlockIds
  /\ numTokens[o] + n <= blockSize
  /\ IsAppendable(blockId[o])
  /\ numTokens' = [numTokens EXCEPT ![o] = @ + n]
  /\ UNCHANGED <<freeBlockIndices, refCounts, copyOnWrites, acquired, blockId>>

AppendWithCow(o, n) ==
  /\ o \in acquired /\ blockId[o] \in BlockIds
  /\ numTokens[o] + n <= blockSize
  /\ ~IsAppendable(blockId[o])
  /\ Cardinality(copyOnWrites) < MaxCows
  /\ \E b \in freeBlockIndices :
       /\ freeBlockIndices' = freeBlockIndices \ {b}
       /\ refCounts' = [refCounts EXCEPT ![blockId[o]] = @ - 1, ![b] = @ + 1]
       /\ blockId' = [blockId EXCEPT ![o] = b]
       /\ copyOnWrites' = copyOnWrites \cup {<<blockId[o], b>>}
  /\ numTokens' = [numTokens EXCEPT ![o] = @ + n]
  /\ UNCHANGED acquired

(* The same append when no id is free: the shared id has already been      *)
(* given up when AllocateBlockId throws, so the object keeps its tokens    *)
(* and names no block.                                                     *)
AppendOutOfBlocks(o, n) ==
  /\ o \in acquired /\ blockId[o] \in BlockIds
  /\ numTokens[o] + n <= blockSize
  /\ ~IsAppendable(blockId[o])
  /\ freeBlockIndices = {}
  /\ FreeBlockId({o})
  /\ numTokens' = [numTokens EXCEPT ![o] = @ + n]
  /\ UNCHANGED <<copyOnWrites, acquired>>

(* ClearCopyOnWrites hands the recorded copies to the caller. *)
ClearCopyOnWrites ==
  /\ copyOnWrites # {}
  /\ copyOnWrites' = {}
  /\ UNCHANGED <<freeBlockIndices, refCounts, acquired, blockId, numTokens>>

(* SwapOut: the ids are freed and the objects kept. *)
SwapOut(os) ==
  /\ os \subseteq acquired
  /\ FreeBlockId(os)
  /\ UNCHANGED <<copyOnWrites, acquired, numTokens>>

(* Mutant: swapping in on top of ids the objects still name. *)
SwapInUnreleased(os) ==
  /\ os \subseteq acquired
  /\ AllocateBlockIds(os)
  /\ UNCHANGED <<copyOnWrites, acquired, numTokens>>

(* SwapIn: temporary objects obtain fresh ids, which the kept objects take *)
(* over before the temporaries go back to the pool.                        *)
SwapIn(os) ==
  /\ os \subseteq acquired
  /\ \A o \in os : blockId[o] = INVALID_BLOCKID
  /\ AllocateBlockIds(os)
  /\ UNCHANGED <<copyOnWrites, acquired, numTokens>>

Next ==
  \/ \E o \in Objs :
       \/ \E n \in 0..blockSize : AllocateBlock(o, n)
       \/ Free(o)
       \/ \E n \in 1..blockSize :
            \/ AppendInPlace(o, n)
            \/ AppendWithCow(o, n)
            \/ AppendOutOfBlocks(o, n)
  \/ \E os \in (SUBSET Objs) \ {{}} :
       \/ AllocateImmutableBlocks(os)
       \/ SwapOut(os)
       \/ SwapIn(os)
       \/ \E source \in [os -> Objs] : Fork(os, source)
  \/ ClearCopyOnWrites

Spec == Init /\ [][Next]_vars

-----------------------------------------------------------------------------
(* Types: ids, counters and copies stay within the allocator's own blocks. *)
TypeOK ==
  /\ freeBlockIndices \subseteq BlockIds
  /\ refCounts \in [BlockIds -> Nat]
  /\ copyOnWrites \subseteq (BlockIds \X BlockIds)
  /\ acquired \subseteq Objs
  /\ blockId \in [Objs -> BlockIds \cup {INVALID_BLOCKID}]
  /\ numTokens \in [Objs -> 0..blockSize]

(* RefCounter agrees with the objects: a block's counter is the number of  *)
(* block objects that name it, across allocation, fork, copy-on-write,     *)
(* swap and a failed append.  A counter that runs low frees KV memory that *)
(* is still read; one that runs high leaks it.                             *)
RefCountExact == \A b \in BlockIds : refCounts[b] = Cardinality(Holders(b))

(* The free list holds exactly the ids no block object names, so a block   *)
(* is never handed out twice and no block is lost.                         *)
FreeListExact == freeBlockIndices = {b \in BlockIds : Holders(b) = {}}

(* A block object that is back in the pool names no block; with the two    *)
(* invariants above and the types it makes the inductive invariant.        *)
PooledObjectsHoldNothing == \A o \in Objs \ acquired : blockId[o] = INVALID_BLOCKID

(* An append writes only into a block that no other object holds: the      *)
(* purpose of CowBlockIfNotAppendable.                                     *)
AppendIsExclusive ==
  [][\A o \in acquired \cap acquired' :
       numTokens'[o] # numTokens[o] =>
         \A p \in Objs \ {o} : blockId'[o] = blockId'[p] => blockId'[o] = INVALID_BLOCKID]_vars

=============================================================================
