----------------------------- MODULE LRUEvictor -----------------------------
(***************************************************************************)
(* The evictor of the prefix cache (lru_evictor.cpp): a map of candidates  *)
(* and a priority queue that is cleaned lazily.  Remove leaves the block's *)
(* entry in the queue; Evict pops entries until one names a candidate      *)
(* whose access time is close to the entry's (IsClose); Add rebuilds the   *)
(* queue when it has grown too far beyond the candidates.                  *)
(*                                                                         *)
(* Times are the multiples of the step a float keeps of a clock in seconds *)
(* and Tolerance is IsClose's relative tolerance, in the same unit.  The   *)
(* queue is a bag: a block re-added with the same data is in it twice.     *)
(* Update is left out: its only caller throws right after it, and          *)
(* PrefixCacheBlockAllocator's ActiveExact says that it is never called.   *)
(***************************************************************************)
EXTENDS Integers, FiniteSets, Bags

CONSTANTS
  BlockIds, INVALID_BLOCKID,
  Times,             \* values of lastAccessedTime
  Depths,            \* values of hashedTokensNum
  Tolerance,         \* IsClose(a, b) iff a and b differ by at most this
  CleanupThreshold   \* LRU_EVICTOR_CLEANUP_THRESHOLD

ASSUME EvictorAssumption ==
  /\ Times \subseteq Int
  /\ Depths \subseteq Nat
  /\ Tolerance \in Nat
  /\ CleanupThreshold \in Nat \ {0}
  /\ INVALID_BLOCKID \notin BlockIds
  /\ IsFiniteSet(BlockIds)

VARIABLES candidates, priorityQueue, evicted

vars == <<candidates, priorityQueue, evicted>>

BlockMetaData == [blockId : BlockIds, lastAccessedTime : Times, hashedTokensNum : Depths]

Init ==
  /\ candidates = [b \in {} |-> 0]
  /\ priorityQueue = EmptyBag
  /\ evicted = INVALID_BLOCKID

(* Mutant: the most recently accessed entry is popped first. *)
BeforeReversed(d, e) == d.lastAccessedTime > e.lastAccessedTime

(* Entry d is popped before e: it is older, or as old and of a longer      *)
(* prefix.  The order of entries equal in both is unspecified.             *)
Before(d, e) ==
  \/ d.lastAccessedTime < e.lastAccessedTime
  \/ d.lastAccessedTime = e.lastAccessedTime /\ d.hashedTokensNum > e.hashedTokensNum

IsClose(t, u) == t - u <= Tolerance /\ u - t <= Tolerance

(* Entry d still stands for a candidate. *)
Matches(d) ==
  /\ d.blockId \in DOMAIN candidates
  /\ IsClose(candidates[d.blockId].lastAccessedTime, d.lastAccessedTime)

(* Mutant: Cleanup loses the live entries with the stale ones. *)
CleanupEmpty(cands) == EmptyBag

(* Mutant: Cleanup adds the live entries to the queue it should replace. *)
CleanupOnTop(cands) == priorityQueue (+) SetToBag({cands[b] : b \in DOMAIN cands})

(* Cleanup: one entry per candidate. *)
Cleanup(cands) == SetToBag({cands[b] : b \in DOMAIN cands})

(* priorityQueue_.size(): every copy of an entry counts. *)
Copies(queue) == UNION {{<<d, i>> : i \in 1 .. queue[d]} : d \in DOMAIN queue}
Size(queue) == Cardinality(Copies(queue))

(* Add, of a block that is not a candidate: DecrRefCountCacheBlock adds it *)
(* when its last holder lets go.                                           *)
Add(d) ==
  LET cands == [c \in DOMAIN candidates \cup {d.blockId} |->
                  IF c = d.blockId THEN d ELSE candidates[c]]
      queue == priorityQueue (+) SetToBag({d})
  IN  /\ d.blockId \notin DOMAIN candidates
      /\ candidates' = cands
      /\ priorityQueue' =
           IF Size(queue) > CleanupThreshold * Cardinality(DOMAIN cands)
             THEN Cleanup(cands) ELSE queue
      /\ evicted' = INVALID_BLOCKID

(* candidates_.erase *)
Without(b) == [c \in DOMAIN candidates \ {b} |-> candidates[c]]

(* Remove: the entry in the queue stays behind. *)
Remove(b) ==
  /\ b \in DOMAIN candidates
  /\ candidates' = Without(b)
  /\ evicted' = INVALID_BLOCKID
  /\ UNCHANGED priorityQueue

(* Evict: d is the first popped entry that matches.  Stale entries before  *)
(* it are gone; those that tie with it may have been popped or not.        *)
Evict(d) ==
  /\ d \in DOMAIN priorityQueue
  /\ Matches(d)
  /\ \A e \in DOMAIN priorityQueue : Before(e, d) => ~Matches(e)
  /\ \E popped \in SUBSET {e \in DOMAIN priorityQueue : ~Before(d, e) /\ ~Matches(e)} :
       /\ {e \in DOMAIN priorityQueue : Before(e, d)} \subseteq popped
       /\ priorityQueue' =
            [e \in DOMAIN priorityQueue \ popped |-> priorityQueue[e]] (-) SetToBag({d})
  /\ candidates' = Without(d.blockId)
  /\ evicted' = d.blockId

Next ==
  \/ \E d \in BlockMetaData : Add(d)
  \/ \E b \in BlockIds : Remove(b)
  \/ \E d \in DOMAIN priorityQueue : Evict(d)

Spec == Init /\ [][Next]_vars

-----------------------------------------------------------------------------
(* Types of the candidates map, the queue and the result. *)
TypeOK ==
  /\ DOMAIN candidates \subseteq BlockIds
  /\ \A b \in DOMAIN candidates : candidates[b] \in BlockMetaData /\ candidates[b].blockId = b
  /\ DOMAIN priorityQueue \subseteq BlockMetaData
  /\ \A d \in DOMAIN priorityQueue : priorityQueue[d] \in Nat \ {0}
  /\ evicted \in BlockIds \cup {INVALID_BLOCKID}

(* Every candidate has its own entry in the queue, so that Evict never     *)
(* runs the queue empty ("No usable cache memory left") while the          *)
(* scheduler counts the candidates as blocks it may allocate.              *)
CandidatesQueued == \A b \in DOMAIN candidates : candidates[b] \in DOMAIN priorityQueue

(* Entries that Remove leaves behind do not pile up: whatever the order of *)
(* calls, the queue is at most CleanupThreshold entries per block.         *)
QueueBounded == Size(priorityQueue) <= CleanupThreshold * Cardinality(BlockIds)

accessed == [b \in DOMAIN candidates |-> candidates[b].lastAccessedTime]

(* The lazy queue implements an evictor that is least recently used up to  *)
(* the tolerance of IsClose.                                               *)
Abstract == INSTANCE Evictor WITH Slack <- Tolerance
AbstractSpec == Abstract!Spec
=============================================================================
