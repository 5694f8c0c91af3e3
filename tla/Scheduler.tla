------------------------------ MODULE Scheduler ------------------------------
(***************************************************************************)
(* The scheduler thread of one data-parallel rank in the PnD role          *)
(* (prefill and decode on the same instance): LlmEngine's loop,            *)
(* Scheduler::Schedule with its three queues, and the FCFS policy with     *)
(* preemption by swap or by recomputation.                                 *)
(*                                                                         *)
(* A round dequeues candidates, lets the policy go through them one by     *)
(* one, and backfills the queues.  Requests are added and aborted at any   *)
(* time; the executor's response to a batch arrives between two rounds.    *)
(* Blocks are counted (HashLessBlockAllocator, no sharing), tokens are     *)
(* counted, and the clocks of a request are the two thresholds the code    *)
(* compares its waiting time with.                                         *)
(*                                                                         *)
(* Left out: chunked prefill (MIX), the P, D and Flex roles, parallel      *)
(* sampling, stage policies other than prefill first, speculative slots,   *)
(* thinking budgets and asynchronous scheduling.                           *)
(***************************************************************************)
EXTENDS Integers, FiniteSets, Sequences, SequencesExt, FiniteSetsExt

CONSTANTS
  Reqs,                 \* requests, numbered by seqId
  npuBlockNum, cpuBlockNum, cacheBlockSize,
  maxSeqLen, maxPrefillTokens,
  maxBatchSize, maxPrefillBatchSize, maxPreemptCount,
  queueDelayRaised,     \* maxQueueDelayMicroseconds is above its default
  Prompts               \* bound: the prompt lengths that are asked for

ASSUME SchedulerAssumption ==
  /\ Reqs \subseteq Nat /\ IsFiniteSet(Reqs)
  /\ {npuBlockNum, cacheBlockSize, maxSeqLen, maxBatchSize, maxPrefillBatchSize} \subseteq Nat \ {0}
  /\ {cpuBlockNum, maxPreemptCount, maxPrefillTokens} \subseteq Nat
  /\ maxPrefillBatchSize <= maxBatchSize /\ maxPreemptCount <= maxBatchSize
  /\ maxSeqLen <= npuBlockNum * cacheBlockSize
  /\ Prompts \subseteq Nat \ {0}
  /\ queueDelayRaised \in BOOLEAN

PRESERVED_PERCENT_FOR_DECODE == 5
PREPARE_DATA_EXPANSION_FACTOR == 2
NoBatch == [none |-> TRUE]

VARIABLES
  waiting, running, swapped,   \* the ConcurrentDeques, by seqId
  status,                      \* SequenceStatus; "NONE" before the request is added
  len, prompt,                 \* all tokens, a placeholder included, and those of the prompt
  table,                       \* tokens in the BlockTable
  freeNpu, freeCpu,            \* free blocks of the two allocators
  clock,                       \* 0, or 1 past the queue delay, or 2 past the first-token wait
  finishedQueue, abortedQueue, \* what other threads have reported
  finishedSeqIds, abortedReqIds,
  lastScheduleEmpty, newRequestFirst,
  pc,                          \* where the scheduler thread is
  round,                       \* candidates and outputs of the policy in this round
  executing                    \* the batch on the device

queueVars == <<waiting, running, swapped>>
blockVars == <<table, freeNpu, freeCpu>>
reportVars == <<finishedQueue, abortedQueue, finishedSeqIds, abortedReqIds>>
flagVars == <<lastScheduleEmpty, newRequestFirst>>
vars == <<queueVars, status, len, prompt, blockVars, clock, reportVars, flagVars, pc, round, executing>>

CeilDiv(a, b) == (a + b - 1) \div b
BlocksFor(n) == CeilDiv(n, cacheBlockSize)
Live(r) == status[r] \in {"WAITING", "RUNNING", "SWAPPED"}
HasOutput(r) == len[r] > prompt[r]
SortedBySeqId(S) ==
  CHOOSE q \in [1..Cardinality(S) -> S] : \A i, j \in DOMAIN q : i < j => q[i] < q[j]

(* The blocks in the tables of the requests of S that have status st, each *)
(* as a request and a place in its table.                                  *)
BlocksHeld(st, S) ==
  UNION {{r} \X (1..BlocksFor(table[r])) : r \in {q \in S : status[q] = st}}

EmptyRound ==
  [mode |-> "PREFILL_FIRST", waiting |-> <<>>, recompute |-> <<>>, running |-> <<>>, swapped |-> <<>>,
   decode |-> <<>>, swappedIn |-> <<>>, prefill |-> <<>>, preempted |-> <<>>, swappedOut |-> <<>>,
   tokens |-> 0]

Init ==
  /\ waiting = <<>> /\ running = <<>> /\ swapped = <<>>
  /\ status = [r \in Reqs |-> "NONE"]
  /\ len = [r \in Reqs |-> 0] /\ prompt = [r \in Reqs |-> 0] /\ table = [r \in Reqs |-> 0]
  /\ freeNpu = npuBlockNum /\ freeCpu = cpuBlockNum
  /\ clock = [r \in Reqs |-> 0]
  /\ finishedQueue = {} /\ abortedQueue = {} /\ finishedSeqIds = {} /\ abortedReqIds = {}
  /\ lastScheduleEmpty = FALSE /\ newRequestFirst = FALSE
  /\ pc = "idle"
  /\ round = EmptyRound
  /\ executing = NoBatch

-----------------------------------------------------------------------------
(* Other threads *)

(* Mutant: a prompt may already have the maximal length. *)
CheckLengthOffByOne(n) == n <= maxSeqLen

(* The length check when the sequence group is built from a request. *)
CheckLength(n) == n < maxSeqLen

(* AddSeqGroup; seqIds are handed out in the order of arrival. *)
AddRequest(r, n) ==
  /\ status[r] = "NONE" /\ \A q \in Reqs : q < r => status[q] # "NONE"
  /\ CheckLength(n)
  /\ status' = [status EXCEPT ![r] = "WAITING"]
  /\ len' = [len EXCEPT ![r] = n]
  /\ prompt' = [prompt EXCEPT ![r] = n]
  /\ waiting' = Append(waiting, r)
  /\ UNCHANGED <<running, swapped, blockVars, clock, reportVars, flagVars, pc, round, executing>>

AbortRequest(r) ==
  /\ Live(r) /\ r \notin abortedQueue \cup abortedReqIds
  /\ abortedQueue' = abortedQueue \cup {r}
  /\ UNCHANGED <<queueVars, status, len, prompt, blockVars, clock, finishedQueue, finishedSeqIds,
                 abortedReqIds, flagVars, pc, round, executing>>

(* Time passes for a request that waits for its prefill: first             *)
(* maxQueueDelayMicroseconds, then maxFirstTokenWaitTime.                  *)
Wait(r) ==
  /\ status[r] = "WAITING" /\ clock[r] < 2
  /\ clock' = [clock EXCEPT ![r] = @ + 1]
  /\ UNCHANGED <<queueVars, status, len, prompt, blockVars, reportVars, flagVars, pc, round, executing>>

(* Entry4Executor: the batch's tokens replace the placeholders, and the    *)
(* sequences that end with them, regularly or by an exception, are         *)
(* reported.  The text generator ends a sequence that has maxSeqLen        *)
(* tokens, and any other at its will.                                      *)
Respond ==
  /\ executing # NoBatch
  /\ \E ended \in SUBSET executing.seqs :
       /\ {r \in executing.seqs : len[r] >= maxSeqLen} \subseteq ended
       /\ finishedQueue' = finishedQueue \cup ended
  /\ executing' = NoBatch
  /\ UNCHANGED <<queueVars, status, len, prompt, blockVars, clock, abortedQueue, finishedSeqIds,
                 abortedReqIds, flagVars, pc, round>>

-----------------------------------------------------------------------------
(* The start of a round *)

ShouldImmediatePrefill ==
  /\ waiting # <<>>
  /\ \/ queueDelayRaised /\ Len(waiting) >= maxPrefillBatchSize
     \/ clock[Head(waiting)] >= 1

(* Mutant: an empty round does not give way to decoding. *)
DecidePDPriorityStubborn ==
  IF \/ swapped # <<>>
     \/ ~ShouldImmediatePrefill
     \/ freeNpu < (PRESERVED_PERCENT_FOR_DECODE * npuBlockNum) \div 100
    THEN "DECODE_FIRST" ELSE "PREFILL_FIRST"

DecidePDPriority ==
  IF \/ lastScheduleEmpty /\ running # <<>>
     \/ swapped # <<>>
     \/ ~ShouldImmediatePrefill
     \/ freeNpu < (PRESERVED_PERCENT_FOR_DECODE * npuBlockNum) \div 100
    THEN "DECODE_FIRST" ELSE "PREFILL_FIRST"

(* FetchFinishedSeqIds (with FetchExceptionSeqIds) and FetchAbortedReqIds: *)
(* PopAndSave_ empties the queues that the other threads fill.             *)
FetchReports ==
  /\ finishedSeqIds' = finishedSeqIds \cup finishedQueue /\ finishedQueue' = {}
  /\ abortedReqIds' = abortedReqIds \cup abortedQueue /\ abortedQueue' = {}

(* The loop's gate, the Fetch calls, and the beginning of Schedule. *)
StartRound ==
  /\ pc = "idle" /\ executing = NoBatch
  /\ FetchReports
  /\ round' = [EmptyRound EXCEPT !.mode = DecidePDPriority]
  /\ pc' = "dequeue"
  /\ UNCHANGED <<queueVars, status, len, prompt, blockVars, clock, flagVars, executing>>

MaxNumSeqs == IF round.mode = "PREFILL_FIRST" THEN maxPrefillBatchSize ELSE maxBatchSize
MaxNumForCurIter == PREPARE_DATA_EXPANSION_FACTOR * MaxNumSeqs

(* The queue that the next candidate comes from, if there is one. *)
DequeueFrom ==
  CASE round.mode = "PREFILL_FIRST" /\ waiting # <<>> /\ Len(round.waiting) < MaxNumForCurIter -> "waiting"
    [] round.mode = "DECODE_FIRST" /\ running # <<>> /\ Len(round.running) < MaxNumForCurIter -> "running"
    [] /\ round.mode = "DECODE_FIRST" /\ swapped # <<>>
       /\ running = <<>> \/ Len(round.running) >= MaxNumForCurIter
       /\ Len(round.swapped) < MaxNumForCurIter - Len(round.running) -> "swapped"
    [] OTHER -> "none"

(* ClearSeqGrp: blocks, reports and the sequence's data are dropped. *)
ClearSeqGrps(S) ==
  /\ status' = [r \in Reqs |-> IF r \in S THEN "FINISH" ELSE status[r]]
  /\ freeNpu' = freeNpu + Cardinality(BlocksHeld("RUNNING", S))
  /\ freeCpu' = freeCpu + Cardinality(BlocksHeld("SWAPPED", S))
  /\ table' = [r \in Reqs |-> IF r \in S THEN 0 ELSE table[r]]
  /\ len' = [r \in Reqs |-> IF r \in S THEN 0 ELSE len[r]]
  /\ prompt' = [r \in Reqs |-> IF r \in S THEN 0 ELSE prompt[r]]
  /\ clock' = [r \in Reqs |-> IF r \in S THEN 0 ELSE clock[r]]
  /\ finishedSeqIds' = finishedSeqIds \ S
  /\ abortedReqIds' = abortedReqIds \ S

Ended(r) == r \in abortedReqIds \cup finishedSeqIds

(* Mutant: only a request that runs is checked for its end. *)
DequeueUnchecked(q) ==
  LET r == CASE q = "waiting" -> Head(waiting) [] q = "running" -> Head(running) [] OTHER -> Head(swapped)
      dst == IF q = "waiting" /\ HasOutput(r) THEN "recompute" ELSE q
  IN  /\ waiting' = IF q = "waiting" THEN Tail(waiting) ELSE waiting
      /\ running' = IF q = "running" THEN Tail(running) ELSE running
      /\ swapped' = IF q = "swapped" THEN Tail(swapped) ELSE swapped
      /\ IF Ended(r) /\ q = "running"
           THEN ClearSeqGrps({r}) /\ UNCHANGED round
           ELSE /\ round' = [round EXCEPT ![dst] = Append(@, r)]
                /\ UNCHANGED <<status, len, prompt, blockVars, clock, finishedSeqIds, abortedReqIds>>

(* Dequeue, and DequeueWaiting, which puts the requests to be recomputed   *)
(* behind the new ones: a request whose life has ended is wrapped up, any  *)
(* other becomes a candidate.                                              *)
Dequeue(q) ==
  LET r == CASE q = "waiting" -> Head(waiting) [] q = "running" -> Head(running) [] OTHER -> Head(swapped)
      dst == IF q = "waiting" /\ HasOutput(r) THEN "recompute" ELSE q
  IN  /\ waiting' = IF q = "waiting" THEN Tail(waiting) ELSE waiting
      /\ running' = IF q = "running" THEN Tail(running) ELSE running
      /\ swapped' = IF q = "swapped" THEN Tail(swapped) ELSE swapped
      /\ IF Ended(r)
           THEN ClearSeqGrps({r}) /\ UNCHANGED round
           ELSE /\ round' = [round EXCEPT ![dst] = Append(@, r)]
                /\ UNCHANGED <<status, len, prompt, blockVars, clock, finishedSeqIds, abortedReqIds>>

PrepCandidates ==
  /\ pc = "dequeue"
  /\ DequeueFrom # "none"
  /\ Dequeue(DequeueFrom)
  /\ UNCHANGED <<finishedQueue, abortedQueue, flagVars, pc, executing>>

ApplyPolicy ==
  /\ pc = "dequeue"
  /\ DequeueFrom = "none"
  /\ round' = [round EXCEPT !.waiting = @ \o round.recompute, !.recompute = <<>>]
  /\ pc' = IF round.mode = "PREFILL_FIRST" THEN "waiting" ELSE "running"
  /\ UNCHANGED <<queueVars, status, len, prompt, blockVars, clock, reportVars, flagVars, executing>>

-----------------------------------------------------------------------------
(* FcfsPolicy *)

(* SchedulingBudget; a request that is swapped in adds no sequence to it. *)
CanSchedule(numNewTokens) ==
  /\ round.tokens + numNewTokens <= Max({maxSeqLen, maxPrefillTokens})
  /\ Len(round.decode) + Len(round.prefill) + 1 <= MaxNumSeqs

BlocksToAppend(r) == BlocksFor(len[r]) - BlocksFor(table[r])

(* ApplyToRunningQueue: the front request gets its slot... *)
CanRunFront ==
  /\ pc = "running" /\ round.running # <<>>
  /\ CanSchedule(1)

AppendFront ==
  LET r == Head(round.running)
  IN  /\ CanRunFront
      /\ BlocksToAppend(r) <= freeNpu /\ ~newRequestFirst
      /\ freeNpu' = freeNpu - BlocksToAppend(r)
      /\ table' = [table EXCEPT ![r] = len[r]]
      /\ round' = [round EXCEPT !.running = Tail(@), !.decode = Append(@, r), !.tokens = @ + 1]
      /\ UNCHANGED <<queueVars, status, len, prompt, freeCpu, clock, reportVars, flagVars, pc, executing>>

(* ... or the last candidate, in the end the front itself, is preempted.   *)
MustPreempt ==
  /\ CanRunFront
  /\ BlocksToAppend(Head(round.running)) > freeNpu \/ newRequestFirst

Victim == Last(round.running)

(* Mutant: the swap space is not asked for. *)
CanSwapOutAlways(r) == TRUE

CanSwapOut(r) == BlocksFor(len[r]) <= freeCpu

(* Preempt: a swap as long as the count and the swap space allow one, else *)
(* recomputation.                                                          *)
PreemptionMode ==
  IF Len(round.swappedOut) < maxPreemptCount /\ CanSwapOut(Victim) THEN "SWAP" ELSE "RECOMPUTE"

PreemptBySwap ==
  /\ MustPreempt /\ PreemptionMode = "SWAP"
  /\ status' = [status EXCEPT ![Victim] = "SWAPPED"]
  /\ freeNpu' = freeNpu + BlocksFor(table[Victim])
  /\ freeCpu' = freeCpu - BlocksFor(table[Victim])
  /\ round' = [round EXCEPT !.running = Front(@), !.swappedOut = Append(@, Victim)]
  /\ newRequestFirst' = FALSE
  /\ UNCHANGED <<queueVars, len, prompt, table, clock, reportVars, lastScheduleEmpty, pc, executing>>

(* Mutant: the preempted request keeps its blocks. *)
PreemptByRecomputeUnfreed ==
  /\ MustPreempt /\ PreemptionMode = "RECOMPUTE"
  /\ status' = [status EXCEPT ![Victim] = "WAITING"]
  /\ table' = [table EXCEPT ![Victim] = 0]
  /\ round' = [round EXCEPT !.running = Front(@), !.preempted = Append(@, Victim)]
  /\ newRequestFirst' = FALSE
  /\ UNCHANGED <<queueVars, len, prompt, freeNpu, freeCpu, clock, reportVars, lastScheduleEmpty, pc, executing>>

PreemptByRecompute ==
  /\ MustPreempt /\ PreemptionMode = "RECOMPUTE"
  /\ status' = [status EXCEPT ![Victim] = "WAITING"]
  /\ freeNpu' = freeNpu + BlocksFor(table[Victim])
  /\ table' = [table EXCEPT ![Victim] = 0]
  /\ round' = [round EXCEPT !.running = Front(@), !.preempted = Append(@, Victim)]
  /\ newRequestFirst' = FALSE
  /\ UNCHANGED <<queueVars, len, prompt, freeCpu, clock, reportVars, lastScheduleEmpty, pc, executing>>

(* ApplyToSwappedQueue follows only if nothing was preempted. *)
RunningDone ==
  /\ pc = "running"
  /\ ~CanRunFront
  /\ pc' = IF round.preempted = <<>> /\ round.swappedOut = <<>> THEN "swapped" ELSE "backfill"
  /\ UNCHANGED <<queueVars, status, len, prompt, blockVars, clock, reportVars, flagVars, round, executing>>

CanSwapIn(r) == BlocksFor(len[r]) <= freeNpu

CanSwapInFront ==
  /\ pc = "swapped" /\ round.swapped # <<>>
  /\ CanSwapIn(Head(round.swapped))
  /\ CanSchedule(1)

(* Mutant: the request stays among the candidates. *)
SwapInKept ==
  LET r == Head(round.swapped)
  IN  /\ CanSwapInFront /\ status[r] = "SWAPPED"
      /\ status' = [status EXCEPT ![r] = "RUNNING"]
      /\ freeNpu' = freeNpu - BlocksFor(len[r])
      /\ freeCpu' = freeCpu + BlocksFor(table[r])
      /\ table' = [table EXCEPT ![r] = len[r]]
      /\ round' = [round EXCEPT !.swappedIn = Append(@, r), !.tokens = @ + 1]
      /\ UNCHANGED <<queueVars, len, prompt, clock, reportVars, flagVars, pc, executing>>

(* SwapIn and AppendSlots. *)
SwapIn ==
  LET r == Head(round.swapped)
  IN  /\ CanSwapInFront
      /\ status' = [status EXCEPT ![r] = "RUNNING"]
      /\ freeNpu' = freeNpu - BlocksFor(len[r])
      /\ freeCpu' = freeCpu + BlocksFor(table[r])
      /\ table' = [table EXCEPT ![r] = len[r]]
      /\ round' = [round EXCEPT !.swapped = Tail(@), !.swappedIn = Append(@, r), !.tokens = @ + 1]
      /\ UNCHANGED <<queueVars, len, prompt, clock, reportVars, flagVars, pc, executing>>

SwappedDone ==
  /\ pc = "swapped"
  /\ ~CanSwapInFront
  /\ pc' = "backfill"
  /\ UNCHANGED <<queueVars, status, len, prompt, blockVars, clock, reportVars, flagVars, round, executing>>

(* ApplyToWaitingQueue: a request that is recomputed and would take every  *)
(* free block has to wait.                                                 *)
WouldTakeAll(r) == BlocksFor(len[r]) = freeNpu /\ HasOutput(r)

CanAdmitFront ==
  /\ pc = "waiting" /\ round.waiting # <<>>
  /\ LET r == Head(round.waiting)
     IN  ~WouldTakeAll(r) /\ BlocksFor(len[r]) <= freeNpu /\ CanSchedule(len[r])

AllocateAndSetRunning ==
  LET r == Head(round.waiting)
  IN  /\ CanAdmitFront
      /\ status' = [status EXCEPT ![r] = "RUNNING"]
      /\ freeNpu' = freeNpu - BlocksFor(len[r])
      /\ table' = [table EXCEPT ![r] = len[r]]
      /\ round' = [round EXCEPT !.waiting = Tail(@), !.prefill = Append(@, r), !.tokens = @ + len[r]]
      /\ UNCHANGED <<queueVars, len, prompt, freeCpu, clock, reportVars, flagVars, pc, executing>>

(* A new request that does not fit and has waited too long makes the next  *)
(* decode round preempt.                                                   *)
WaitingDone ==
  /\ pc = "waiting"
  /\ ~CanAdmitFront
  /\ newRequestFirst' =
       \/ newRequestFirst
       \/ /\ round.waiting # <<>>
          /\ LET r == Head(round.waiting)
             IN  BlocksFor(len[r]) > freeNpu /\ ~HasOutput(r) /\ clock[r] = 2
  /\ pc' = "backfill"
  /\ UNCHANGED <<queueVars, status, len, prompt, blockVars, clock, reportVars, lastScheduleEmpty, round, executing>>

-----------------------------------------------------------------------------
(* The end of a round *)

Batch == ToSet(round.decode \o round.swappedIn \o round.prefill)

(* Mutant: the candidates that were not scheduled go to the end. *)
BackfillAtBack ==
  /\ waiting' = waiting \o round.preempted \o SortedBySeqId(ToSet(round.waiting))
  /\ running' = running \o SortedBySeqId(ToSet(round.decode \o round.swappedIn)) \o round.prefill
                  \o SortedBySeqId(ToSet(round.running))
  /\ swapped' = swapped \o round.swappedOut \o SortedBySeqId(ToSet(round.swapped))

(* BackfillConcurrentQueue: candidates that were not scheduled return to   *)
(* the front of their queue.                                               *)
BackfillConcurrentQueue ==
  /\ waiting' = SortedBySeqId(ToSet(round.waiting)) \o waiting \o round.preempted
  /\ running' = SortedBySeqId(ToSet(round.running)) \o running
                  \o SortedBySeqId(ToSet(round.decode \o round.swappedIn)) \o round.prefill
  /\ swapped' = SortedBySeqId(ToSet(round.swapped)) \o swapped \o round.swappedOut

(* Every scheduled sequence gets a placeholder for its next token. *)
AddNextTokenPlaceHolder == len' = [r \in Reqs |-> IF r \in Batch THEN len[r] + 1 ELSE len[r]]

(* Backfill, and what the loop does with the output: a batch, or a request *)
(* to move blocks only, is executed; without either the round was empty.   *)
EndRound ==
  LET isEmpty == Batch = {} /\ round.swappedOut = <<>>
  IN  /\ pc = "backfill"
      /\ BackfillConcurrentQueue
      /\ AddNextTokenPlaceHolder
      /\ executing' = IF isEmpty THEN NoBatch ELSE [none |-> FALSE, seqs |-> Batch]
      /\ lastScheduleEmpty' = isEmpty
      /\ pc' = "idle"
      /\ round' = EmptyRound
      /\ UNCHANGED <<status, prompt, blockVars, clock, reportVars, newRequestFirst>>

(* PauseScheduling: every request is aborted; the batch on the device is   *)
(* left to itself.                                                         *)
StopRunningRequest ==
  LET all == ToSet(waiting \o running \o swapped)
  IN  /\ pc = "idle" /\ all # {}
      /\ ClearSeqGrps(all)
      /\ waiting' = <<>> /\ running' = <<>> /\ swapped' = <<>>
      /\ UNCHANGED <<finishedQueue, abortedQueue, flagVars, pc, round, executing>>

SchedulerThread ==
  \/ StartRound \/ PrepCandidates \/ ApplyPolicy
  \/ AppendFront \/ PreemptBySwap \/ PreemptByRecompute \/ RunningDone
  \/ SwapIn \/ SwappedDone
  \/ AllocateAndSetRunning \/ WaitingDone
  \/ EndRound

Next ==
  \/ \E r \in Reqs : (\E n \in Prompts : AddRequest(r, n)) \/ AbortRequest(r) \/ Wait(r)
  \/ Respond
  \/ SchedulerThread
  \/ StopRunningRequest

Spec == Init /\ [][Next]_vars

(* The scheduler thread loops until the engine stops, the executor answers *)
(* every batch, and time passes.                                           *)
Fairness == WF_vars(SchedulerThread) /\ WF_vars(Respond) /\ \A r \in Reqs : WF_vars(Wait(r))
FairSpec == Spec /\ Fairness

-----------------------------------------------------------------------------
(* Types of the scheduler's state; neither allocator is overdrawn. *)
TypeOK ==
  /\ \A q \in {waiting, running, swapped} : q \in Seq(Reqs)
  /\ status \in [Reqs -> {"NONE", "WAITING", "RUNNING", "SWAPPED", "FINISH"}]
  /\ \A r \in Reqs : len[r] \in Nat /\ table[r] \in 0..len[r] /\ prompt[r] \in 0..len[r]
  /\ freeNpu \in 0..npuBlockNum /\ freeCpu \in 0..cpuBlockNum
  /\ clock \in [Reqs -> 0..2]
  /\ finishedQueue \cup abortedQueue \cup finishedSeqIds \cup abortedReqIds \subseteq Reqs
  /\ lastScheduleEmpty \in BOOLEAN /\ newRequestFirst \in BOOLEAN
  /\ pc \in {"idle", "dequeue", "running", "swapped", "waiting", "backfill"}

(* A live request is in exactly one queue or list of the round, one that   *)
(* its status agrees with, and any other request is in none: nothing is    *)
(* lost or duplicated by dequeuing, preempting, swapping and backfilling.  *)
EachInOnePlace ==
  LET at(st) == CASE st = "WAITING" -> waiting \o round.waiting \o round.recompute \o round.preempted
                  [] st = "RUNNING" -> running \o round.running \o round.decode \o round.swappedIn \o round.prefill
                  [] st = "SWAPPED" -> swapped \o round.swapped \o round.swappedOut
      times(r, s) == Cardinality({i \in DOMAIN s : s[i] = r})
  IN  \A r \in Reqs, st \in {"WAITING", "RUNNING", "SWAPPED"} :
        times(r, at(st)) = IF status[r] = st THEN 1 ELSE 0

(* The free blocks of each device are those that no block table holds.     *)
BlocksConserved ==
  /\ freeNpu + Cardinality(BlocksHeld("RUNNING", Reqs)) = npuBlockNum
  /\ freeCpu + Cardinality(BlocksHeld("SWAPPED", Reqs)) = cpuBlockNum
  /\ \A r \in Reqs : table[r] > 0 <=> status[r] \in {"RUNNING", "SWAPPED"}

(* No request outgrows maxSeqLen, though its end is only noticed when it   *)
(* is next dequeued: the branches for a sequence that can never be         *)
(* scheduled ("this should not happen") are indeed dead.                   *)
SequencesFit ==
  \A r \in Reqs : Live(r) => len[r] <= maxSeqLen /\ BlocksFor(len[r]) <= npuBlockNum

(* A request that was reported finished or aborted before the round is not *)
(* executed again, whichever queue it was in.                              *)
EndedNotExecuted ==
  executing # NoBatch => \A r \in executing.seqs : ~Ended(r)

(* New requests are first served in the order they came, though rounds     *)
(* take them off the queue, put them back and mix them with recomputed     *)
(* ones.                                                                   *)
FirstComeFirstServed ==
  [][\A r \in Reqs :
       status[r] = "WAITING" /\ status'[r] = "RUNNING" /\ ~HasOutput(r)
         => \A q \in Reqs : q < r => ~(status[q] = "WAITING" /\ ~HasOutput(q))]_vars

(* Every request that is added ends.                                       *)
EveryRequestEnds == \A r \in Reqs : Live(r) ~> status[r] = "FINISH"
=============================================================================
