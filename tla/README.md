# TLA+ models of MindIE-LLM

MindIE-LLM is an inference engine for large language models on Ascend NPUs. This
directory holds TLA+ specifications of the parts where its difficult state is:

* the C++ core that decides which request runs when and which KV-cache block it
  uses (`src/block_manager`, `src/scheduler`, `src/engine`);
* the Python process that executes the batches, as a pipeline of two threads over a
  store of sequence contexts (`mindie_llm/text_generator`, `mindie_llm/connector`);
* the shared-memory channel between the two (`src/executor/ipc_communicator.cpp`,
  `mindie_llm/connector/request_listener`);
* the links over which prefill and decode instances exchange KV caches
  (`mindie_llm/text_generator/utils/separate_deployment_engine.py`).

TLC checks them on small instances. TLAPS proves every safety property of these
components - allocators, evictor, block tables, scheduler, text generator, channel, link
worker - for any number of blocks, requests, sequences, ranks and peers; liveness is
checked by TLC.

Paths below are relative to the root of the repository.

## 1. The system

A request enters through the server and the LLM manager, becomes a
`SequenceGroup`, and waits in the scheduler of one data-parallel rank. A
scheduler thread per rank runs rounds: it takes candidates off its queues, lets
a policy choose a batch and allocate KV blocks, puts the rest back, and hands the
batch to the model processes. Their answer comes back on another thread and is
picked up at the next round.

Requests to the model processes of a data-parallel group are broadcast through
shared memory. In each process a listener thread reads them and puts them into the
queue of an inference thread, which composes the model's input, passes it to a
forward thread, and meanwhile works on the output of the batch before. The answer
to a batch therefore carries the tokens of the one before it. Commands for PD links
go to a thread of their own, which shares the link worker with two more.

| component | state it keeps | operations | interacts with |
|---|---|---|---|
| `HashLessBlockAllocator`, `RefCounter`, `CopyOnWriteTracker` | free list, counters, recorded copies, pool of block objects | allocate, append with copy-on-write, fork, free, swap | block tables |
| `PrefixCacheBlockAllocator`, `BlockComputedAttr` | the same, and hash-to-block map, touched blocks, active and computed flags | the same, and promotion of a full block, lookup, `MarkBlocksAsComputed` | evictor, block tables |
| `LRUEvictor` | candidates, priority queue with stale entries | `Add`, `Remove`, `Evict`, `Cleanup` | prefix-caching allocator |
| `CpuNpuBlockAllocator` | one allocator per device | dispatch, `Swap` | both allocators |
| `SelfAttnBlockManager`, `BlockTable`, trackers | a block table per sequence | `Allocate`, `AppendSlot`, `Free`, `SwapIn`, `SwapOut`, `GetCachedTokensNum` | scheduler, policy |
| `Scheduler` | queues `waiting_`, `running_`, `swapped_`, transfer map, sets of finished and aborted requests | `Schedule`, `LifeEndKVCleanup`, backfill, `StopRunningRequest` | engine, policy, block manager |
| `FcfsPolicy`, `SchedulingBudget` | budget and preemption counters of a round | `ApplyToWaitingQueue`, `ApplyToRunningQueue`, `ApplyToSwappedQueue`, `Preempt` | scheduler, block manager |
| `LlmEngine`, `ModelExecOutputHandler` | outstanding batches, queues between threads | `SchedulerThreadEntry`, `Entry4Executor`, `AbortRequests` | scheduler, executor |
| KV transfer (P and D instances) | `transferringMap_`, published and pulled caches | `ScheduleTransfer`, release | scheduler, executor |
| `PreScheduler`, `PostScheduler`, `DummyQuotaManager` | priorities and batch sizes of all ranks | all-gather in each round | scheduler threads of other ranks |
| `IPCCommunicator` and `SharedMemCommunication` | two shared buffers per channel, two semaphores per buffer and rank | `SendMessageViaSM`, `receive_message`, `send_response`, `HandleRcvMsg` | engine, inference thread |
| `PluginManager` (inference and forward thread) | input and output queue, sequences of the last batch | `generate_token_async`, `preprocess`, `postprocess`, `forward_loop` | context store, model |
| `TGInferContextStore`, `BatchContext`, `NdarrayContext` | pool of slots, map from sequences to slots, arrays of lengths and last tokens, flags of ended sequences | allocate, update, clear late, grow, reset | both threads |
| recovery commands (`Generator.execute_recover_command`) | pause flag | pause, reinitialise, start | context store, queues |
| `SeparateDeploymentWorker` (PD links) | link queue, window, communicators, status lists | `link`, `unlink_batch`, two worker threads | transfer engine, router |
| `LoraManager`, `LoadBalancer`, gRPC communicator, server, models and samplers | adapters, ranks, connections, tensors | | engine |

What is hard here, and what makes each component correct:

* **Reference counting.** Blocks change hands by fork, copy-on-write, promotion
  onto a cached block, eviction, swap and free. The counters must equal the
  block objects that name a block, and every block must be in one place; an error
  of one frees memory that is still read, or loses it for good.
* **Sharing by hash.** Two sequences may share a block only if the KV entries in
  it are right for both and have been written when the second one relies on them.
  The hash is taken, the block is marked computed and the entries are written at
  three different times, and with asynchronous scheduling the tokens are not
  even known when the hash is taken.
* **The lazy queue.** Stale entries must neither pass for live ones nor pile up,
  and a live one must never be lost: the scheduler counts candidates as blocks it
  can allocate.
* **Rounds against other threads.** Requests are finished, aborted and added while
  they are in any of three queues or in no queue because a round has taken them
  off. Nothing may be lost, duplicated, executed after its end or overtaken.
* **Progress.** Prefill and decode rounds, preemption in two modes and a reserve
  for decoding give way to each other; every request has to end all the same.
* **The pipeline.** When a batch is composed, the tokens of the batch before are not
  known and its ends not noticed. A sequence that has ended is part of one more
  batch, so its slot must outlive it; an abort or a preemption arrives somewhere in
  between; slots are reused. Every sequence must get its own tokens, in order.
* **The channel.** All ranks read one buffer, at their own pace, under semaphores that
  are taken one by one. No message may be torn, lost, doubled or combined with
  another one's, and nobody may wait for ever.
* **Links.** Threads hold a link in hand, outside every lock, while a command asks to
  remove it. A communicator nobody knows any more blocks its peer for good.

`PROJECT.json` lists every component with its status and every hazard at its line.

## 2. The modules

| module | models | composes |
|---|---|---|
| `HashLessBlockAllocator` | allocator without prefix caching, counter, copy-on-write tracker | |
| `PrefixCacheBlockAllocator` | allocator with prefix caching, computed attributes, the evictor as a set | |
| `Evictor` | what an evictor promises (abstract) | |
| `LRUEvictor` | the priority queue with lazy cleanup | implements `Evictor` |
| `KvCache` | block manager, block tables, lookup of cached tokens, KV memory | `INSTANCE PrefixCacheBlockAllocator` |
| `Scheduler` | engine loop, scheduler, FCFS policy, executor's answers | |
| `TextGenerator` | plugin manager, context store, output filter, recovery commands, and the engine as their caller | |
| `BroadcastChannel` | what executor and ranks rely on (abstract) | |
| `SharedMemChannel` | buffers, semaphores and the threads on both sides | implements `BroadcastChannel` |
| `SeparateDeployment` | link worker, its threads, the transfer engine as an environment | |
| `..._proofs` (eight modules) | theorems | extend the modules they are about |
| `MC...` | values of the constants for TLC | |

An operator marked "Mutant" is a faulty variant of the definition after it. Put in
place of that definition, it must make TLC report a violation; it shows that the
property it is paired with in `PROJECT.json` can fail. No specification uses it.

### HashLessBlockAllocator

`freeBlockIndices`, `refCounts`, `copyOnWrites`, `blockId` and `numTokens` are the
fields of the same names; `acquired` is the part of the object pool in use. There
is an action for each public operation: `AllocateBlock`,
`AllocateImmutableBlocks`, `Free`, `Fork`, `SwapOut`, `SwapIn`,
`ClearCopyOnWrites`, and three for an append: in place, with a copy, and with a
copy for which there is no block. The last one is an exception path: the shared
id is already released when `AllocateBlockId` throws. A call on several blocks
(`Fork`, `SwapIn`, ...) is one action on a set of objects. Tokens are counted.

### PrefixCacheBlockAllocator

`cachedBlocks`, `touchedBlocks` and `candidates` (the evictor's map) are as in the
code; `active` and `computed` are the flags of `BlockComputedAttr`. An allocation
takes one of three paths: no hash, the hash is cached (`ObtainCached`), the hash
is new (`ObtainNew`). A block id comes from the free list and, only if that is
empty, from the evictor, whose cache entry goes with it. `PromoteNew` and
`PromoteOntoCached` are the two outcomes of an append that fills a block.
`Release` sends a block to the evictor or to the free list. Where the code throws
if two structures disagree (`DecrRefCountCacheBlock`, `MayBeAllocateEvictedBlockId`)
the model has a guard, and `CacheConsistent` says that the guard never stops it.

### Evictor and LRUEvictor

`LRUEvictor` has the candidates and the queue as a bag of `BlockMetaData`; `Before`
is its ordering and entries that tie are popped in any order. `Evict` drops the
stale entries before the first that `Matches`. Times are integers and `Tolerance`
is the tolerance of `IsClose` in the same unit, because that is all the code uses
of the floating-point numbers. With the default `relTol` of 1e-6 and a Unix time in
seconds the tolerance is more than a thousand seconds. `Evictor` states the
promise: the victim was not accessed more than `Slack` later than any other
candidate.

### KvCache

A sequence has its `tokens`, the tokens in its block `table`, the number of
`written` ones (`numComputedTokens_`) and its stage. A round is a series of
`Admit`, `ContinuePrefill`, `EnsureEnoughSlots`/`AppendSlot` and `End`, closed by
`ExecuteBatch`. A call that touches several blocks takes an allocator action for
each; `job` records the call, and nothing interleaves with it because the scheduler
thread is sequential.

A KV entry is identified with what determines it: the tokens up to its position. A
hash is identified with the tokens that are hashed, so a hash collision is left out.
With `AsyncSchedule` the token of the last batch is not known when the table gets
it, and a placeholder takes its place and stays there: the scheduler corrects the
sequence's own tokens, but the correction of the table (`ReplaceTrailingPlaceHolder`) is
behind `USE_PREFIX_CACHE_WITH_PLACE_HOLDER`, which is false. With `ChunkSize < maxSeqLen` prefill is
chunked. Blocks that are free or evicted are blank, so that a read of them is
never right by accident.

### Scheduler

The three queues hold request numbers. `pc` follows the thread through a round:

| action | code |
|---|---|
| `StartRound` | the gate on outstanding batches, the `Fetch...` calls, `DecidePDPriority` |
| `PrepCandidates` | one dequeue; a request that has ended is wrapped up on the way (`LifeEndedWrapup_`) |
| `ApplyPolicy` | `FcfsPolicy::Apply` starts |
| `AppendFront`, `PreemptBySwap`, `PreemptByRecompute`, `RunningDone` | `ApplyToRunningQueue`, step by step |
| `SwapIn`, `SwappedDone` | `ApplyToSwappedQueue` |
| `AllocateAndSetRunning`, `WaitingDone` | `ApplyToWaitingQueue` |
| `EndRound` | backfill, placeholder, the batch goes to the executor, or `MarkLastScheduleEmpty` |
| `AddRequest`, `AbortRequest`, `Respond`, `Wait`, `StopRunningRequest` | other threads, time, pause |

Other threads' actions interleave with every step of a round. Blocks are counted,
which is exact without prefix caching and with one sequence per request: no block
is shared then. A request's waiting time is reduced to the two thresholds the code
compares it with (`clock`). The role is PnD, prefill goes first.

### TextGenerator

The state is grouped by owner: the engine's view of each sequence (`phase`, and the
`stream` of tokens it has received), the four queues, the inference thread, the context
store, recovery.

| action | code |
|---|---|
| `SchedulePrefill`, `ScheduleDecode`, `ExecuteDummy`, `EmptyRound` | a round of `SchedulerThreadEntry`: the batch first, then the cleanup of aborted and preempted sequences |
| `Receive` | the answer reaches the engine; a token for a preempted sequence is kept, one for an ended sequence dropped |
| `Preprocess` | `generate_token_async` up to `output_queue.get`: slots, first update, `join_context` |
| `Fetch` | the output of the batch before is taken, `_fill_in_model_result`, `input_queue.put` |
| `Postprocess` | `postprocess` of that output: ends, `update_context`, late clearing, the answer |
| `SeqCtrl` | a cleanup request: the sequences leave the map, their slots wait |
| `Forward` | one turn of `forward_loop`, closed only after the other thread's postprocess |
| `PauseEngine`, `ReinitNpu`, `StartEngine`, `ForwardFault` | recovery (only in `RecoverySpec`) |

A token is the pair of its sequence and position, and `Sample` gives the right token
only for the right input (last token, length, KV position), so any mix-up in slots,
masks or flags shows in `stream`. The pool is a stack, as in the code, because the last
slot freed is the next one used. `AllocateSlots` includes the growth of the arrays.

### BroadcastChannel and SharedMemChannel

One channel with its request and its response buffer. Each semaphore operation and
each half of a write or read (length, payload) is a step. A message is its number, in
the length as well as in the payload, so a torn read shows. `receiveAllRank_`, chosen
in `Init`, distinguishes the channels on which every rank writes its own slot from those on
which rank 0 writes and the others toggle semaphores. `Silent` requests (the cleanup) have
no answer. `Handle` stands for whatever the process does with a request. Its `verdict` is success,
failure (an error code in the answer) or invalid: `ParseResponse` refuses the answer (it cannot be parsed,
has a status other than 0 or an unknown type; the error answer of a link-status query is one),
`HandleRcvMsg` goes on without calling the handler, and the buffer is released all the same.
`collected` records every answer read, with its aggregated verdict: the handler sees those in which
no slot is invalid. `BroadcastChannel` is what the executor may assume: four counters.

The answers of all ranks are aggregated on both all-rank channels. For `pull_kv` `HandleRcvMsg`
does it. For a recovery command the answers come back rank by rank; on another
node `Communicator::AggregateToOneResponse` aggregates them, on the master the caller in
`executor.cpp` looks at all of them. A request that cannot be serialised or is too long for the
buffer is refused before any semaphore is taken and changes nothing, so it is a stuttering step.

### SeparateDeployment

A step is one critical section or one call of the transfer engine. `unlinking` is
`_unlink_after_queue_cleanup`, which two threads call; `fill` and `process` are the
worker threads with the item in their hands. The transfer engine is external: it
refuses a second link to a peer, may fail in every call, and settles the registration of
memory at some time. `stranded` and `unlinked` are history variables for the properties.
A peer has one device.

## 3. The runs

| run | instance | what it shows |
|---|---|---|
| `hashless` | 3 blocks, 4 objects, blocks of 2 tokens | counters, free list and copy-on-write agree with the objects in every order of calls, a failed append included |
| `prefix_cache` | 3 blocks, 4 objects, 3 hashes | every block is in one place; cache, evictor and objects agree; an entry in use stays |
| `lru_evictor` | 2 blocks, 3 times, 2 depths, tolerance 1, threshold 2 | the lazy queue implements the evictor up to the tolerance, finds every candidate and is bounded |
| `kv_cache` | 2 sequences, 3 blocks of 2 tokens, 2 token values, prompts up to 3, length up to 4 | each sequence finds its own KV entries; what counts as computed is written; the tables own their blocks |
| `kv_modes` | chunked and asynchronous, 2 sequences, 4 blocks of 2 tokens, 1 token value, prompts up to 4, length up to 5 | an allocation that has begun gets all its blocks; tables share a block only at the same place after the same prefix, placeholders included |
| `kv_async` | asynchronous, prompts up to 2 | **violated**: sequences share a block over a placeholder |
| `scheduler` | 3 requests, 3 NPU blocks, 1 CPU block, batches of 2, length up to 5 | nothing is lost, duplicated, overtaken, or executed after its end; no block is lost; no sequence outgrows its limit |
| `scheduler_live` | 2 requests, 4 NPU blocks, 2 CPU blocks, length up to 6 | every request ends |
| `text_generator` | 2 sequences, 1 usable slot growing to 3, prompt of 1, length up to 4, 1 preemption | own tokens in order, slots partitioned and never shared with a batch in flight, no leak, every batch answered, every sequence ends |
| `text_recovery` | the same, with one pause, reinitialisation and start | **violated**: a new request receives a token of an old batch |
| `shared_mem_channel` | 2 ranks, 3 requests of which the second is silent, both kinds of channel | one token per rank and buffer, requests and answers in order, with success, failure and discarded answers, everyone answered; implements the broadcast |
| `pd_link` | 2 peers, window of 1, 3 commands | communicators tracked, window bounded, success is up, every link settles |

**Why the bounds suffice.** With three blocks and four objects a block can have
several holders while another is free and a third cached; every kind of transfer
between two blocks, with a third involved as the victim, occurs. Blocks of two
tokens have a first, a last and no other slot, so each of "partly filled", "full"
and "last token unknown, earlier known" exists. Two sequences are enough for
sharing, since every property of `KvCache` is about a sequence and one block that
someone else has had. The evictor needs two blocks for an order and a third time to
distinguish "close" from "equal". In `scheduler` three blocks cannot hold two
sequences of full length, so both kinds of preemption occur (the single CPU block
makes the swap fail for a longer one), and a third request finds its way between.
In `text_generator` the pool starts with one usable slot, so the second sequence makes the
arrays grow, and a slot is reused as soon as a sequence has ended; lengths up to 4 give
three decode batches, enough for a prefill, a batch in flight and one that follows an
end. Three sequences were checked once (2.3 million states) with the same result. In
`shared_mem_channel` one request precedes and one follows the silent one, and two ranks can
be one message apart, which is the most the protocol allows for any number. In `pd_link`
a window of one is full whenever the process thread holds nothing, and three
commands allow a link, its removal and a second link to overlap.
In `kv_modes` a single token value makes prompts collide
as often as possible, and with four blocks one sequence can be short of a block in the middle of a
call while the other holds, or has left in the cache, the blocks of the same prompt.
`MaxCows`, `MaxPrompt`, `Times`, `Depths`, `Prompts`, `MaxPreempts`, `MaxCapacity`, `MaxRequests`
and `MaxCommands` are the only bounds that the code does not have; each is a constant.
`SYMMETRY` is used only where model values are compared for equality and where no liveness is checked.

**Small-instance limits.** With so few blocks the reserve for decoding
(`PRESERVED_PERCENT_FOR_DECODE`) is zero blocks, so that condition of
`DecidePDPriority` is never the deciding one. It appears in the model for a larger
instance.

**Deadlock.** `shared_mem_channel` and `pd_link` stop when the bounded number of requests or
commands is used up, and `text_recovery` may stop after its single recovery; `text_generator`
checks that the process never stops.

**Fairness.**

* `scheduler_live`: weak fairness of the scheduler thread, which loops until the engine
  stops; of `Respond`, because the executor answers every batch (a model process that
  dies takes the engine down with it); and of `Wait`, because time passes. Nothing is
  assumed about when a sequence ends on its own: the generator must end it only at
  `maxSeqLen`. The run sets `queueDelayRaised`, the setting under which prefill competes
  hardest with decoding; `scheduler` leaves it at its default.
* `text_generator`: weak fairness of both threads (endless loops), of the device (it
  finishes what it is given) and of the engine's handling of answers. Strong fairness of
  decode rounds and of the admission of each sequence stands for what `scheduler_live`
  checks: the scheduler does not starve a request and does not run dummies for ever.
* `shared_mem_channel`: weak fairness of each thread. Nothing makes the executor send, or a
  write fail or succeed.
* `pd_link`: weak fairness of the three threads, and that the engine does not leave the
  memory of a link pending for ever (it gives up after `link_total_time`). No command need
  come, and no call need succeed.

## 4. Findings

Each is a violation run and quotes its source in `PROJECT.json`.

1. `kv_async` - `IsReadyToCalcPrefixHash` looks only at a block's last token. With
   asynchronous scheduling a block with a placeholder further to the front is
   hashed and shared between sequences that differ at that place, so one decodes
   on the other's KV entries. The comment in `AppendTokenIds` takes for granted that
   a hashed block has no placeholder.
2. `text_recovery` - `CMD_START_ENGINE` flushes the pipeline only if it is empty. Normally
   `output_queue` holds the output of the last batch, and after a reinitialisation the
   first call applies it to the slot a new request has been given. (`reset_all_context`
   also pushes every slot on the pool without emptying it, so slots are there twice.)

Seen with other instances of the same modules, and recorded as notes of the hazards in
`PROJECT.json` rather than as runs:

* `KvCache` with chunked prefill (chunks of 2, prompts up to 4) violates `KvCoherent`: all blocks
  of a prompt are marked computed in the round of its first chunk; if the request
  ends before the later ones, the next request with that prompt skips them.
* `Scheduler` with 3 blocks and sequences of 6 tokens violates `EveryRequestEnds`: a recomputed request that
  would take exactly the free blocks is passed over, even if nothing else runs.
* `Scheduler` with batches of 1: requests that are swapped in do not count against `maxBatchSize`,
  so a decode batch has two.
* `LRUEvictor`: within the tolerance of `IsClose` a stale queue entry makes a recently used
  block the victim; `Evictor` states the promise with that slack.

Seen while reading, in code the models leave out: `_grow_capacity` of the contexts reads
`self.pad_rank_id`, which does not exist, and pads by the wrong widths when `scp_size > 1`
(`batch_context.py:402-408`); `receive_message` that raises after its acquire never gives the
buffer back (`shared_mem_communication.py:127`); the shutdown wakes the receiving thread by
raising its semaphores, so the last answer is delivered once more (`ipc_communicator.cpp:382`);
`dmi_role.cpp:714` says that links under way are subtracted from those to request, and the code
does not; `maxPreemptCount` limits one of the two kinds of preemption (`fcfs_policy.cpp:471`);
`AllocateImmutableBlocks` loses the ids it has taken if it runs out half-way
(`hashless_block_allocator.cpp:66`; its callers ask first).

## 5. The proofs

| theorem | statement |
|---|---|
| `HashLessBlockAllocator_proofs!TypeCorrect`, `CountsAreExact`, `FreeListIsExact` | `TypeOK`, `RefCountExact`, `FreeListExact` are invariant |
| `...!AppendsAreExclusive` | every step satisfies `AppendIsExclusive` |
| `PrefixCacheBlockAllocator_proofs!TypeCorrect`, `CountsAreExact`, `PlacesAreExact`, `ActiveIsExact` | `TypeOK`, `RefCountExact`, `BlocksPartitioned`, `ActiveExact` are invariant |
| `...!CacheIsConsistent`, `PrivateBlocks` | `CacheConsistent`, `PrivateUntilHashed` are invariant |
| `...!EntriesInUseStay` | every step satisfies `HeldEntriesStay` |
| `LRUEvictor_proofs!TypeCorrect`, `CandidatesAreQueued`, `QueueIsBounded` | `TypeOK`, `CandidatesQueued`, `QueueBounded` are invariant |
| `...!ImplementsEvictor` | `AbstractSpec`: the lazy queue implements `Evictor` |
| `SharedMemChannel_proofs!TypeCorrect`, `TokenIsUnique`, `RequestsArriveInOrder`, `AnswersArriveInOrder` | `TypeOK`, `OneToken`, `RequestsInOrder`, `AnswersInOrder` are invariant |
| `...!ImplementsBroadcast` | the channel implements the safety part of `BroadcastChannel` |
| `SeparateDeployment_proofs!TypeCorrect`, `CommsTracked`, `WindowIsBounded`, `SuccessfulIsUp` | `TypeOK`, `CommTracked`, `WindowBounded`, `SuccessIsUp` are invariant |
| `KvCache_proofs!TypeCorrect`, `TablesOwnTheirBlocks` | `TypeOK`, `TablesOwnBlocks` are invariant, in every mode |
| `...!AllocationNeverStuck`, `SharingIsByPrefix` | `AllocationsComplete`, `SharedPrefix` are invariant, in every mode |
| `...!EntriesCoherent`, `CachedIsComputed` | `KvCoherent`, `ComputedIsWritten` are invariant with synchronous scheduling and unchunked prefill |
| `Scheduler_proofs!TypeCorrect`, `OnePlace`, `BlockConservation` | `TypeOK`, `EachInOnePlace`, `BlocksConserved` are invariant |
| `...!SequencesFitAlways`, `EndedStaysOff` | `SequencesFit`, `EndedNotExecuted` are invariant |
| `...!ServedInOrder` | every step satisfies `FirstComeFirstServed` |
| `TextGenerator_proofs!TypeCorrect`, `SlotsPartitioned`, `InFlightOwns` | `TypeOK`, `SlotPartition`, `InFlightOwned` are invariant |
| `...!DecodeFinds`, `NoLeaks`, `StreamsExact` | `DecodeFindsContext`, `NoLeak`, `StreamExact` are invariant |

Assumptions. The allocators' theorems hold for any finite set of blocks and of objects, any
set of hashes and any block size (`AllocatorAssumption`, `PrefixCacheAssumption`: finiteness, and
that the invalid id and hash are not valid ones); those of the evictor for any finite set of blocks and
any times, tolerance and threshold (`EvictorAssumption`); those of the block tables for any block
size, sequence length, prompts and chunks, with as many objects as full tables need (`KvAssumption`);
those of the scheduler for any numbers of blocks and limits such that one sequence of full length fits
(`SchedulerAssumption`); those of the text generator for any number of sequences, any initial
capacity of at least one usable slot and any lengths (`TextGeneratorAssumption`); those of the channel
for any number of ranks and any set of silent requests (`ChannelAssumption`); those of the link worker
for any set of peers and of commands and any window (`LinkAssumption`). `MaxCapacity`, `MaxPreempts`,
`MaxCows`, `MaxRequests`, `MaxCommands` are arbitrary numbers in the theorems.

*Hashless.* The inductive invariant `IInv` is the types, `RefCountExact`, the free
list in terms of the counters (`FreeIsUncounted`), and that a pooled object names no
block. The last is needed because an object is taken from the pool without a look
at its id. Two lemmas say what a set of ids taken or given up does to the
counters (`TakeIds`, `GiveUpIds`), with cardinality facts of finite sets; every
action but copy-on-write and fork is one of the two.

*Prefix caching.* `IInv` adds where a block is, in terms of its counter (`Places`),
and that objects which name the same block have the same hash (`HoldersAgree`). That
is what makes `Release` right: the last holder's hash decides whether a block goes to
the evictor or to the free list, whoever the last holder is. `HoldersAgree` in turn needs
`PrivateUntilHashed`, since a promotion changes one object's hash only. Three lemmas
(`CountOnTake`, `CountOnDrop`, `CountOnMove`) carry the counting; each action then has
a lemma of its own, step by conjunct.

*Evictor.* Types and `CandidatesQueued` are inductive together. A candidate's own entry matches it,
so `Evict` never drops it on its way to the victim; and since the victim's entry comes
first among those that match, no candidate's own entry is older than the victim's. That is
the step of the refinement. For `QueueBounded` the size of the queue is the number of pairs of an
entry and a copy's number (`Copies`): `Add` brings one pair and then cleans up down to one
copy per candidate if it has gone over the bound, and nothing else brings any.

*Channel.* `OneToken` says that four places share one token per rank; as a sum it is
hard on the provers, so the invariant says it as a case split (`Exclusive`: the token is in
exactly one of the places). What a rank has received, and what is in the buffer, is then
determined by where its token is: a rank that has the token, or is about to get it, is one
message behind, and the buffer holds that message whole. The same is said of answers.
`ChannelInv` is the conjunction of these for both buffers. With it every step is an
abstract step or a stutter: all producer tokens being with the sender means that every
rank has taken the message before, and all consumer tokens with the receiver that
every rank has answered. `AnswersInOrder` needs more: which requests get an answer is counted
from the start (`Turn`, `Answerable`), and `AnswerInv` says of every rank that its k-th answer is
the outcome of the k-th such request, in the slot and after delivery.

*Block tables.* `KInv` is the invariant of the allocator, taken over from its own proof module,
and what the thread knows in the middle of a call: which objects of a sequence are
acquired, how far its table is behind its tokens, and how far `Allocate` or `Free` has come. With
it each step of `KvCache` is an allocator step whose guard holds, or leaves the allocator alone.
`AllocationsComplete` follows by counting: `CanAllocate` counts a block for every block of tokens, and a
step of the call lowers `NumFree` by one at most, whether its block is new, evicted, or cached and perhaps
a candidate of the evictor (when it is cached and held by another sequence, `NumFree` stays).
`SharedPrefix` needs `HashesSet`: the hash of every object is the one its sequence's tokens give, placeholders and
all, or none while the block is not full. The allocator's own invariant says that objects which name the same
block have the same hash, and an equal hash is an equal prefix. The entries need `SInv` on top: a table holds the sequence's own
tokens and the hash of a full block is that of its prefix (`TablesTrue`, `HashesTrue`); a round is
either prefill or decode (`Rounds`); a block cached in this round is not yet computed and belongs
to a sequence of the round (`Touched`); and the entries are right in what a sequence has
written and in every block cached in an earlier round (`WrittenRight`, `CachedRight`). The last is
what a prefill relies on when it skips a block, long after the writer has gone. Asynchronous
scheduling falsifies `TablesTrue` and chunked prefill `CachedRight`: the hypotheses of the two theorems are
exactly the modes in which section 4 has no counterexample.

*Scheduler.* `EachInOnePlace` is said with numbers: `Placed` counts the occurrences of a request
in the nine sequences a round uses and the three queues, and its status determines the sum of each
group. So each step is an addition and a subtraction, and nothing depends on where in a
queue a request is. `Conserved` relates the free blocks to a sum over tables; `NumHeld` is the
cardinality of a set of pairs, and a step changes one table. `EndedNotExecuted` needs
`CandidatesAlive`: no candidate of a round has ended, because the sets of reports are taken once, before
the round, and a round starts only with no batch on the device (`Phases`). `SequencesFit` needs
`FullIsReported`: a sequence of full length is on the device for the last time, or its end has been
reported. `FirstComeFirstServed` has an invariant of its own (`Fcfs`): new requests stand in the order of
arrival, the candidates before the queue, and everything else that waits has output already.

*Text generator.* `IInv` has a part about the store (the pool, the slots in the map and those waiting
for the late clearing are disjoint and complete) and about the pipeline (at most one batch in
each place, whose turn it is), and for each sequence `SInv`: who has the slot that a batch in flight
uses (`Owned`), when its flag is set (`Flags`), what the engine may think of it meanwhile
(`Phases`), when a cleanup may name it (`Cleanups`), what will clear it when it has ended (`Leaks`), and
where its next token is at every stage (`Exact`). `Owned` is the core: a sequence in the batch
before has its slot still, or was aborted, and then the slot is in the list that is cleared only
after that batch. `Flags` and `Cleanups` exclude that a slot is cleared under a batch that
is asked for; `Exact` then follows the length and the last token from the answer back through the
context to the composed input. The theorems are about `Spec`, without recovery commands, and
`text_recovery` shows why: after a reinitialisation `Owned` fails.

*Link worker.* `CommTracked` becomes inductive with two facts: every communicator has its
keeper unless its peer is stranded (`Tracked`), and the process thread calls `unlink` only for a
link it then marks failed (`UnlinksWhenFailed`). `Drop` is a recursive function on
sequences; that it yields a sequence over the same set is shown by a least counterexample, since
the induction theorems of the library take an operator. `SuccessIsUp` speaks of peers
that no command has asked to unlink. Of those, at most one thread has the link in hand
(`OneLink`), and the link stays in the communicator map from the moment it is made until it is listed as
successful (`Known`).

Some definitions have the form they have so that the provers can use them: sums and orders are
cardinalities or a `CHOOSE` of a sorted sequence rather than recursive operators (`BlocksHeld`,
`SortedBySeqId`, `Ascending`, `Turn`, `Copies`). Where a fact about them needs an induction (a sorted
sequence of a finite set exists), a least counterexample takes its place.

The type invariants of the allocators, evictor, channel and link worker, `ActiveExact` and
`PrivateUntilHashed` are proved and not repeated in the runs.

Only model-checked:

* liveness, which is outside the prover's reach: `EveryRequestEnds`, `EverySequenceEnds`,
  `EveryRequestAnswered`, `Answered`, `EveryLinkSettles`, and the liveness half of `BroadcastSpec`;
* what happens after a recovery command (`RecoverySpec`);
* `KvCache` with asynchronous scheduling or chunked prefill beyond the theorems of every mode.

## 6. Not modelled

* **Fork with prefix caching, `ResetPrefixCache`, `LRUEvictor::Update`,
  `ReplaceToken`**: no caller outside tests, or behind a constant that is false.
* **Sequence- and context-parallel ranks, speculative slots, beam search, splitfuse batches in
  the text generator**: the block tables of one rank and one sequence per request are
  modelled, and one token per sequence and batch.
* **The alternative runner path** (`model_runner_exp`), **layerwise disaggregation** and error
  codes that reach the plugin manager without a pause.
* **Time-division and latency policies, dynamic batch size**: floating-point
  estimates of measured latencies.
* **Start, shutdown and error channel of the shared-memory communication; gRPC; server;
  configuration**: transport, generated code, parsing. What the scheduler sees of them (a batch is
  answered, lengths are checked) is in the models.
* **`pull_kv`, `unlink_all`, `finalize` of the link worker, and `dmi_role.cpp`**, which decides
  what to link.
* **Models, samplers, kernels, adapters, examples**: most of the repository's Python lines.
  They are numerical code without a protocol; a model of them would have nothing to check.

* **Inside modelled components.** `postprocess` waits for `launch_done` of the next batch when
  nothing is paused; it ends when the forward thread has launched the batch it was just given, or
  with a warning after a timeout, and only delays the step. Dummies with tokens pending, which a P or D role may be given (`llm_engine.cpp:606`,
  `router_impl.py:526`), since the role is PnD. `LinkResult.remove_from_current_list` looks for
  an entry and removes it without its class's lock; it is one step here, so the removal of
  an entry that another thread has just removed is left out. `pd_role` returns early if `unlink_batch` raises
  (`router_impl.py:449`), which leaves the links of the same request unmade: no command need come in the
  model, so this is a shorter series of commands. `switch_role` changes no link state.

## 7. Plan

Done: the modules of section 2 and the theorems of section 5.

Next, in this order:

1. `KvTransfer`: the P and D roles, `transferringMap_`, publish, pull, release, and the
   races of abort, finish and pulled notification, a failed pull included.
2. `Scheduler` with results that arrive one round late, composed with `TextGenerator`: the
   number of placeholders (`ReplacePlaceHolderWithToken`) and chunked prefill with
   `isDiscardOutputToken`.
3. The barrier of `PreScheduler` and `DummyQuotaManager` between ranks (deadlock, progress).
4. `CpuNpuBlockAllocator`: the pairing of the two halves of a swap, as a composition of two
   allocators that implements the counted swap of `Scheduler`.
5. `LoraManager`: loading and unloading against requests in flight; `LoadBalancer`.
6. Theorems: the part of the text generator's invariant that survives a recovery, and what
   remains of `KvCoherent` with chunked prefill.
