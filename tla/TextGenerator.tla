---------------------------- MODULE TextGenerator ----------------------------
(***************************************************************************)
(* The model process of one rank with asynchronous inference: the          *)
(* inference thread (RequestRouter.do_inference, Generator.generate_token, *)
(* PluginManager.generate_token_async), the forward thread                 *)
(* (PluginManager.forward_loop), the context store with its pool of slots  *)
(* (TGInferContextStore, BatchContext, NdarrayContext), the recovery       *)
(* commands, and as much of the engine as decides what the process is      *)
(* asked to do.                                                            *)
(*                                                                         *)
(* The two threads form a pipeline: while batch n is computed, the         *)
(* inference thread works on the output of batch n-1, and the answer to    *)
(* batch n carries the tokens of batch n-1.  A sequence that ends is       *)
(* therefore part of one more batch, and its slot must outlive it.         *)
(*                                                                         *)
(* A token is the sequence and the position it belongs to, so a token      *)
(* taken from another sequence, lost or repeated is visible.  One token is *)
(* generated per sequence and batch (no speculation, no beam search), and  *)
(* a batch is a prefill or a decode batch (no splitfuse).                  *)
(***************************************************************************)
EXTENDS Integers, Sequences, FiniteSets, SequencesExt, FiniteSetsExt, Functions

CONSTANTS
  Seqs,            \* sequence ids
  base_capacity,   \* slots the context grows by; slot 0 is reserved
  PromptLen,       \* tokens of a prompt
  max_seq_len,
  MaxPreempts,     \* bound: preemptions by recomputation
  MaxCapacity      \* bound: slots of the model's arrays

ASSUME TextGeneratorAssumption ==
  /\ IsFiniteSet(Seqs)
  /\ base_capacity \in Nat \ {0, 1}
  /\ PromptLen \in Nat \ {0} /\ max_seq_len \in Nat /\ max_seq_len > PromptLen
  /\ MaxPreempts \in Nat /\ MaxCapacity \in Nat /\ MaxCapacity >= base_capacity

Slots == 0 .. MaxCapacity - 1
None == <<>>

VARIABLES
  (* the engine's view *)
  phase,                      \* of a sequence: absent, waiting, running, preempted, ended
  stream,                     \* the tokens received for it
  outstanding,                \* a batch has not been answered (asyncBatchNum_)
  TGCleanupSeqIds,            \* aborted, and not yet reported to the process
  preempts,
  (* the queues between the threads *)
  inference_queue, input_queue, output_queue, responses,
  (* the inference thread *)
  pc,                         \* idle; fetch: before output_queue.get; post: after input_queue.put
  current,                    \* the batch of the call
  model_output_wrapper,       \* the output of the batch before it
  last_sequence_ids,
  (* the context store *)
  pool, capacity,             \* free slots (a stack), and all slots
  sequence_context_slot_map,
  context,                    \* the arrays, by slot
  pending_cleanup_flags,      \* slots whose sequence ended in the last round
  aborted_context_handles,
  (* recovery *)
  is_inference_pause, recovery

engineVars == <<phase, stream, outstanding, TGCleanupSeqIds, preempts>>
storeVars == <<pool, capacity, sequence_context_slot_map, context, pending_cleanup_flags,
               aborted_context_handles>>
threadVars == <<pc, current, model_output_wrapper, last_sequence_ids>>
recoveryVars == <<is_inference_pause, recovery>>
vars == <<engineVars, inference_queue, input_queue, output_queue, responses, threadVars,
          storeVars, recoveryVars>>

Blank == [last_input_ids |-> None, seq_lens |-> 0, cached_seq_idx |-> 0]

(* ModelOutputWrapper.make_empty: what the first call finds in the queue.  *)
EmptyOutput == [kind |-> "empty", seqs |-> {}, cache_ids |-> None, tokens |-> None,
                eos |-> {}, is_mock |-> FALSE]

Init ==
  /\ phase = [s \in Seqs |-> "absent"] /\ stream = [s \in Seqs |-> <<>>]
  /\ outstanding = FALSE /\ TGCleanupSeqIds = {} /\ preempts = 0
  /\ inference_queue = <<>> /\ input_queue = <<>> /\ responses = <<>>
  /\ output_queue = <<EmptyOutput>>
  /\ pc = "idle" /\ current = None /\ model_output_wrapper = None /\ last_sequence_ids = {}
  /\ pool = [i \in 1 .. base_capacity - 1 |-> i] /\ capacity = base_capacity
  /\ sequence_context_slot_map = None
  /\ context = [h \in Slots |-> Blank]
  /\ pending_cleanup_flags = {} /\ aborted_context_handles = <<>>
  /\ is_inference_pause = FALSE /\ recovery = "none"
-----------------------------------------------------------------------------
(* The engine.                                                             *)

With(status) == {s \in Seqs : phase[s] \in status}

(* A new request is scheduled at some later round.                         *)
AddRequest(s) ==
  /\ phase[s] = "absent" /\ recovery \in {"none", "done"}
  /\ phase' = [phase EXCEPT ![s] = "waiting"]
  /\ UNCHANGED <<stream, outstanding, TGCleanupSeqIds, preempts, inference_queue, input_queue,
                 output_queue, responses, threadVars, storeVars, recoveryVars>>

AbortRequest(s) ==
  /\ phase[s] \in {"waiting", "running", "preempted"}
  /\ phase' = [phase EXCEPT ![s] = "ended"]
  /\ TGCleanupSeqIds' = TGCleanupSeqIds \cup {s}
  /\ UNCHANGED <<stream, outstanding, preempts, inference_queue, input_queue, output_queue,
                 responses, threadVars, storeVars, recoveryVars>>

(* The batch first, then the cleanup of what was aborted or preempted: the *)
(* order of the two calls in SchedulerThreadEntry.                         *)
Send(kind, seqs, cleanup) ==
  /\ inference_queue' = inference_queue
       \o <<[type |-> "MODEL_INFER", kind |-> kind, seqs |-> seqs,
             lens |-> [s \in seqs |-> PromptLen + Len(stream[s])]]>>
       \o (IF cleanup = {} THEN <<>> ELSE <<[type |-> "TEXT_GENERATOR_CLEANUP", seqs |-> cleanup]>>)
  /\ outstanding' = TRUE /\ TGCleanupSeqIds' = {}
  /\ UNCHANGED <<stream, input_queue, output_queue, responses, threadVars, storeVars, recoveryVars>>

(* A round of the engine's loop.  It waits for the answer to the batch     *)
(* before (MAX_ASYNC_SCHEDULE_TIMES = 1).  The sequences of a prefill      *)
(* batch are new, or were preempted and come with the tokens they have.    *)
MayRound == ~outstanding /\ recovery \in {"none", "done"}

SchedulePrefill(seqs) ==
  /\ MayRound /\ seqs # {} /\ seqs \subseteq With({"waiting", "preempted"})
  /\ phase' = [s \in Seqs |-> IF s \in seqs THEN "running" ELSE phase[s]]
  /\ Send("prefill", seqs, TGCleanupSeqIds)
  /\ UNCHANGED preempts

(* All running sequences decode, but for the victims of a preemption.      *)
ScheduleDecode(victims) ==
  /\ MayRound /\ victims \subseteq With({"running"}) /\ With({"running"}) \ victims # {}
  /\ preempts + Cardinality(victims) <= MaxPreempts
  /\ preempts' = preempts + Cardinality(victims)
  /\ phase' = [s \in Seqs |-> IF s \in victims THEN "preempted" ELSE phase[s]]
  /\ Send("decode", With({"running"}) \ victims, TGCleanupSeqIds \cup victims)

(* Other ranks have work; this one has none, or nothing it can admit.  In  *)
(* the PnD role a sequence that is running is in every round, so a dummy   *)
(* has no tokens pending before it; that differs for the P and D roles of  *)
(* a distributed instance, which are not modelled.                         *)
ExecuteDummy ==
  /\ MayRound /\ With({"running"}) = {}
  /\ Send("dummy", {}, TGCleanupSeqIds)
  /\ UNCHANGED <<phase, preempts>>

(* A round without a batch still sends the cleanup.                        *)
EmptyRound ==
  /\ MayRound /\ With({"running"}) = {} /\ TGCleanupSeqIds # {}
  /\ inference_queue' = Append(inference_queue,
                                [type |-> "TEXT_GENERATOR_CLEANUP", seqs |-> TGCleanupSeqIds])
  /\ TGCleanupSeqIds' = {}
  /\ UNCHANGED <<phase, stream, outstanding, preempts, input_queue, output_queue, responses,
                 threadVars, storeVars, recoveryVars>>

(* The answer: a token and perhaps an end for the sequences of the batch   *)
(* before the one that is answered.  A token for a preempted sequence is   *)
(* kept for its next prefill; one for a sequence that has ended is dropped.*)
Receive ==
  /\ responses # <<>>
  /\ LET r == Head(responses)
         got == {s \in r.seqs : phase[s] \in {"running", "preempted"}} IN
     /\ stream' = [s \in Seqs |-> IF s \in got THEN Append(stream[s], r.tokens[s]) ELSE stream[s]]
     /\ phase' = [s \in Seqs |-> IF s \in got \cap r.finished THEN "ended" ELSE phase[s]]
  /\ responses' = Tail(responses) /\ outstanding' = FALSE
  /\ UNCHANGED <<TGCleanupSeqIds, preempts, inference_queue, input_queue, output_queue,
                 threadVars, storeVars, recoveryVars>>
-----------------------------------------------------------------------------
(* The context store.                                                      *)

(* pop_context_handles: the map without the sequences.  Mutant: they stay. *)
WithoutNone(seqs) == sequence_context_slot_map
Without(seqs) == Restrict(sequence_context_slot_map, DOMAIN sequence_context_slot_map \ seqs)

(* allocate_slot, k times: from the top of the stack, and from new slots   *)
(* once it is empty.  Mutant: the capacity is not raised with the pool.    *)
AllocateSlotsSameCapacity(k) ==
  IF k <= Len(pool)
  THEN [slots |-> SubSeq(pool, Len(pool) - k + 1, Len(pool)),
        pool |-> SubSeq(pool, 1, Len(pool) - k), capacity |-> capacity]
  ELSE [slots |-> pool \o [i \in 1 .. k - Len(pool) |-> capacity + base_capacity - i],
        pool |-> [i \in 1 .. base_capacity - (k - Len(pool)) |-> capacity + i - 1],
        capacity |-> capacity]

AllocateSlots(k) ==
  LET need == k - Len(pool)
      grown == IF need <= 0 THEN 0 ELSE (need + base_capacity - 1) \div base_capacity
      lastRange == capacity + (grown - 1) * base_capacity
      fresh == [i \in 1 .. grown * base_capacity |-> capacity + i - 1] IN
  [slots |-> IF need <= 0 THEN SubSeq(pool, Len(pool) - k + 1, Len(pool))
             ELSE pool \o SubSeq(fresh, 1, (grown - 1) * base_capacity)
                       \o SubSeq(fresh, Len(fresh) - (need - (grown - 1) * base_capacity) + 1, Len(fresh)),
   pool |-> IF need <= 0 THEN SubSeq(pool, 1, Len(pool) - k)
            ELSE [i \in 1 .. grown * base_capacity - need |-> lastRange + i - 1],
   capacity |-> capacity + grown * base_capacity]

(* get_batch_context_handles: a prefill allocates a slot for a sequence    *)
(* that has none, in the order of the batch.                               *)
GetBatchContextHandles(seqs, is_prefill) ==
  LET new == seqs \ DOMAIN sequence_context_slot_map
      a == AllocateSlots(Cardinality(new)) IN
  /\ new # {} => is_prefill
  /\ a.capacity <= MaxCapacity
  /\ \E order \in Bijection(new, 1 .. Cardinality(new)) :
       sequence_context_slot_map' =
         [s \in DOMAIN sequence_context_slot_map \cup seqs |->
            IF s \in new THEN a.slots[order[s]] ELSE sequence_context_slot_map[s]]
  /\ pool' = a.pool /\ capacity' = a.capacity

(* update_context before a prefill.                                        *)
FirstUpdate(c, len) == [c EXCEPT !.seq_lens = len, !.cached_seq_idx = len - 1]

(* update_context with a token.                                            *)
Update(c, token) ==
  [last_input_ids |-> token, seq_lens |-> c.seq_lens + 1, cached_seq_idx |-> c.cached_seq_idx + 1]

(* clear_context_by_seq_ids, asynchronous: the slot stays taken until the  *)
(* next postprocess.  Mutant: it is freed at once.                         *)
ClearContextAtOnce(seqs) ==
  LET known == seqs \cap DOMAIN sequence_context_slot_map IN
  /\ pool' = pool \o SetToSeq({sequence_context_slot_map[s] : s \in known})
  /\ sequence_context_slot_map' = Without(seqs)
  /\ UNCHANGED <<capacity, context, pending_cleanup_flags, aborted_context_handles>>

ClearContextBySeqIds(seqs) ==
  LET known == seqs \cap DOMAIN sequence_context_slot_map IN
  /\ aborted_context_handles' =
       aborted_context_handles \o SetToSeq({sequence_context_slot_map[s] : s \in known})
  /\ sequence_context_slot_map' = Without(seqs)
  /\ UNCHANGED <<pool, capacity, context, pending_cleanup_flags>>

(* filter_finished_context: what was flagged and is still in the map.      *)
(* Mutant: the flags are not consulted, everything that ends is cleared.   *)
FilterAllFinished == {s \in DOMAIN sequence_context_slot_map :
                              \E t \in model_output_wrapper.eos : sequence_context_slot_map[s] = model_output_wrapper.cache_ids[t]}
FilterFinishedContext == {s \in DOMAIN sequence_context_slot_map :
                            sequence_context_slot_map[s] \in pending_cleanup_flags}

(* The flags after clear_finished_context.  Mutant: the flags are reset    *)
(* and not set.                                                            *)
NextFlagsForgotten(finished) == {}
NextFlags(finished) == finished \ pending_cleanup_flags

(* The order in which np.where finds the flagged slots.  (If one of them   *)
(* was aborted meanwhile, the code takes the others in the map's order;    *)
(* that only decides which free slot is handed out next.)                  *)
Ascending(S) == CHOOSE q \in [1 .. Cardinality(S) -> S] : \A i, j \in DOMAIN q : i < j => q[i] < q[j]

(* update_context, clear_finished_context and clear_aborted_context.       *)
UpdateStore(out, finished) ==
  LET cleared == FilterFinishedContext
      freed == Ascending({sequence_context_slot_map[s] : s \in cleared}) \o aborted_context_handles
      updated == [h \in Slots |->
                    IF \E s \in out.seqs : out.cache_ids[s] = h
                    THEN Update(context[h], out.tokens[CHOOSE s \in out.seqs : out.cache_ids[s] = h])
                    ELSE context[h]] IN
  /\ sequence_context_slot_map' = Without(cleared)
  /\ pool' = pool \o freed
  /\ context' = [h \in Slots |-> IF h \in Range(freed) THEN Blank ELSE updated[h]]
  /\ pending_cleanup_flags' =
       NextFlags({out.cache_ids[s] : s \in finished}) \ Range(aborted_context_handles)
  /\ aborted_context_handles' = <<>>
  /\ UNCHANGED capacity
-----------------------------------------------------------------------------
(* The inference thread.                                                   *)

(* join_context and the prefill branch of compose_model_inputs: what goes  *)
(* into the model.  A sequence of the last batch is a hit: its last token  *)
(* is still being computed, so its KV entry is one further.                *)
(* Mutant: the hits are not taken into account.                            *)
ComposeWithoutHits(req, s, c) ==
  IF req.kind = "prefill" THEN [token |-> <<s, req.lens[s] - 1>>, len |-> req.lens[s], pos |-> req.lens[s] - 1]
  ELSE [token |-> c.last_input_ids, len |-> c.seq_lens, pos |-> c.cached_seq_idx]
ComposeModelInput(req, s, c) ==
  IF req.kind = "prefill" THEN [token |-> <<s, req.lens[s] - 1>>, len |-> req.lens[s], pos |-> req.lens[s] - 1]
  ELSE [token |-> c.last_input_ids, len |-> c.seq_lens,
        pos |-> c.cached_seq_idx + (IF s \in last_sequence_ids THEN 1 ELSE 0)]

(* preprocess: the slots of the batch, the first update of a prefill's     *)
(* contexts, and the inputs.                                               *)
PreprocessBatch(req) ==
  /\ GetBatchContextHandles(req.seqs, req.kind = "prefill")
  /\ context' = [h \in Slots |->
                   IF req.kind = "prefill" /\ \E s \in req.seqs : sequence_context_slot_map'[s] = h
                   THEN FirstUpdate(context[h], req.lens[CHOOSE s \in req.seqs : sequence_context_slot_map'[s] = h])
                   ELSE context[h]]
  /\ current' = [kind |-> req.kind, seqs |-> req.seqs,
                 cache_ids |-> [s \in req.seqs |-> sequence_context_slot_map'[s]],
                 inputs |-> [s \in req.seqs |->
                               ComposeModelInput(req, s, context[sequence_context_slot_map'[s]])]]

(* generate_token_async up to output_queue.get.                            *)
Preprocess ==
  /\ pc = "idle" /\ inference_queue # <<>> /\ Head(inference_queue).type = "MODEL_INFER"
  /\ PreprocessBatch(Head(inference_queue))
  /\ inference_queue' = Tail(inference_queue) /\ pc' = "fetch"
  /\ UNCHANGED <<engineVars, input_queue, output_queue, responses, model_output_wrapper,
                 last_sequence_ids, pending_cleanup_flags, aborted_context_handles, recoveryVars>>

(* _fill_in_model_result: a hit of a decode batch takes its token from the *)
(* output of the last batch.                                               *)
FillInModelResult(b, out) ==
  IF b.kind # "decode" \/ out.is_mock \/ out.kind = "empty" THEN b.inputs
  ELSE [s \in b.seqs |->
          IF s \notin last_sequence_ids THEN b.inputs[s]
          ELSE [b.inputs[s] EXCEPT !.token = IF s \in out.seqs THEN out.tokens[s] ELSE None,
                                   !.len = @ + 1]]

(* output_queue.get, the fill, input_queue.put.                            *)
Fetch ==
  /\ pc = "fetch" /\ output_queue # <<>>
  /\ model_output_wrapper' = Head(output_queue) /\ output_queue' = Tail(output_queue)
  /\ LET b == [current EXCEPT !.inputs = FillInModelResult(current, Head(output_queue))] IN
     /\ input_queue' = Append(input_queue, b)
     /\ current' = b
  /\ pc' = "post"
  /\ UNCHANGED <<engineVars, inference_queue, responses, last_sequence_ids, storeVars, recoveryVars>>

(* filter_finished_sequences.                                              *)
FilterFinishedSequences(out) ==
  {s \in out.seqs : \/ out.cache_ids[s] \in pending_cleanup_flags
                    \/ s \in out.eos
                    \/ context[out.cache_ids[s]].seq_lens + 1 >= max_seq_len}

(* What the engine gets: the output without the sequences that have been   *)
(* cleared.  _execute_empty_batch drops what generate_token returns.       *)
(* Mutant: without the sequences that have just ended.                     *)
ResponseWithoutFinished(out, finished) ==
  LET seqs == IF current.kind = "dummy" THEN {} ELSE out.seqs \ finished IN
  [seqs |-> seqs, tokens |-> out.tokens, finished |-> finished]

Response(out, finished) ==
  LET seqs == IF current.kind = "dummy" THEN {} ELSE out.seqs \ FilterFinishedContext IN
  [seqs |-> seqs, tokens |-> out.tokens, finished |-> finished]

NoResponse == [seqs |-> {}, tokens |-> None, finished |-> {}]

(* postprocess of the output of the last batch.                            *)
PostprocessOutput(out) ==
  LET finished == FilterFinishedSequences(out)
  IN  UpdateStore(out, finished) /\ responses' = Append(responses, Response(out, finished))

(* The rest of generate_token_async, and the answer.  timedOut:            *)
(* launch_done did not come within a second while inference is paused.     *)
(* Otherwise the wait for launch_done only paces the thread (it ends with  *)
(* a warning after its timeout) and is left out.                           *)
Postprocess(timedOut) ==
  /\ pc = "post"
  /\ LET out == model_output_wrapper
         launched == output_queue # <<>> /\ ~Last(output_queue).is_mock IN
     /\ timedOut => is_inference_pause /\ current.kind = "decode" /\ out.kind # "prefill" /\ ~launched
     /\ IF timedOut \/ out.is_mock \/ out.kind \in {"empty", "dummy"}
        THEN responses' = Append(responses, NoResponse) /\ UNCHANGED storeVars
        ELSE PostprocessOutput(out)
  /\ last_sequence_ids' = current.seqs
  /\ pc' = "idle" /\ current' = None /\ model_output_wrapper' = None
  /\ UNCHANGED <<engineVars, inference_queue, input_queue, output_queue, recoveryVars>>

(* seq_ctrl and Generator.clear_cache.                                     *)
SeqCtrl ==
  /\ pc = "idle" /\ inference_queue # <<>> /\ Head(inference_queue).type = "TEXT_GENERATOR_CLEANUP"
  /\ ClearContextBySeqIds(Head(inference_queue).seqs)
  /\ inference_queue' = Tail(inference_queue)
  /\ UNCHANGED <<engineVars, input_queue, output_queue, responses, threadVars, recoveryVars>>
-----------------------------------------------------------------------------
(* The forward thread.  A batch is finished when the inference thread has  *)
(* done its postprocess (postprocess_done), unless inference is paused.    *)

(* The model and the sampler: the right token for the right input.         *)
Sample(s, i) == IF i.token = <<s, i.len - 1>> /\ i.pos = i.len - 1 THEN <<s, i.len>> ELSE None

(* Mutant: an output is not passed on when the batch is a dummy.           *)
ForwardSkippingDummy(eos) ==
  /\ input_queue # <<>> /\ (pc # "post" \/ is_inference_pause)
  /\ LET b == Head(input_queue) IN
     /\ eos \subseteq b.seqs
     /\ output_queue' = IF b.kind = "dummy" THEN output_queue ELSE
          Append(output_queue,
            [kind |-> b.kind, seqs |-> b.seqs, cache_ids |-> b.cache_ids,
             tokens |-> [s \in b.seqs |-> Sample(s, b.inputs[s])], eos |-> eos, is_mock |-> FALSE])
  /\ input_queue' = Tail(input_queue)
  /\ UNCHANGED <<engineVars, inference_queue, responses, threadVars, storeVars, recoveryVars>>

Forward(eos) ==
  /\ input_queue # <<>> /\ (pc # "post" \/ is_inference_pause)
  /\ LET b == Head(input_queue) IN
     /\ eos \subseteq b.seqs
     /\ output_queue' = Append(output_queue,
          [kind |-> b.kind, seqs |-> b.seqs, cache_ids |-> b.cache_ids,
           tokens |-> [s \in b.seqs |-> Sample(s, b.inputs[s])], eos |-> eos, is_mock |-> FALSE])
  /\ input_queue' = Tail(input_queue)
  /\ UNCHANGED <<engineVars, inference_queue, responses, threadVars, storeVars, recoveryVars>>
-----------------------------------------------------------------------------
(* Recovery: pause, reinitialise, start, each at most once.                *)

(* A paused device makes the forward pass fail, and the loop answers with  *)
(* a mock.                                                                 *)
ForwardFault ==
  /\ is_inference_pause /\ input_queue # <<>>
  /\ LET b == Head(input_queue) IN
     output_queue' = Append(output_queue,
       [kind |-> b.kind, seqs |-> b.seqs, cache_ids |-> b.cache_ids,
        tokens |-> None, eos |-> {}, is_mock |-> TRUE])
  /\ input_queue' = Tail(input_queue)
  /\ UNCHANGED <<engineVars, inference_queue, responses, threadVars, storeVars, recoveryVars>>

(* The engine drops its requests (StopRunningRequest), without a cleanup.  *)
PauseEngine ==
  /\ recovery = "none" /\ recovery' = "paused" /\ is_inference_pause' = TRUE
  /\ phase' = [s \in Seqs |-> IF phase[s] = "absent" THEN "absent" ELSE "ended"]
  /\ UNCHANGED <<stream, outstanding, TGCleanupSeqIds, preempts, inference_queue, input_queue,
                 output_queue, responses, threadVars, storeVars>>

(* reset_all_context: all slots are pushed on the stack, whatever is there.*)
ResetAllContext ==
  /\ pool' = pool \o [i \in 1 .. capacity - 1 |-> i]
  /\ context' = [h \in Slots |-> IF h = 0 THEN context[0] ELSE Blank]
  /\ sequence_context_slot_map' = None
  /\ pending_cleanup_flags' = {} /\ aborted_context_handles' = <<>>
  /\ UNCHANGED capacity

(* CMD_REINIT_NPU, taken from the inference queue.                         *)
ReinitNpu ==
  /\ recovery = "paused" /\ pc = "idle" /\ inference_queue = <<>>
  /\ recovery' = "ready"
  /\ ResetAllContext
  /\ UNCHANGED <<engineVars, inference_queue, input_queue, output_queue, responses, threadVars,
                 is_inference_pause>>

(* CMD_START_ENGINE, likewise.                                             *)
StartEngine ==
  /\ recovery \in {"paused", "ready"} /\ pc = "idle" /\ inference_queue = <<>>
  /\ recovery' = "done" /\ is_inference_pause' = FALSE
  /\ last_sequence_ids' = {}
  /\ output_queue' = IF output_queue = <<>> THEN <<EmptyOutput>> ELSE output_queue
  /\ UNCHANGED <<engineVars, inference_queue, input_queue, responses, pc, current,
                 model_output_wrapper, storeVars>>
-----------------------------------------------------------------------------
ForwardLoop == \E eos \in SUBSET Seqs : Forward(eos)

Round ==
  \/ \E seqs \in SUBSET Seqs : SchedulePrefill(seqs) \/ ScheduleDecode(seqs)
  \/ ExecuteDummy
  \/ EmptyRound

Next ==
  \/ \E s \in Seqs : AddRequest(s) \/ AbortRequest(s)
  \/ Round \/ Receive
  \/ Preprocess \/ Fetch \/ Postprocess(FALSE) \/ SeqCtrl
  \/ ForwardLoop

Spec == Init /\ [][Next]_vars

(* Both threads loop, the device finishes what it is given, and the engine *)
(* runs rounds and takes answers.  It admits a request that it could admit *)
(* again and again, and its rounds are not dummies for ever.               *)
FairSpec ==
  /\ Spec
  /\ WF_vars(Preprocess) /\ WF_vars(Fetch) /\ WF_vars(Postprocess(FALSE)) /\ WF_vars(SeqCtrl)
  /\ WF_vars(ForwardLoop) /\ WF_vars(Receive)
  /\ SF_vars(\E v \in SUBSET Seqs : ScheduleDecode(v))
  /\ \A s \in Seqs : SF_vars(\E q \in SUBSET Seqs : s \in q /\ SchedulePrefill(q))

RecoveryNext == Next \/ Postprocess(TRUE) \/ ForwardFault \/ PauseEngine \/ ReinitNpu \/ StartEngine

RecoverySpec == Init /\ [][RecoveryNext]_vars
-----------------------------------------------------------------------------
TypeOK ==
  /\ phase \in [Seqs -> {"absent", "waiting", "running", "preempted", "ended"}]
  /\ outstanding \in BOOLEAN /\ TGCleanupSeqIds \subseteq Seqs /\ preempts \in 0 .. MaxPreempts
  /\ pc \in {"idle", "fetch", "post"} /\ last_sequence_ids \subseteq Seqs
  /\ Range(pool) \subseteq 1 .. capacity - 1 /\ capacity \in base_capacity .. MaxCapacity
  /\ DOMAIN sequence_context_slot_map \subseteq Seqs
  /\ pending_cleanup_flags \subseteq Slots /\ Range(aborted_context_handles) \subseteq Slots
  /\ recovery \in {"none", "paused", "ready", "done"} /\ is_inference_pause \in BOOLEAN

(* Every slot but the reserved one is free, belongs to one sequence, or    *)
(* waits to be cleared after an abort, and is only one of these: the pool, *)
(* sequence_context_slot_map and aborted_context_handles never disagree.   *)
SlotPartition ==
  LET mapped == Range(sequence_context_slot_map)
      aborted == Range(aborted_context_handles) IN
  /\ IsInjective(pool) /\ IsInjective(sequence_context_slot_map) /\ IsInjective(aborted_context_handles)
  /\ Range(pool) \cap mapped = {} /\ Range(pool) \cap aborted = {} /\ mapped \cap aborted = {}
  /\ Range(pool) \cup mapped \cup aborted = 1 .. capacity - 1

(* get_context_slot never meets a sequence of a decode batch without a     *)
(* context, although ended sequences are cleared a batch late and the      *)
(* engine learns of an end a batch late, too.                              *)
DecodeFindsContext ==
  pc = "idle" /\ inference_queue # <<>> /\ Head(inference_queue).type = "MODEL_INFER" /\ Head(inference_queue).kind = "decode"
    => Head(inference_queue).seqs \subseteq DOMAIN sequence_context_slot_map

(* The batches between preprocess and postprocess, as records with seqs    *)
(* and cache_ids.                                                          *)
InFlight ==
  Range(input_queue) \cup {o \in Range(output_queue) : ~o.is_mock}
    \cup (IF pc = "idle" THEN {} ELSE {current})
    \cup (IF pc = "post" /\ ~model_output_wrapper.is_mock THEN {model_output_wrapper} ELSE {})

(* A slot that a batch in flight will still read or write is neither free  *)
(* nor given to another sequence.                                          *)
InFlightOwned ==
  \A b \in InFlight : \A s \in b.seqs :
    /\ b.cache_ids[s] \notin Range(pool)
    /\ \A t \in DOMAIN sequence_context_slot_map \ {s} : sequence_context_slot_map[t] # b.cache_ids[s]

(* A sequence that has ended keeps its context only while something is     *)
(* still under way that will clear it.                                     *)
NoLeak ==
  \A s \in DOMAIN sequence_context_slot_map : phase[s] = "ended" =>
    \/ sequence_context_slot_map[s] \in pending_cleanup_flags
    \/ s \in TGCleanupSeqIds
    \/ \E i \in DOMAIN inference_queue : s \in inference_queue[i].seqs
    \/ \E b \in InFlight : s \in b.seqs

(* What the engine has of a sequence are its own tokens, each once and in  *)
(* order, over preemption, recomputation, late answers and reused slots.   *)
StreamExact ==
  \A s \in Seqs : stream[s] = [i \in 1 .. Len(stream[s]) |-> <<s, PromptLen + i - 1>>]

(* Every batch is answered: the two threads, the two queues and            *)
(* postprocess_done never wait for each other.                             *)
Answered == outstanding ~> ~outstanding

(* Every request that is not aborted runs to its end.                      *)
EverySequenceEnds == \A s \in Seqs : phase[s] = "waiting" ~> phase[s] = "ended"
=============================================================================
