------------------------------- MODULE KvCache -------------------------------
(***************************************************************************)
(* Sequences on top of the prefix-caching allocator: SelfAttnBlockManager  *)
(* and its block tables, driven by the scheduler's rounds, together with   *)
(* the KV memory that the executed batches write.                          *)
(*                                                                         *)
(* The scheduler thread is sequential.  A round collects a batch (Admit a  *)
(* request for prefill, or append the last generated token of a running    *)
(* one), and ExecuteBatch ends it.  A call that touches several blocks     *)
(* takes one allocator action per block; the variable job holds the call   *)
(* the thread is in, and nothing else happens until it returns.            *)
(*                                                                         *)
(* The device runs batches in the order they were scheduled, so the KV     *)
(* entries of a batch are written by ExecuteBatch.  An entry is identified *)
(* with the tokens that determine it: the sequence's prefix up to and      *)
(* including its own token.  A block's hash is likewise identified with    *)
(* the tokens that the code hashes, so a hash collision is left out.       *)
(*                                                                         *)
(* Finishing, aborting and preemption for recomputation all free the table *)
(* (End); a request that is recomputed comes back through Admit with the   *)
(* tokens it has generated as part of its prompt.  Swapping is not part of *)
(* this module, and neither are beam search, speculative slots and more    *)
(* than one sequence-parallel rank.                                        *)
(***************************************************************************)
EXTENDS Integers, FiniteSets, Sequences, SequencesExt

CONSTANTS
  BlockIds, Objs, Hashes, INVALID_BLOCKID, INVALID_HASH_VALUE,
  Seqs,
  TokenIds,
  PLACEHOLDER_TOKEN,
  blockSize,
  MaxPrompt,         \* bound: tokens of an admitted request
  maxSeqLen,
  ChunkSize,         \* prefill tokens of one request in one round
  AsyncSchedule      \* the next round is scheduled before the results are in

TableTokens == IF AsyncSchedule THEN TokenIds \cup {PLACEHOLDER_TOKEN} ELSE TokenIds
NumBlocks == (maxSeqLen + blockSize - 1) \div blockSize
Chunked == ChunkSize < maxSeqLen

ASSUME KvAssumption ==
  /\ IsFiniteSet(BlockIds) /\ IsFiniteSet(Seqs)
  /\ INVALID_BLOCKID \notin BlockIds /\ INVALID_HASH_VALUE \notin Hashes
  /\ {blockSize, maxSeqLen} \subseteq Nat \ {0}
  /\ MaxPrompt \in 1..(maxSeqLen - 1)
  /\ ChunkSize \in Nat \ {0}
  /\ AsyncSchedule \in BOOLEAN
  /\ PLACEHOLDER_TOKEN \notin TokenIds
  /\ Objs = Seqs \X (1..NumBlocks)
  /\ Hashes = UNION {[1..(i * blockSize) -> TableTokens] : i \in 1..NumBlocks}

VARIABLES
  freeBlockIndices, refCounts, cachedBlocks, candidates, active, computed,
  touchedBlocks, acquired, blockId, prefixHash,
  tokens,      \* prompt and generated tokens, as the device knows them
  table,       \* the tokens in the sequence's BlockTable
  written,     \* SequenceData::numComputedTokens_, cached tokens included
  decoding,    \* sequences whose prefill is complete (SequenceData::stage_)
  batch,       \* sequences of the round being scheduled
  lastBatch,   \* sequences of the round before, whose results are not in
  job,         \* the call the scheduler thread is in
  kv           \* the KV memory of every block, slot by slot

allocatorVars == <<freeBlockIndices, refCounts, cachedBlocks, candidates, active,
                   computed, touchedBlocks, acquired, blockId, prefixHash>>
vars == <<allocatorVars, tokens, table, written, decoding, batch, lastBatch, job, kv>>

Allocator == INSTANCE PrefixCacheBlockAllocator

(* The KV entries of a block that holds nothing anybody may rely on. *)
Blank == [i \in 1..blockSize |-> <<>>]

(* What allocator calls leave of the KV memory: a block on the free list   *)
(* and one that was evicted are void, so that reading them before they are *)
(* written is never right by accident.                                     *)
KvKept ==
  kv' = [b \in BlockIds |->
           IF \/ b \in freeBlockIndices'
              \/ candidates[b] # INVALID_HASH_VALUE /\ cachedBlocks'[candidates[b]] # b
             THEN Blank ELSE kv[b]]

NoJob == [call |-> "none"]

Init ==
  /\ Allocator!Init
  /\ tokens = [s \in Seqs |-> <<>>]
  /\ table = [s \in Seqs |-> <<>>]
  /\ written = [s \in Seqs |-> 0]
  /\ decoding = {}
  /\ batch = {}
  /\ lastBatch = {}
  /\ job = NoJob
  /\ kv = [b \in BlockIds |-> Blank]

Idle == job = NoJob
Admitted(s) == table[s] # <<>>
IsPrefill(s) == s \notin decoding
BlockOf(pos) == (pos - 1) \div blockSize + 1
SlotOf(pos) == ((pos - 1) % blockSize) + 1

(* GetNumFreeBlock: free ids and ids the evictor can give up. *)
NumFree == Cardinality(freeBlockIndices)
             + Cardinality({b \in BlockIds : candidates[b] # INVALID_HASH_VALUE})

(* Mutant: the hash of a block leaves out the blocks before it. *)
PrefixHashOfBlock(toks, i) ==
  IF i * blockSize <= Len(toks) /\ toks[i * blockSize] # PLACEHOLDER_TOKEN
    THEN SubSeq(toks, (i - 1) * blockSize + 1, i * blockSize)
    ELSE INVALID_HASH_VALUE

(* PrefixHash of block i of a table that holds toks: the block is full,    *)
(* its last token is no placeholder, and the block before it has a hash.   *)
PrefixHash(toks, i) ==
  IF /\ i * blockSize <= Len(toks)
     /\ \A j \in 1..i : toks[j * blockSize] # PLACEHOLDER_TOKEN
    THEN SubSeq(toks, 1, i * blockSize)
    ELSE INVALID_HASH_VALUE

-----------------------------------------------------------------------------
(* Mutant: blocks that are in the cache are taken to cost nothing. *)
CanAllocateUncached(prompt) ==
  LET miss(i) == LET h == PrefixHash(prompt, i)
                 IN  h = INVALID_HASH_VALUE \/ cachedBlocks[h] = INVALID_BLOCKID
  IN  Cardinality({i \in 1..BlockOf(Len(prompt)) : miss(i)}) <= NumFree

(* CanAllocate is OK: a block for every block of tokens, cached or not.    *)
(* LATER and NEVER (the prompt outgrows the device less its reserve) leave *)
(* the request in the queue or drop it before anything is allocated.       *)
CanAllocate(prompt) == BlockOf(Len(prompt)) <= NumFree

(***************************************************************************)
(* SelfAttnBlockManager::Allocate of a request that the policy takes from  *)
(* the waiting queue, after CanAllocate has said OK.  Full blocks come     *)
(* from AllocateImmutableBlock, a rest from AllocateMutableBlock.          *)
(***************************************************************************)
Admit(s, prompt) ==
  /\ Idle /\ tokens[s] = <<>>
  /\ Chunked \/ \A r \in batch : IsPrefill(r)
  /\ CanAllocate(prompt)
  /\ tokens' = [tokens EXCEPT ![s] = prompt]
  /\ job' = [call |-> "Allocate", seq |-> s, next |-> 1]
  /\ UNCHANGED <<allocatorVars, table, written, decoding, batch, lastBatch, kv>>

AllocateNext ==
  LET s == job.seq
      i == job.next
  IN  /\ job.call = "Allocate"
      /\ Allocator!AllocateBlock(<<s, i>>, PrefixHash(tokens[s], i))
      /\ IF i = BlockOf(Len(tokens[s]))
           THEN /\ table' = [table EXCEPT ![s] = tokens[s]]
                /\ batch' = batch \cup {s}
                /\ job' = NoJob
           ELSE /\ job' = [job EXCEPT !.next = i + 1]
                /\ UNCHANGED <<table, batch>>
      /\ KvKept
      /\ UNCHANGED <<tokens, written, decoding, lastBatch>>

(* The next chunk of a request that is still in prefill. *)
ContinuePrefill(s) ==
  /\ Idle /\ Admitted(s) /\ s \notin batch
  /\ IsPrefill(s)
  /\ batch' = batch \cup {s}
  /\ UNCHANGED <<allocatorVars, tokens, table, written, decoding, lastBatch, job, kv>>

(***************************************************************************)
(* AppendSlot of a decoding request, after CanAppendSlot: the token of its *)
(* last round enters the table, as a placeholder if the scheduler does not *)
(* know it yet.  With asynchronous scheduling the execution of a round     *)
(* returns the results of the round before, so the tokens of lastBatch are *)
(* not known.  EnsureEnoughSlots first adds a block when the last one is   *)
(* full, for which GetNumRelatedBlocks requires a free one.                *)
(***************************************************************************)
CanAppend(s) ==
  /\ Idle /\ Admitted(s) /\ s \notin batch
  /\ ~IsPrefill(s) /\ Len(tokens[s]) = Len(table[s]) + 1
  /\ Chunked \/ \A r \in batch : ~IsPrefill(r)

NewToken(s) == IF AsyncSchedule /\ s \in lastBatch THEN PLACEHOLDER_TOKEN ELSE Last(tokens[s])

EnsureEnoughSlots(s) ==
  /\ CanAppend(s)
  /\ Len(table[s]) % blockSize = 0 /\ NumFree >= 1
  /\ Allocator!AllocateBlock(<<s, BlockOf(Len(tokens[s]))>>, INVALID_HASH_VALUE)
  /\ job' = [call |-> "AppendSlot", seq |-> s]
  /\ KvKept
  /\ UNCHANGED <<tokens, table, written, decoding, batch, lastBatch>>

(* AppendTokenIds: a block that now has a hash is promoted. *)
AppendToken(s) ==
  LET o == <<s, BlockOf(Len(tokens[s]))>>
      toks == Append(table[s], NewToken(s))
      h == PrefixHash(toks, BlockOf(Len(toks)))
  IN  /\ table' = [table EXCEPT ![s] = toks]
      /\ batch' = batch \cup {s}
      /\ IF h = INVALID_HASH_VALUE
           THEN UNCHANGED allocatorVars
           ELSE Allocator!PromoteNew(o, h) \/ Allocator!PromoteOntoCached(o, h)
      /\ job' = NoJob
      /\ KvKept
      /\ UNCHANGED <<tokens, written, decoding, lastBatch>>

AppendSlot(s) ==
  \/ CanAppend(s) /\ Len(table[s]) % blockSize # 0 /\ AppendToken(s)
  \/ job = [call |-> "AppendSlot", seq |-> s] /\ AppendToken(s)

-----------------------------------------------------------------------------
(* Mutant: a block counts as computed as soon as it is tracked. *)
IsBlockComputedTracked(b) == b \in active \/ candidates[b] # INVALID_HASH_VALUE

(* IsBlockComputed: tracked as computed, or waiting in the evictor. *)
IsBlockComputed(b) == IF b \in active THEN b \in computed ELSE candidates[b] # INVALID_HASH_VALUE

(* IsBlockCached *)
IsBlockCached(h) ==
  h \in Hashes /\ cachedBlocks[h] # INVALID_BLOCKID /\ IsBlockComputed(cachedBlocks[h])

(* Mutant: a block that is in the cache counts as computed. *)
NumCachedTokensAny(s) ==
  LET hit(i) == prefixHash[<<s, i>>] \in Hashes /\ cachedBlocks[prefixHash[<<s, i>>]] # INVALID_BLOCKID
  IN  blockSize * Cardinality({i \in 1..(Len(table[s]) \div blockSize) : \A j \in 1..i : hit(j)})

(* GetCachedTokensNum: the longest prefix of cached and computed blocks,   *)
(* looked up when the first chunk is prepared.                             *)
NumCachedTokens(s) ==
  LET hit(i) == IsBlockCached(prefixHash[<<s, i>>])
  IN  blockSize * Cardinality({i \in 1..(Len(table[s]) \div blockSize) : \A j \in 1..i : hit(j)})

(* The first position the batch computes: past what is cached or computed, *)
(* but at least the last token, which has to yield the next one.           *)
FirstComputed(s) ==
  LET cached == IF written[s] = 0 THEN NumCachedTokens(s) ELSE written[s]
  IN  IF cached = Len(table[s]) THEN cached ELSE cached + 1

LastComputed(s) ==
  IF FirstComputed(s) + ChunkSize - 1 < Len(table[s]) THEN FirstComputed(s) + ChunkSize - 1
                                                      ELSE Len(table[s])

(* What batch writes into slot i of block b. *)
Writes(b, i) ==
  {SubSeq(tokens[p[1]], 1, p[2]) : p \in
     {q \in batch \X (1..maxSeqLen) :
        /\ q[2] \in FirstComputed(q[1])..LastComputed(q[1])
        /\ blockId[<<q[1], BlockOf(q[2])>>] = b
        /\ SlotOf(q[2]) = i}}

(* Every block that entered the cache in this round is marked computed. *)
MarkComputed ==
  \/ Allocator!MarkBlocksAsComputed
  \/ touchedBlocks = {} /\ UNCHANGED allocatorVars

(***************************************************************************)
(* The end of Schedule: the metadata of the batch is generated, all        *)
(* touched blocks are marked computed, and the batch goes to the device,   *)
(* which writes the KV entries and yields a token for every sequence whose *)
(* prefill is complete.  A round of chunked prefill takes every running    *)
(* request that it does not preempt; the budget is taken to be sufficient. *)
(***************************************************************************)
ExecuteBatch ==
  /\ Idle /\ batch # {}
  /\ Chunked => \A s \in Seqs : Admitted(s) => s \in batch
  /\ kv' = [b \in BlockIds |-> [i \in 1..blockSize |->
              IF Writes(b, i) = {} THEN kv[b][i] ELSE CHOOSE w \in Writes(b, i) : TRUE]]
  /\ written' = [s \in Seqs |-> IF s \in batch THEN LastComputed(s) ELSE written[s]]
  /\ \E new \in [batch -> TokenIds] :
       tokens' = [s \in Seqs |->
         IF s \in batch /\ LastComputed(s) = Len(table[s]) /\ Len(tokens[s]) < maxSeqLen
           THEN Append(tokens[s], new[s]) ELSE tokens[s]]
  /\ decoding' = decoding \cup {s \in batch : LastComputed(s) = Len(table[s])}
  /\ MarkComputed
  /\ batch' = {}
  /\ lastBatch' = IF AsyncSchedule THEN batch ELSE {}
  /\ UNCHANGED <<table, job>>

(* SelfAttnBlockManager::Free, once between rounds for a request that has  *)
(* finished or was aborted, or within a round for one that is preempted.   *)
End(s) ==
  /\ Idle /\ Admitted(s) /\ s \notin batch
  /\ written' = [written EXCEPT ![s] = 0]
  /\ job' = [call |-> "Free", seq |-> s, next |-> 1]
  /\ decoding' = decoding \ {s}
  /\ UNCHANGED <<allocatorVars, tokens, table, batch, lastBatch, kv>>

(* Mutant: only the full blocks of the table are freed. *)
FreeNextFullOnly ==
  LET s == job.seq
      i == job.next
  IN  /\ job.call = "Free"
      /\ IF i * blockSize <= Len(table[s]) THEN Allocator!Free(<<s, i>>) ELSE UNCHANGED allocatorVars
      /\ IF i = BlockOf(Len(table[s]))
           THEN /\ tokens' = [tokens EXCEPT ![s] = <<>>]
                /\ table' = [table EXCEPT ![s] = <<>>]
                /\ lastBatch' = lastBatch \ {s}
                /\ job' = NoJob
           ELSE /\ job' = [job EXCEPT !.next = i + 1]
                /\ UNCHANGED <<tokens, table, lastBatch>>
      /\ KvKept
      /\ UNCHANGED <<written, decoding, batch>>

(* BlockTable::Free, block by block; the last one drops the table. *)
FreeNext ==
  LET s == job.seq
      i == job.next
  IN  /\ job.call = "Free"
      /\ Allocator!Free(<<s, i>>)
      /\ IF i = BlockOf(Len(table[s]))
           THEN /\ tokens' = [tokens EXCEPT ![s] = <<>>]
                /\ table' = [table EXCEPT ![s] = <<>>]
                /\ lastBatch' = lastBatch \ {s}
                /\ job' = NoJob
           ELSE /\ job' = [job EXCEPT !.next = i + 1]
                /\ UNCHANGED <<tokens, table, lastBatch>>
      /\ KvKept
      /\ UNCHANGED <<written, decoding, batch>>

(* Mutant: the length of a prompt is not checked. *)
PromptsUnchecked == UNION {[1..n -> TokenIds] : n \in 1..(maxSeqLen + 1)}

(* The prompts that pass the length check of BuildSequenceGroup; a request *)
(* that is recomputed has its generated tokens among them.                 *)
Prompts == UNION {[1..n -> TokenIds] : n \in 1..MaxPrompt}

Next ==
  \/ \E s \in Seqs :
       \/ \E prompt \in Prompts : Admit(s, prompt)
       \/ ContinuePrefill(s)
       \/ EnsureEnoughSlots(s)
       \/ AppendSlot(s)
       \/ End(s)
  \/ AllocateNext
  \/ FreeNext
  \/ ExecuteBatch

Spec == Init /\ [][Next]_vars

-----------------------------------------------------------------------------
(* Types of the tables and of the KV memory. *)
TypeOK ==
  /\ \A s \in Seqs : tokens[s] \in Seq(TokenIds) /\ table[s] \in Seq(TableTokens)
  /\ \A s \in Seqs : written[s] \in 0..maxSeqLen /\ Len(tokens[s]) <= maxSeqLen
  /\ decoding \subseteq Seqs /\ batch \subseteq Seqs /\ lastBatch \subseteq Seqs
  /\ \A b \in BlockIds, i \in 1..blockSize : kv[b][i] \in Seq(TokenIds)

(* Between rounds, every KV entry that a sequence has computed or taken    *)
(* over from the cache is the entry of that sequence's own prefix, though  *)
(* its blocks are shared with other sequences, were freed and taken up     *)
(* again, or replaced a block of its own when that was promoted.           *)
KvCoherent ==
  batch = {} => \A s \in Seqs : \A pos \in 1..written[s] :
    LET b == blockId[<<s, BlockOf(pos)>>]
    IN  /\ b \in BlockIds
        /\ kv[b][SlotOf(pos)] = SubSeq(tokens[s], 1, pos)

(* A block that a lookup would report as cached and computed holds the KV  *)
(* entries of exactly the tokens that were hashed (the tracker: "cached    *)
(* and COMPUTED tokens").                                                  *)
ComputedIsWritten ==
  \A h \in Hashes : IsBlockCached(h) =>
    \A i \in 1..blockSize : kv[cachedBlocks[h]][i] = SubSeq(h, 1, Len(h) - blockSize + i)

(* The table's blocks are the sequence's only blocks, and they are held    *)
(* exactly while the table exists: nothing is leaked by a request's end.   *)
TablesOwnBlocks ==
  Idle => \A s \in Seqs, i \in 1..NumBlocks :
    <<s, i>> \in acquired <=> table[s] # <<>> /\ i <= BlockOf(Len(table[s]))

(* A call of Allocate that has begun gets all its blocks: however many of  *)
(* them are cached, shared or still in the evictor, and whatever it has    *)
(* evicted itself, as many are left as CanAllocate counted.  (Where it     *)
(* fails, AllocateImmutableBlock throws half-way and the blocks taken so   *)
(* far are lost.)                                                          *)
AllocationsComplete ==
  job.call = "Allocate" => BlockOf(Len(tokens[job.seq])) - job.next + 1 <= NumFree

(* The tokens that the hashes of s are taken from. *)
Hashed(s) == IF Admitted(s) THEN table[s] ELSE tokens[s]

(* Two block objects that name the same block are the same block of two    *)
(* tables, it is full in both, and the tables agree up to its end, in      *)
(* every mode: a block that was promoted, evicted and taken up again, or   *)
(* whose tokens are placeholders, is never shared at another place or      *)
(* under another prefix.                                                   *)
SharedPrefix ==
  \A s, r \in Seqs, i, j \in 1..NumBlocks :
    /\ {<<s, i>>, <<r, j>>} \subseteq acquired
    /\ <<s, i>> # <<r, j>> /\ blockId[<<s, i>>] = blockId[<<r, j>>]
    => /\ i = j
       /\ i * blockSize <= Len(Hashed(s)) /\ i * blockSize <= Len(Hashed(r))
       /\ \A k \in 1..(i * blockSize) : Hashed(s)[k] = Hashed(r)[k]

=============================================================================
