---------------------------- MODULE KvCache_proofs ----------------------------
(***************************************************************************)
(* Theorems about KvCache, for any blocks, sequences, tokens, block size   *)
(* and sequence length.  First, in every mode, that the block tables own   *)
(* exactly their blocks, that an allocation once begun never runs out of   *)
(* blocks, and that a block is shared by tables with the same prefix only; *)
(* then, with synchronous scheduling and without chunked prefill, that the *)
(* KV entries a sequence relies on are those of its own prefix.            *)
(*                                                                         *)
(* What is proved about the allocator is taken over through AP.            *)
(***************************************************************************)
EXTENDS KvCache, FiniteSetTheorems, SequenceTheorems, TLAPS

AP == INSTANCE PrefixCacheBlockAllocator_proofs

-----------------------------------------------------------------------------
(* The inductive invariant of every mode. *)

Jobs ==
  {NoJob} \cup [call : {"Allocate", "Free"}, seq : Seqs, next : 1..NumBlocks]
          \cup [call : {"AppendSlot"}, seq : Seqs]

Types ==
  /\ tokens \in [Seqs -> Seq(TokenIds)]
  /\ table \in [Seqs -> Seq(TableTokens)]
  /\ written \in [Seqs -> 0..maxSeqLen]
  /\ decoding \subseteq Seqs /\ batch \subseteq Seqs /\ lastBatch \subseteq Seqs
  /\ job \in Jobs
  /\ kv \in [BlockIds -> [1..blockSize -> Seq(TokenIds)]]

In(call, s) == job.call = call /\ job.seq = s

(* How far the tables are behind the tokens. *)
Lengths ==
  \A s \in Seqs :
    /\ Len(table[s]) <= Len(tokens[s]) /\ Len(tokens[s]) <= maxSeqLen
    /\ Admitted(s) => Len(tokens[s]) <= Len(table[s]) + 1
    /\ ~Admitted(s) /\ tokens[s] # <<>> => In("Allocate", s)
    /\ Admitted(s) /\ IsPrefill(s) /\ ~In("Free", s) => Len(tokens[s]) = Len(table[s])

Batches ==
  /\ \A s \in batch : Admitted(s) /\ ~In("Free", s) /\ ~In("AppendSlot", s)
                        /\ Len(tokens[s]) = Len(table[s])
  /\ \A s \in decoding : Admitted(s) /\ ~In("Free", s)

(* What is known of the sequence of the call the thread is in. *)
Calls ==
  \A s \in Seqs :
    /\ In("Allocate", s) => ~Admitted(s) /\ tokens[s] # <<>> /\ job.next <= BlockOf(Len(tokens[s]))
    /\ In("AppendSlot", s) => /\ Admitted(s) /\ s \in decoding
                              /\ Len(tokens[s]) = Len(table[s]) + 1
                              /\ Len(table[s]) % blockSize = 0
    /\ In("Free", s) => Admitted(s) /\ job.next <= BlockOf(Len(table[s]))

(* The block objects that sequence s has. *)
Owns(s) ==
  IF In("Allocate", s) THEN 1..(job.next - 1)
  ELSE IF In("AppendSlot", s) THEN 1..BlockOf(Len(tokens[s]))
  ELSE IF In("Free", s) THEN job.next..BlockOf(Len(table[s]))
  ELSE IF Admitted(s) THEN 1..BlockOf(Len(table[s])) ELSE {}

Owned == \A s \in Seqs, i \in 1..NumBlocks : <<s, i>> \in acquired <=> i \in Owns(s)

Base == Types /\ Lengths /\ Batches /\ Calls /\ Owned
KInv == Base /\ AP!IInv

-----------------------------------------------------------------------------
(* The invariant of synchronous scheduling without chunked prefill. *)

(* A table holds the sequence's own tokens. *)
TablesTrue == \A s \in Seqs : \A p \in 1..Len(table[s]) : table[s][p] = tokens[s][p]

(* The length a sequence's hashes are taken from. *)
Known(s) == IF Admitted(s) THEN Len(table[s]) ELSE Len(tokens[s])

(* An object has a block; its hash is that of its sequence's tokens once   *)
(* the block is full.                                                      *)
HashesTrue ==
  \A s \in Seqs, i \in 1..NumBlocks : <<s, i>> \in acquired =>
    /\ blockId[<<s, i>>] \in BlockIds
    /\ i * blockSize <= Known(s) => prefixHash[<<s, i>>] = SubSeq(tokens[s], 1, i * blockSize)
    /\ i * blockSize > Known(s) => prefixHash[<<s, i>>] = INVALID_HASH_VALUE

(* What a sequence has computed, before and after it joins a batch, and    *)
(* that prefill and decode never share a round.                            *)
Rounds ==
  /\ \A s \in Seqs :
       /\ s \notin decoding => written[s] = 0
       /\ s \in decoding \ batch => written[s] = Len(table[s])
       /\ s \in decoding \cap batch => written[s] = Len(table[s]) - 1 /\ written[s] > 0
       /\ Admitted(s) /\ ~In("Free", s) => s \in decoding \cup batch
  /\ batch \cap decoding = {} \/ batch \subseteq decoding
  /\ job.call = "Allocate" => batch \cap decoding = {}
  /\ job.call = "AppendSlot" => batch \subseteq decoding

(* A block cached in this round belongs to a sequence of the round, and is *)
(* not yet computed; nor is a block without a hash.                        *)
Touched ==
  /\ \A c \in touchedBlocks :
       /\ c \in active /\ c \notin computed
       /\ \E s \in Seqs, i \in 1..NumBlocks :
            /\ <<s, i>> \in acquired /\ blockId[<<s, i>>] = c
            /\ prefixHash[<<s, i>>] # INVALID_HASH_VALUE
            /\ s \in batch \/ In("Allocate", s)
  /\ \A o \in acquired : prefixHash[o] = INVALID_HASH_VALUE => blockId[o] \notin computed

(* Every entry that a sequence has computed is right, at all times. *)
WrittenRight ==
  \A s \in Seqs : \A pos \in 1..written[s] :
    kv[blockId[<<s, BlockOf(pos)>>]][SlotOf(pos)] = SubSeq(tokens[s], 1, pos)

(* So is every entry of a block cached in an earlier round. *)
CachedRight ==
  \A h \in Hashes : cachedBlocks[h] # INVALID_BLOCKID /\ cachedBlocks[h] \notin touchedBlocks =>
    \A i \in 1..blockSize : kv[cachedBlocks[h]][i] = SubSeq(h, 1, Len(h) - blockSize + i)

Sync == ~AsyncSchedule /\ ~Chunked
SInv == TablesTrue /\ HashesTrue /\ Rounds /\ Touched /\ WrittenRight /\ CachedRight

-----------------------------------------------------------------------------
(* Block and slot of a position. *)

LEMMA Sizes ==
  /\ blockSize \in Nat /\ blockSize > 0
  /\ maxSeqLen \in Nat /\ maxSeqLen > 0
  BY KvAssumption

(* Ranges of block-size length do not overlap. *)
LEMMA Multiples ==
  ASSUME NEW p \in Int, NEW q \in Int
  PROVE  /\ p * blockSize \in Int
         /\ (p - 1) * blockSize = p * blockSize - blockSize
         /\ (p + 1) * blockSize = p * blockSize + blockSize
         /\ p <= q <=> p * blockSize <= q * blockSize
         /\ p < q <=> p * blockSize < q * blockSize
         /\ p < q => p * blockSize + blockSize <= q * blockSize
<1> DEFINE b == blockSize
<1>1. b \in Nat /\ b > 0
  BY Sizes
<1> HIDE DEF b
<1>2. ASSUME NEW x \in Int, NEW y \in Int, x < y
      PROVE  x * b + b <= y * b
  <2>1. (x + 1) * b <= y * b
    BY <1>1, <1>2
  <2>2. (x + 1) * b = x * b + b
    BY <1>1
  <2> QED BY <2>1, <2>2
<1>3. /\ p * b \in Int /\ q * b \in Int
      /\ (p - 1) * b = p * b - b
      /\ (p + 1) * b = p * b + b
  BY <1>1
<1>4. /\ p < q => p * b + b <= q * b
      /\ q < p => q * b + b <= p * b
      /\ p = q => p * b = q * b
  BY <1>2
<1>5. p < q \/ p = q \/ q < p
  OBVIOUS
<1>6. CASE p < q
  BY <1>1, <1>3, <1>4, <1>6 DEF b
<1>7. CASE p = q
  BY <1>1, <1>3, <1>4, <1>7 DEF b
<1>8. CASE q < p
  BY <1>1, <1>3, <1>4, <1>8 DEF b
<1> QED BY <1>5, <1>6, <1>7, <1>8

(* A position is its slot past the blocks before its own. *)
LEMMA BlockBounds ==
  ASSUME NEW n \in Nat \ {0}
  PROVE  /\ BlockOf(n) \in Nat \ {0}
         /\ BlockOf(n) * blockSize \in Int
         /\ BlockOf(n) * blockSize - blockSize < n
         /\ n <= BlockOf(n) * blockSize
         /\ SlotOf(n) = n - (BlockOf(n) * blockSize - blockSize)
         /\ SlotOf(n) \in 1..blockSize
<1> DEFINE b == blockSize
           q == (n - 1) \div b
<1>1. b \in Nat /\ b > 0
  BY Sizes
<1> HIDE DEF b
<1>2. q \in Int /\ q * b <= n - 1 /\ n - 1 < (q + 1) * b /\ (n - 1) % b = (n - 1) - q * b
  BY <1>1
<1> HIDE DEF q
<1>3. (q + 1) * b = q * b + b /\ q * b \in Int
  BY <1>1, <1>2
<1>4. q >= 0
  <2> SUFFICES ASSUME q <= -1 PROVE FALSE
    BY <1>2
  <2>1. q * b <= (-1) * b
    BY <1>1, <1>2
  <2> QED BY <2>1, <1>1, <1>2, <1>3
<1>5. BlockOf(n) = q + 1
  BY DEF BlockOf, q, b
<1>6. SlotOf(n) = (n - 1) - q * b + 1
  BY <1>2 DEF SlotOf, b
<1>7. BlockOf(n) * b = q * b + b
  BY <1>3, <1>5
<1>8. SlotOf(n) \in 1..b
  BY <1>1, <1>2, <1>3, <1>6
<1>9. /\ BlockOf(n) * b \in Int /\ BlockOf(n) * b - b < n /\ n <= BlockOf(n) * b
      /\ SlotOf(n) = n - (BlockOf(n) * b - b)
  BY <1>1, <1>2, <1>3, <1>6, <1>7
<1> QED
  BY <1>2, <1>4, <1>5, <1>8, <1>9 DEF b

LEMMA BlockUnique ==
  ASSUME NEW n \in Nat \ {0}, NEW q \in Int,
         q * blockSize - blockSize < n, n <= q * blockSize
  PROVE  BlockOf(n) = q
<1>1. /\ BlockOf(n) \in Int
      /\ BlockOf(n) * blockSize - blockSize < n
      /\ n <= BlockOf(n) * blockSize
  BY BlockBounds
<1>2. BlockOf(n) < q => BlockOf(n) * blockSize + blockSize <= q * blockSize
  BY <1>1, Multiples
<1>3. q < BlockOf(n) => q * blockSize + blockSize <= BlockOf(n) * blockSize
  BY <1>1, Multiples
<1>4. q * blockSize \in Int /\ BlockOf(n) * blockSize \in Int
  BY <1>1, Multiples
<1>5. ~(BlockOf(n) < q) /\ ~(q < BlockOf(n))
  BY <1>1, <1>2, <1>3, <1>4, Sizes
<1> QED BY <1>1, <1>5

(* A longer prefix has no fewer blocks. *)
LEMMA BlockMonotone ==
  ASSUME NEW m \in Nat \ {0}, NEW n \in Nat \ {0}, m <= n
  PROVE  BlockOf(m) <= BlockOf(n)
<1> SUFFICES ASSUME BlockOf(n) < BlockOf(m) PROVE FALSE
  BY BlockBounds
<1>1. BlockOf(m) \in Int /\ BlockOf(n) \in Int
  BY BlockBounds
<1>2. BlockOf(n) * blockSize + blockSize <= BlockOf(m) * blockSize
  BY <1>1, Multiples
<1>3. BlockOf(m) * blockSize \in Int /\ BlockOf(n) * blockSize \in Int
  BY <1>1, Multiples
<1>4. BlockOf(m) * blockSize - blockSize < m
  BY BlockBounds
<1>5. n <= BlockOf(n) * blockSize
  BY BlockBounds
<1> QED BY <1>2, <1>3, <1>4, <1>5, Sizes

(* The objects of a sequence suffice for its longest table. *)
LEMMA BlockFits ==
  /\ NumBlocks \in Nat \ {0}
  /\ \A n \in 1..maxSeqLen : BlockOf(n) \in 1..NumBlocks
<1>1. BlockOf(maxSeqLen) = NumBlocks
  <2> DEFINE b == blockSize
             q == (maxSeqLen + b - 1) \div b
  <2>1. b \in Nat /\ b > 0
    BY Sizes
  <2> HIDE DEF b
  <2>2. q \in Int /\ q * b <= maxSeqLen + b - 1 /\ maxSeqLen + b - 1 < (q + 1) * b
    BY <2>1, Sizes
  <2>3. q = NumBlocks
    BY DEF NumBlocks, b
  <2> HIDE DEF q
  <2>4. (q + 1) * b = q * b + b /\ q * b \in Int
    BY <2>1, <2>2
  <2>5. q * b - b < maxSeqLen /\ maxSeqLen <= q * b
    BY <2>1, <2>2, <2>4, Sizes
  <2> QED BY <2>2, <2>3, <2>5, Sizes, BlockUnique DEF b
<1>2. BlockOf(maxSeqLen) \in Nat \ {0}
  BY BlockBounds, Sizes
<1>3. ASSUME NEW n \in 1..maxSeqLen
      PROVE  BlockOf(n) \in 1..NumBlocks
  <2>1. n \in Nat \ {0} /\ n <= maxSeqLen /\ maxSeqLen \in Nat \ {0}
    BY Sizes
  <2>2. BlockOf(n) <= BlockOf(maxSeqLen)
    BY <2>1, BlockMonotone
  <2>3. BlockOf(n) \in Nat \ {0}
    BY <2>1, BlockBounds
  <2> QED BY <1>1, <1>2, <2>2, <2>3
<1> QED BY <1>1, <1>2, <1>3

(* One more token starts a block exactly when the last one is full. *)
LEMMA BlockNext ==
  ASSUME NEW n \in Nat \ {0}
  PROVE  /\ n % blockSize = 0 => BlockOf(n + 1) = BlockOf(n) + 1
         /\ n % blockSize # 0 => BlockOf(n + 1) = BlockOf(n)
<1> DEFINE q == BlockOf(n)
           b == blockSize
<1>1. q \in Int /\ q * b \in Int /\ q * b - b < n /\ n <= q * b /\ b \in Nat /\ b > 0
  BY BlockBounds, Sizes
<1> DEFINE d == n \div b
<1>2. d \in Int /\ d * b <= n /\ n < (d + 1) * b /\ n % b = n - d * b
  <2> HIDE DEF b, q
  <2> QED BY <1>1
<1> HIDE DEF d, q
<1>3. n % b = 0 <=> n = q * b
  <2>1. d * b \in Int /\ (d + 1) * b = d * b + b
    BY <1>2, Multiples
  <2>2. d < q => d * b + b <= q * b
    BY <1>1, <1>2, Multiples
  <2>3. q < d => q * b + b <= d * b
    BY <1>1, <1>2, Multiples
  <2>4. n % b = 0 => ~(d < q) /\ ~(q < d)
    BY <1>1, <1>2, <2>1, <2>2, <2>3
  <2>5. n = q * b => ~(d < q) /\ ~(q < d)
    BY <1>1, <1>2, <2>1, <2>2, <2>3
  <2>6. d = q => (n % b = 0 <=> n = q * b)
    BY <1>1, <1>2
  <2> QED BY <1>1, <1>2, <2>4, <2>5, <2>6
<1>4. n + 1 \in Nat \ {0}
  OBVIOUS
<1>5. (q + 1) * b = q * b + b
  BY <1>1
<1>6. CASE n = q * b
  <2>1. (q + 1) * b - b < n + 1 /\ n + 1 <= (q + 1) * b /\ q + 1 \in Int
    BY <1>1, <1>5, <1>6
  <2>2. BlockOf(n + 1) = q + 1
    BY <1>4, <2>1, BlockUnique
  <2> QED BY <1>3, <1>6, <2>2 DEF q
<1>7. CASE n # q * b
  <2>1. q * b - b < n + 1 /\ n + 1 <= q * b
    BY <1>1, <1>7
  <2>2. BlockOf(n + 1) = q
    BY <1>1, <1>4, <2>1, BlockUnique
  <2> QED BY <1>3, <1>7, <2>2 DEF q
<1> QED BY <1>6, <1>7

-----------------------------------------------------------------------------
(* The allocator of this module is the one its proofs are about. *)

LEMMA ObjsFinite == IsFiniteSet(Objs)
<1>1. IsFiniteSet(1..NumBlocks)
  BY BlockFits, FS_Interval
<1> QED BY <1>1, FS_Product, KvAssumption

LEMMA SameFiniteness ==
  ASSUME NEW S
  PROVE  IsFiniteSet(S) <=> AP!IsFiniteSet(S)
  BY DEF IsFiniteSet, AP!IsFiniteSet

LEMMA SameAllocateBlock ==
  ASSUME NEW o, NEW h
  PROVE  Allocator!AllocateBlock(o, h) <=> AP!AllocateBlock(o, h)
  BY Zenon DEF Allocator!AllocateBlock, AP!AllocateBlock, Allocator!Obtain, AP!Obtain,
     Allocator!ObtainMutable, AP!ObtainMutable, Allocator!ObtainCached, AP!ObtainCached,
     Allocator!ObtainNew, AP!ObtainNew, Allocator!AllocateBlockId, AP!AllocateBlockId,
     Allocator!Available, AP!Available, Allocator!CacheAfterEviction, AP!CacheAfterEviction,
     Allocator!IncrRefCountCacheBlock, AP!IncrRefCountCacheBlock

LEMMA SameSwapIn ==
  ASSUME NEW o
  PROVE  Allocator!SwapIn(o) <=> AP!SwapIn(o)
  BY Zenon DEF Allocator!SwapIn, AP!SwapIn, Allocator!Obtain, AP!Obtain,
     Allocator!ObtainMutable, AP!ObtainMutable, Allocator!ObtainCached, AP!ObtainCached,
     Allocator!ObtainNew, AP!ObtainNew, Allocator!AllocateBlockId, AP!AllocateBlockId,
     Allocator!Available, AP!Available, Allocator!CacheAfterEviction, AP!CacheAfterEviction,
     Allocator!IncrRefCountCacheBlock, AP!IncrRefCountCacheBlock

LEMMA SameFree ==
  ASSUME NEW o
  PROVE  Allocator!Free(o) <=> AP!Free(o)
  BY Zenon DEF Allocator!Free, AP!Free, Allocator!FreeBlockId, AP!FreeBlockId,
     Allocator!Release, AP!Release

LEMMA SameSwapOut ==
  ASSUME NEW o
  PROVE  Allocator!SwapOut(o) <=> AP!SwapOut(o)
  BY Zenon DEF Allocator!SwapOut, AP!SwapOut, Allocator!FreeBlockId, AP!FreeBlockId,
     Allocator!Release, AP!Release

LEMMA SamePromotion ==
  ASSUME NEW o, NEW h
  PROVE  /\ Allocator!PromoteNew(o, h) <=> AP!PromoteNew(o, h)
         /\ Allocator!PromoteOntoCached(o, h) <=> AP!PromoteOntoCached(o, h)
  BY Zenon DEF Allocator!PromoteNew, AP!PromoteNew,
     Allocator!PromoteOntoCached, AP!PromoteOntoCached

LEMMA SameMark == Allocator!MarkBlocksAsComputed <=> AP!MarkBlocksAsComputed
  BY Zenon DEF Allocator!MarkBlocksAsComputed, AP!MarkBlocksAsComputed

LEMMA SameNext == Allocator!Next <=> AP!Next
  BY Zenon, SameAllocateBlock, SameSwapIn, SameFree, SameSwapOut, SamePromotion, SameMark
  DEF Allocator!Next, AP!Next

LEMMA SameVars ==
  /\ (UNCHANGED Allocator!vars) <=> UNCHANGED AP!vars
  /\ (UNCHANGED Allocator!vars) <=> UNCHANGED allocatorVars
  BY DEF Allocator!vars, AP!vars, Allocator!pool, AP!pool, allocatorVars

(* An operation of the allocator preserves its invariant. *)
LEMMA AllocatorKeepsIInv ==
  ASSUME AP!IInv, [Allocator!Next]_(Allocator!vars)
  PROVE  AP!IInv'
<1>1. AP!IsFiniteSet(Objs) /\ AP!IsFiniteSet(BlockIds)
  BY SameFiniteness, ObjsFinite, KvAssumption
<1>2. [AP!Next]_(AP!vars)
  BY SameNext, SameVars
<1> QED BY <1>1, <1>2, KvAssumption, AP!NextKeepsIInv

LEMMA AllocatorInit ==
  ASSUME Allocator!Init
  PROVE  AP!IInv
<1>1. AP!IsFiniteSet(Objs) /\ AP!IsFiniteSet(BlockIds)
  BY SameFiniteness, ObjsFinite, KvAssumption
<1>2. AP!Init
  BY DEF Allocator!Init, AP!Init
<1> QED BY <1>1, <1>2, KvAssumption, AP!InitIInv

-----------------------------------------------------------------------------
(* Hashes, jobs and what a batch computes. *)

LEMMA NonEmpty ==
  ASSUME NEW S, NEW s \in Seq(S)
  PROVE  Len(s) \in Nat /\ (s # <<>> <=> Len(s) > 0)
  OBVIOUS

(* Prefixes of a sequence. *)
LEMMA PrefixProperties ==
  ASSUME NEW S, NEW s \in Seq(S), NEW n \in 0..Len(s)
  PROVE  /\ SubSeq(s, 1, n) \in Seq(S)
         /\ SubSeq(s, 1, n) \in [1..n -> S]
         /\ Len(SubSeq(s, 1, n)) = n
         /\ \A i \in 1..n : SubSeq(s, 1, n)[i] = s[i]
<1>1. n \in Nat /\ Len(s) \in Nat /\ n <= Len(s)
  OBVIOUS
<1>2. \A i \in 1..n : s[i] \in S
  BY <1>1
<1>3. /\ SubSeq(s, 1, n) \in Seq(S)
      /\ Len(SubSeq(s, 1, n)) = IF 1 <= n THEN n - 1 + 1 ELSE 0
      /\ \A i \in 1..(n - 1 + 1) : SubSeq(s, 1, n)[i] = s[1 + i - 1]
  BY <1>1, <1>2, SubSeqProperties
<1>4. n - 1 + 1 = n /\ \A i \in 1..n : 1 + i - 1 = i
  BY <1>1
<1>5. Len(SubSeq(s, 1, n)) = n
  BY <1>1, <1>3
<1>6. \A i \in 1..n : SubSeq(s, 1, n)[i] = s[i]
  BY <1>3, <1>4
<1>7. SubSeq(s, 1, n) \in [1..n -> S]
  <2> DEFINE t == SubSeq(s, 1, n)
  <2> HIDE DEF t
  <2>1. t \in Seq(S) /\ Len(t) = n
    BY <1>3, <1>5 DEF t
  <2>2. t \in [1..Len(t) -> S]
    BY <2>1, LenProperties
  <2> QED BY <2>1, <2>2 DEF t
<1> QED BY <1>3, <1>5, <1>6, <1>7

LEMMA PrefixEqual ==
  ASSUME NEW S, NEW s \in Seq(S), NEW t \in Seq(S), NEW n \in 0..Len(s), n <= Len(t)
  PROVE  SubSeq(s, 1, n) = SubSeq(t, 1, n) <=> \A i \in 1..n : s[i] = t[i]
<1>1. n \in 0..Len(t) /\ n \in Nat
  OBVIOUS
<1>2. \A i \in 1..n : SubSeq(s, 1, n)[i] = s[i] /\ SubSeq(t, 1, n)[i] = t[i]
  BY <1>1, PrefixProperties
<1>3. SubSeq(s, 1, n) \in [1..n -> S] /\ SubSeq(t, 1, n) \in [1..n -> S]
  BY <1>1, PrefixProperties
<1> QED BY <1>2, <1>3

LEMMA PrefixOfPrefix ==
  ASSUME NEW S, NEW s \in Seq(S), NEW n \in 0..Len(s), NEW m \in 0..n
  PROVE  SubSeq(SubSeq(s, 1, n), 1, m) = SubSeq(s, 1, m)
<1> DEFINE t == SubSeq(s, 1, n)
<1>1. t \in Seq(S) /\ Len(t) = n /\ \A i \in 1..n : t[i] = s[i]
  BY PrefixProperties
<1>2. m \in 0..Len(t) /\ m <= Len(s) /\ \A i \in 1..m : i \in 1..n
  BY <1>1
<1> HIDE DEF t
<1>3. \A i \in 1..m : t[i] = s[i]
  BY <1>1, <1>2
<1>4. SubSeq(t, 1, m) = SubSeq(s, 1, m)
  BY <1>1, <1>2, <1>3, PrefixEqual
<1> QED BY <1>4 DEF t

LEMMA TokensInTables == TokenIds \subseteq TableTokens
  BY DEF TableTokens

LEMMA HashTyped ==
  ASSUME NEW toks \in Seq(TableTokens), NEW i \in 1..NumBlocks
  PROVE  PrefixHash(toks, i) \in Hashes \cup {INVALID_HASH_VALUE}
<1>1. i \in Int /\ 0 < i /\ i * blockSize \in Int /\ 0 * blockSize = 0
  BY BlockFits, Multiples, Sizes
<1>2. 0 < i * blockSize
  BY <1>1, Multiples
<1>3. ASSUME i * blockSize <= Len(toks)
      PROVE  SubSeq(toks, 1, i * blockSize) \in [1..(i * blockSize) -> TableTokens]
  <2> DEFINE n == i * blockSize
  <2>1. n \in 0..Len(toks)
    BY <1>1, <1>2, <1>3
  <2> HIDE DEF n
  <2>2. SubSeq(toks, 1, n) \in [1..n -> TableTokens]
    BY <2>1, PrefixProperties
  <2> QED BY <2>2 DEF n
<1>4. [1..(i * blockSize) -> TableTokens] \subseteq Hashes
  BY KvAssumption
<1> QED BY <1>3, <1>4 DEF PrefixHash

LEMMA JobTyped ==
  ASSUME job \in Jobs
  PROVE  /\ job.call \in {"Allocate", "Free"} => /\ job.seq \in Seqs /\ job.next \in 1..NumBlocks
                                                 /\ job = [call |-> job.call, seq |-> job.seq, next |-> job.next]
         /\ job.call = "AppendSlot" => job.seq \in Seqs /\ job = [call |-> "AppendSlot", seq |-> job.seq]
         /\ job.call \notin {"Allocate", "Free", "AppendSlot"} => Idle
  BY DEF Jobs, NoJob, Idle

LEMMA JobNamed ==
  ASSUME job \in Jobs, NEW c \in {"Allocate", "Free"}, job.call = c
  PROVE  \E s \in Seqs, i \in 1..NumBlocks : job = [call |-> c, seq |-> s, next |-> i]
  BY JobTyped

LEMMA NoJobIsNoCall == NoJob.call = "none"
  BY DEF NoJob

(* A batch computes positions of the table. *)
LEMMA ComputedRange ==
  ASSUME NEW s \in Seqs, Types, Len(table[s]) > 0
  PROVE  /\ NumCachedTokens(s) \in Nat
         /\ FirstComputed(s) \in Nat /\ FirstComputed(s) > 0
         /\ LastComputed(s) \in 1..Len(table[s])
<1>1. Len(table[s]) \in Nat /\ written[s] \in Nat /\ ChunkSize \in Nat /\ ChunkSize > 0
  BY KvAssumption, Sizes DEF Types
<1> DEFINE D == {i \in 1..(Len(table[s]) \div blockSize) :
                   \A j \in 1..i : IsBlockCached(prefixHash[<<s, j>>])}
<1>2. Cardinality(D) \in Nat
  <2>1. (Len(table[s]) \div blockSize) \in Int
    BY <1>1, Sizes
  <2>2. IsFiniteSet(1..(Len(table[s]) \div blockSize))
    BY <2>1, FS_Interval
  <2>3. IsFiniteSet(D)
    BY <2>2, FS_Subset
  <2> QED BY <2>3, FS_CardinalityType
<1>3. NumCachedTokens(s) = blockSize * Cardinality(D)
  BY DEF NumCachedTokens
<1>4. NumCachedTokens(s) \in Nat
  <2> HIDE DEF D
  <2> QED BY <1>2, <1>3, Sizes
<1>5. FirstComputed(s) \in Nat /\ FirstComputed(s) > 0
  BY <1>1, <1>4 DEF FirstComputed
<1> HIDE DEF D
<1>6. LastComputed(s) \in 1..Len(table[s])
  BY <1>1, <1>5 DEF LastComputed
<1> QED BY <1>4, <1>5, <1>6

(* A sequence's tokens and table never outgrow its block objects. *)
LEMMA BlocksFit ==
  ASSUME Base, NEW s \in Seqs
  PROVE  /\ Len(tokens[s]) \in Nat /\ Len(table[s]) \in Nat
         /\ tokens[s] # <<>> => /\ Len(tokens[s]) \in 1..maxSeqLen
                                /\ BlockOf(Len(tokens[s])) \in 1..NumBlocks
         /\ Admitted(s) => /\ Len(table[s]) \in 1..maxSeqLen
                           /\ BlockOf(Len(table[s])) \in 1..NumBlocks
                           /\ tokens[s] # <<>>
<1>1. tokens[s] \in Seq(TokenIds) /\ table[s] \in Seq(TableTokens)
  BY DEF Base, Types
<1>2. /\ Len(tokens[s]) \in Nat /\ (tokens[s] # <<>> <=> Len(tokens[s]) > 0)
      /\ Len(table[s]) \in Nat /\ (table[s] # <<>> <=> Len(table[s]) > 0)
  BY <1>1, NonEmpty
<1>3. Len(table[s]) <= Len(tokens[s]) /\ Len(tokens[s]) <= maxSeqLen
  BY DEF Base, Lengths
<1>4. tokens[s] # <<>> => Len(tokens[s]) \in 1..maxSeqLen
  BY <1>2, <1>3, Sizes
<1>5. Admitted(s) => Len(table[s]) \in 1..maxSeqLen /\ tokens[s] # <<>>
  BY <1>2, <1>3, Sizes DEF Admitted
<1> QED BY <1>2, <1>4, <1>5, BlockFits

LEMMA ObjTyped ==
  ASSUME NEW s \in Seqs, NEW i \in 1..NumBlocks
  PROVE  <<s, i>> \in Objs
  BY KvAssumption

-----------------------------------------------------------------------------
(* Every step is one of the allocator, or leaves it alone. *)

LEMMA AllocateNextImplements ==
  ASSUME Base, AllocateNext
  PROVE  /\ Allocator!Next
         /\ PrefixHash(tokens[job.seq], job.next) \in Hashes \cup {INVALID_HASH_VALUE}
<1> DEFINE s == job.seq
           i == job.next
           h == PrefixHash(tokens[s], i)
<1>1. job.call = "Allocate" /\ Allocator!AllocateBlock(<<s, i>>, h)
  BY DEF AllocateNext
<1>2. s \in Seqs /\ i \in 1..NumBlocks
  BY <1>1, JobTyped DEF Base, Types
<1>3. tokens[s] \in Seq(TokenIds)
  BY <1>2 DEF Base, Types
<1>4. tokens[s] \in Seq(TableTokens)
  BY <1>3, TokensInTables
<1>5. h \in Hashes \cup {INVALID_HASH_VALUE}
  BY <1>2, <1>4, HashTyped
<1>6. <<s, i>> \in Objs
  BY <1>2, ObjTyped
<1> HIDE DEF h, s, i
<1>7. Allocator!Next
  BY <1>1, <1>5, <1>6 DEF Allocator!Next
<1> QED BY <1>5, <1>7 DEF h, s, i

LEMMA EnsureEnoughSlotsImplements ==
  ASSUME Base, NEW s \in Seqs, EnsureEnoughSlots(s)
  PROVE  Allocator!Next
<1>1. tokens[s] # <<>>
  BY BlocksFit DEF EnsureEnoughSlots, CanAppend
<1>2. <<s, BlockOf(Len(tokens[s]))>> \in Objs
  BY <1>1, BlocksFit, ObjTyped
<1>3. INVALID_HASH_VALUE \in Hashes \cup {INVALID_HASH_VALUE}
  OBVIOUS
<1> QED BY <1>2, <1>3 DEF EnsureEnoughSlots, Allocator!Next

(* AppendSlot: the table is one token short and the block is there. *)
LEMMA AppendSlotState ==
  ASSUME Base, NEW s \in Seqs, AppendSlot(s)
  PROVE  /\ AppendToken(s)
         /\ Admitted(s) /\ s \notin batch /\ s \in decoding
         /\ Idle \/ In("AppendSlot", s)
         /\ Len(tokens[s]) = Len(table[s]) + 1
         /\ NewToken(s) \in TableTokens
         /\ Append(table[s], NewToken(s)) \in Seq(TableTokens)
         /\ Len(Append(table[s], NewToken(s))) = Len(tokens[s])
         /\ <<s, BlockOf(Len(tokens[s]))>> \in Objs
         /\ BlockOf(Len(tokens[s])) \in 1..NumBlocks
         /\ Owns(s) = 1..BlockOf(Len(tokens[s]))
<1>1. AppendToken(s)
  BY DEF AppendSlot
<1>2. /\ Admitted(s) /\ s \notin batch /\ s \in decoding
      /\ Idle \/ In("AppendSlot", s)
      /\ Len(tokens[s]) = Len(table[s]) + 1
  BY DEF AppendSlot, CanAppend, IsPrefill, Base, Calls, Batches, In
<1>3. tokens[s] # <<>>
  BY <1>2, BlocksFit
<1>4. <<s, BlockOf(Len(tokens[s]))>> \in Objs /\ BlockOf(Len(tokens[s])) \in 1..NumBlocks
  BY <1>3, BlocksFit, ObjTyped
<1>5. tokens[s] \in Seq(TokenIds) /\ table[s] \in Seq(TableTokens)
  BY DEF Base, Types
<1>6. NewToken(s) \in TableTokens
  <2>1. Last(tokens[s]) \in TokenIds
    <3>1. Len(tokens[s]) \in 1..Len(tokens[s])
      BY <1>3, BlocksFit
    <3> QED BY <1>5, <3>1 DEF Last
  <2> QED BY <2>1 DEF NewToken, TableTokens
<1>7. /\ Append(table[s], NewToken(s)) \in Seq(TableTokens)
      /\ Len(Append(table[s], NewToken(s))) = Len(tokens[s])
  BY <1>2, <1>5, <1>6
<1>8. Owns(s) = 1..BlockOf(Len(tokens[s]))
  <2>1. CASE In("AppendSlot", s)
    BY <2>1 DEF Owns, In
  <2>2. CASE ~In("AppendSlot", s)
    <3>1. CanAppend(s) /\ Len(table[s]) % blockSize # 0
      BY <2>2 DEF AppendSlot, In
    <3>2. Idle
      BY <3>1 DEF CanAppend
    <3>3. Len(table[s]) \in Nat \ {0}
      BY <1>2, BlocksFit
    <3>4. BlockOf(Len(tokens[s])) = BlockOf(Len(table[s]))
      BY <1>2, <3>1, <3>3, BlockNext
    <3> QED BY <1>2, <3>2, <3>4, NoJobIsNoCall DEF Owns, In, Idle
  <2> QED BY <2>1, <2>2
<1> QED BY <1>1, <1>2, <1>4, <1>6, <1>7, <1>8

LEMMA AppendSlotImplements ==
  ASSUME Base, NEW s \in Seqs, AppendSlot(s)
  PROVE  Allocator!Next \/ UNCHANGED allocatorVars
<1> DEFINE o == <<s, BlockOf(Len(tokens[s]))>>
           toks == Append(table[s], NewToken(s))
           h == PrefixHash(toks, BlockOf(Len(toks)))
<1>1. IF h = INVALID_HASH_VALUE
        THEN UNCHANGED allocatorVars
        ELSE Allocator!PromoteNew(o, h) \/ Allocator!PromoteOntoCached(o, h)
  BY AppendSlotState DEF AppendToken
<1>2. o \in Objs /\ h \in Hashes \cup {INVALID_HASH_VALUE}
  BY AppendSlotState, HashTyped
<1> HIDE DEF o, h
<1> QED BY <1>1, <1>2 DEF Allocator!Next

LEMMA FreeNextImplements ==
  ASSUME Base, FreeNext
  PROVE  Allocator!Next
<1>1. job.call = "Free" /\ Allocator!Free(<<job.seq, job.next>>)
  BY DEF FreeNext
<1>2. job.seq \in Seqs /\ job.next \in 1..NumBlocks
  BY <1>1, JobTyped DEF Base, Types
<1> QED BY <1>1, <1>2, ObjTyped DEF Allocator!Next

LEMMA StepImplements ==
  ASSUME Base, [Next]_vars
  PROVE  [Allocator!Next]_(Allocator!vars)
<1>1. ASSUME NEW s \in Seqs, NEW p \in Prompts, Admit(s, p)
      PROVE  UNCHANGED allocatorVars
  BY <1>1 DEF Admit
<1>2. ASSUME NEW s \in Seqs, ContinuePrefill(s) \/ End(s)
      PROVE  UNCHANGED allocatorVars
  BY <1>2 DEF ContinuePrefill, End
<1>3. ASSUME ExecuteBatch
      PROVE  Allocator!Next \/ UNCHANGED allocatorVars
  BY <1>3 DEF ExecuteBatch, MarkComputed, Allocator!Next
<1>4. ASSUME UNCHANGED vars
      PROVE  UNCHANGED allocatorVars
  BY <1>4 DEF vars
<1>5. Allocator!Next \/ UNCHANGED allocatorVars
  BY <1>1, <1>2, <1>3, <1>4, AllocateNextImplements, EnsureEnoughSlotsImplements,
     AppendSlotImplements, FreeNextImplements DEF Next
<1> QED BY <1>5, SameVars

-----------------------------------------------------------------------------
(* Every step preserves the base invariant. *)

LEMMA KvKeptTyped ==
  ASSUME Types, KvKept
  PROVE  kv' \in [BlockIds -> [1..blockSize -> Seq(TokenIds)]]
<1>1. Blank \in [1..blockSize -> Seq(TokenIds)]
  BY DEF Blank
<1> QED BY <1>1 DEF Types, KvKept

LEMMA PromptTyped ==
  ASSUME NEW p \in Prompts
  PROVE  p \in Seq(TokenIds) /\ Len(p) \in 1..maxSeqLen
<1>1. PICK n \in 1..MaxPrompt : p \in [1..n -> TokenIds]
  BY DEF Prompts
<1>2. n \in Nat /\ 1 <= n /\ n <= maxSeqLen
  BY KvAssumption, Sizes
<1> QED BY <1>1, <1>2

LEMMA AdmitKeepsBase ==
  ASSUME Base, NEW s \in Seqs, NEW p \in Prompts, Admit(s, p)
  PROVE  Base'
<1> USE DEF Admit
<1>1. p \in Seq(TokenIds) /\ Len(p) \in 1..maxSeqLen /\ p # <<>>
  BY PromptTyped
<1>2. BlockOf(Len(p)) \in 1..NumBlocks /\ 1 \in 1..NumBlocks
  BY <1>1, BlockFits
<1>3. ~Admitted(s) /\ Len(table[s]) = 0
  <2>1. ~Admitted(s)
    BY BlocksFit
  <2> QED BY <2>1 DEF Admitted
<1>4. job.call = "none" /\ job'.call = "Allocate" /\ job'.seq = s /\ job'.next = 1
  BY NoJobIsNoCall DEF Idle
<1>5. \A t \in Seqs : t # s => tokens'[t] = tokens[t]
  BY DEF Base, Types
<1>6. tokens'[s] = p /\ table' = table
  BY DEF Base, Types
<1>7. Types'
  BY <1>1, <1>2 DEF Base, Types, Jobs
<1>8. Lengths'
  BY <1>1, <1>3, <1>4, <1>5, <1>6, Sizes DEF Base, Lengths, Admitted, In, IsPrefill, Types
<1>9. Batches'
  BY <1>3, <1>4, <1>5, <1>6 DEF Base, Batches, Admitted, In, Types
<1>10. Calls'
  BY <1>1, <1>2, <1>3, <1>4, <1>5, <1>6 DEF Base, Calls, Admitted, In
<1>11. Owned'
  <2>1. ASSUME NEW t \in Seqs, t # s PROVE Owns(t)' = Owns(t)
    BY <1>4, <1>5, <1>6, <2>1 DEF Owns, In, Admitted
  <2>2. Owns(s) = {} /\ Owns(s)' = {}
    BY <1>3, <1>4 DEF Owns, In
  <2>3. acquired' = acquired
    BY DEF allocatorVars
  <2> QED BY <2>1, <2>2, <2>3 DEF Base, Owned
<1> QED BY <1>7, <1>8, <1>9, <1>10, <1>11 DEF Base

LEMMA ContinuePrefillKeepsBase ==
  ASSUME Base, NEW s \in Seqs, ContinuePrefill(s)
  PROVE  Base'
<1> USE DEF ContinuePrefill
<1>1. job.call = "none"
  BY NoJobIsNoCall DEF Idle
<1>2. Types'
  BY DEF Base, Types
<1>3. Lengths' /\ Calls'
  BY DEF Base, Lengths, Calls, Admitted, In, IsPrefill
<1>4. Batches'
  BY <1>1 DEF Base, Batches, Lengths, Admitted, In, IsPrefill
<1>5. Owned'
  <2>1. ASSUME NEW t \in Seqs PROVE Owns(t)' = Owns(t)
    BY DEF Owns, In, Admitted
  <2> QED BY <2>1 DEF Base, Owned, allocatorVars
<1> QED BY <1>2, <1>3, <1>4, <1>5 DEF Base

LEMMA EndKeepsBase ==
  ASSUME Base, NEW s \in Seqs, End(s)
  PROVE  Base'
<1> USE DEF End
<1>1. job.call = "none" /\ job'.call = "Free" /\ job'.seq = s /\ job'.next = 1
  BY NoJobIsNoCall DEF Idle
<1>2. BlockOf(Len(table[s])) \in 1..NumBlocks /\ 1 \in 1..NumBlocks
  BY BlocksFit, BlockFits
<1>3. Types'
  BY <1>2, Sizes DEF Base, Types, Jobs
<1>4. Lengths'
  BY <1>1 DEF Base, Lengths, Admitted, In, IsPrefill
<1>5. Batches'
  BY <1>1 DEF Base, Batches, Admitted, In
<1>6. Calls'
  BY <1>1, <1>2 DEF Base, Calls, Admitted, In
<1>7. Owned'
  <2>1. ASSUME NEW t \in Seqs PROVE Owns(t)' = Owns(t)
    BY <1>1, <2>1 DEF Owns, In, Admitted
  <2> QED BY <2>1 DEF Base, Owned, allocatorVars
<1> QED BY <1>3, <1>4, <1>5, <1>6, <1>7 DEF Base

LEMMA EnsureEnoughSlotsKeepsBase ==
  ASSUME Base, NEW s \in Seqs, EnsureEnoughSlots(s)
  PROVE  Base'
<1> USE DEF EnsureEnoughSlots, CanAppend
<1>1. job.call = "none" /\ job'.call = "AppendSlot" /\ job'.seq = s
  BY NoJobIsNoCall DEF Idle
<1>2. Types'
  BY KvKeptTyped DEF Base, Types, Jobs
<1>3. Lengths'
  BY <1>1 DEF Base, Lengths, Admitted, In, IsPrefill
<1>4. Batches'
  BY <1>1 DEF Base, Batches, Admitted, In
<1>5. Calls'
  BY <1>1 DEF Base, Calls, Admitted, In, IsPrefill
<1>6. Owned'
  <2>1. ASSUME NEW t \in Seqs, t # s PROVE Owns(t)' = Owns(t)
    BY <1>1, <2>1 DEF Owns, In, Admitted
  <2>2. Owns(s) = 1..BlockOf(Len(table[s])) /\ Owns(s)' = 1..BlockOf(Len(tokens[s]))
    BY <1>1 DEF Owns, In
  <2>3. Len(table[s]) \in Nat \ {0} /\ BlockOf(Len(table[s])) \in Nat
    <3>1. Len(table[s]) \in 1..maxSeqLen /\ BlockOf(Len(table[s])) \in 1..NumBlocks
      BY BlocksFit
    <3> QED BY <3>1
  <2>4. BlockOf(Len(tokens[s])) = BlockOf(Len(table[s])) + 1
    BY <2>3, BlockNext
  <2>5. Owns(s)' = Owns(s) \cup {BlockOf(Len(tokens[s]))}
    BY <2>2, <2>3, <2>4
  <2>6. acquired' = acquired \cup {<<s, BlockOf(Len(tokens[s]))>>}
    BY DEF Allocator!AllocateBlock
  <2> QED BY <2>1, <2>5, <2>6 DEF Base, Owned
<1> QED BY <1>2, <1>3, <1>4, <1>5, <1>6 DEF Base

LEMMA AppendSlotKeepsBase ==
  ASSUME Base, NEW s \in Seqs, AppendSlot(s)
  PROVE  Base'
<1> DEFINE toks == Append(table[s], NewToken(s))
<1>1. /\ table' = [table EXCEPT ![s] = toks]
      /\ batch' = batch \cup {s}
      /\ job' = NoJob /\ job'.call = "none"
      /\ KvKept
      /\ UNCHANGED <<tokens, written, decoding, lastBatch>>
  BY AppendSlotState, NoJobIsNoCall DEF AppendToken
<1>2. acquired' = acquired
  BY AppendSlotState
  DEF AppendToken, allocatorVars, Allocator!PromoteNew, Allocator!PromoteOntoCached
<1>3. toks \in Seq(TableTokens) /\ Len(toks) = Len(tokens[s])
  BY AppendSlotState
<1>4. Idle \/ In("AppendSlot", s)
  BY AppendSlotState
<1>5. \A t \in Seqs : t # s => ~In("Allocate", t) /\ ~In("Free", t) /\ ~In("AppendSlot", t)
  BY <1>4, NoJobIsNoCall DEF In, Idle
<1> HIDE DEF toks
<1>6. table'[s] = toks /\ \A t \in Seqs : t # s => table'[t] = table[t]
  BY <1>1 DEF Base, Types
<1>7. toks # <<>> /\ Len(tokens[s]) \in 1..maxSeqLen
  <2>1. Admitted(s)
    BY AppendSlotState
  <2>2. Len(tokens[s]) \in 1..maxSeqLen
    BY <2>1, BlocksFit
  <2> QED BY <1>3, <2>2, NonEmpty
<1>8. Types'
  BY <1>1, <1>3, KvKeptTyped DEF Base, Types, Jobs
<1>9. Lengths'
  BY <1>1, <1>3, <1>5, <1>6, <1>7 DEF Base, Lengths, Admitted, In, IsPrefill
<1>10. Batches'
  BY <1>1, <1>3, <1>5, <1>6, <1>7 DEF Base, Batches, Admitted, In
<1>11. Calls'
  BY <1>1 DEF Calls, In
<1>12. Owned'
  <2>1. ASSUME NEW t \in Seqs, t # s PROVE Owns(t)' = Owns(t)
    BY <1>1, <1>5, <1>6, <2>1 DEF Owns, In, Admitted
  <2>2. Owns(s)' = 1..BlockOf(Len(tokens[s]))
    BY <1>1, <1>3, <1>6, <1>7 DEF Owns, In, Admitted
  <2>3. Owns(s)' = Owns(s)
    BY <2>2, AppendSlotState
  <2> QED BY <1>2, <2>1, <2>3 DEF Base, Owned
<1> QED BY <1>8, <1>9, <1>10, <1>11, <1>12 DEF Base

LEMMA AllocateNextKeepsBase ==
  ASSUME Base, AllocateNext, NEW s \in Seqs, NEW i \in 1..NumBlocks,
         job = [call |-> "Allocate", seq |-> s, next |-> i]
  PROVE  Base'
<1>1. job.call = "Allocate" /\ job.seq = s /\ job.next = i /\ i \in Nat
  BY BlockFits
<1>2. /\ acquired' = acquired \cup {<<s, i>>}
      /\ KvKept /\ UNCHANGED <<tokens, written, decoding, lastBatch>>
      /\ IF i = BlockOf(Len(tokens[s]))
           THEN /\ table' = [table EXCEPT ![s] = tokens[s]]
                /\ batch' = batch \cup {s}
                /\ job' = NoJob
           ELSE /\ job' = [job EXCEPT !.next = i + 1]
                /\ UNCHANGED <<table, batch>>
  BY <1>1 DEF AllocateNext, Allocator!AllocateBlock
<1>3. \A t \in Seqs : /\ In("Allocate", t) <=> t = s
                      /\ ~In("Free", t) /\ ~In("AppendSlot", t)
  BY <1>1 DEF In
<1>4. /\ ~Admitted(s) /\ tokens[s] # <<>> /\ i <= BlockOf(Len(tokens[s]))
      /\ BlockOf(Len(tokens[s])) \in 1..NumBlocks /\ Len(tokens[s]) \in 1..maxSeqLen
  <2>1. ~Admitted(s) /\ tokens[s] # <<>> /\ job.next <= BlockOf(Len(tokens[s]))
    BY <1>1, <1>3 DEF Base, Calls
  <2> QED BY <1>1, <2>1, BlocksFit
<1>5. \A t \in Seqs : t # s => Owns(t)' = Owns(t)
  <2>1. \A t \in Seqs : t # s => table'[t] = table[t] /\ tokens'[t] = tokens[t]
    BY <1>2 DEF Base, Types
  <2>2. \A t \in Seqs : t # s => ~In("Allocate", t)' /\ ~In("Free", t)' /\ ~In("AppendSlot", t)'
    BY <1>1, <1>2, NoJobIsNoCall DEF In
  <2> QED BY <1>3, <2>1, <2>2 DEF Owns, Admitted
<1>6. Owns(s) = 1..(i - 1)
  BY <1>1, <1>3 DEF Owns
<1>7. s \notin batch /\ s \notin decoding
  BY <1>4 DEF Base, Batches
<1>8. CASE i = BlockOf(Len(tokens[s]))
  <2>1. /\ table' = [table EXCEPT ![s] = tokens[s]]
        /\ batch' = batch \cup {s}
        /\ job' = NoJob /\ job'.call = "none"
    BY <1>2, <1>8, NoJobIsNoCall
  <2>2. tokens[s] \in Seq(TableTokens)
    BY <1>1, TokensInTables DEF Base, Types
  <2>3. Types'
    BY <1>1, <1>2, <2>1, <2>2, KvKeptTyped DEF Base, Types, Jobs
  <2>4. table'[s] = tokens[s] /\ \A t \in Seqs : t # s => table'[t] = table[t]
    BY <1>1, <2>1 DEF Base, Types
  <2>5. Len(tokens[s]) <= Len(tokens[s]) + 1 /\ Len(tokens[s]) <= maxSeqLen
    BY <1>4
  <2>6. Lengths'
    BY <1>2, <1>3, <2>1, <2>4, <2>5 DEF Base, Lengths, Admitted, In, IsPrefill
  <2>7. Batches'
    BY <1>2, <1>3, <1>4, <2>1, <2>4 DEF Base, Batches, Admitted, In
  <2>8. Calls'
    BY <2>1 DEF Calls, In
  <2>9. Owns(s)' = 1..i
    BY <1>2, <1>4, <1>8, <2>1, <2>4 DEF Owns, In, Admitted
  <2>10. Owns(s)' = Owns(s) \cup {i}
    BY <1>1, <1>6, <2>9
  <2>11. Owned'
    BY <1>2, <1>5, <2>10 DEF Base, Owned
  <2> QED BY <2>3, <2>6, <2>7, <2>8, <2>11 DEF Base
<1>9. CASE i # BlockOf(Len(tokens[s]))
  <2>1. /\ job' = [call |-> "Allocate", seq |-> s, next |-> i + 1]
        /\ UNCHANGED <<table, batch, tokens, written, decoding, lastBatch>>
    BY <1>1, <1>2, <1>9
  <2>2. i + 1 \in 1..NumBlocks /\ i + 1 <= BlockOf(Len(tokens[s]))
    BY <1>1, <1>4, <1>9, BlockFits
  <2>3. Types'
    BY <1>1, <1>2, <2>1, <2>2, KvKeptTyped DEF Base, Types, Jobs
  <2>4. \A t \in Seqs : /\ In("Allocate", t)' <=> t = s
                        /\ ~In("Free", t)' /\ ~In("AppendSlot", t)'
    BY <2>1 DEF In
  <2>5. Lengths' /\ Batches'
    <3>1. Lengths'
      BY <1>3, <2>1, <2>4 DEF Base, Lengths, Admitted, IsPrefill
    <3>2. Batches'
      BY <1>3, <1>7, <2>1, <2>4 DEF Base, Batches, Admitted, Types
    <3> QED BY <3>1, <3>2
  <2>6. Calls'
    BY <1>4, <2>1, <2>2, <2>4 DEF Base, Calls, Admitted
  <2>7. Owns(s)' = 1..(i + 1 - 1)
    BY <1>1, <2>1, <2>4 DEF Owns
  <2>8. Owns(s)' = Owns(s) \cup {i}
    BY <1>1, <1>6, <2>7
  <2>9. Owned'
    BY <1>2, <1>5, <2>8 DEF Base, Owned
  <2> QED BY <2>3, <2>5, <2>6, <2>9 DEF Base
<1> QED BY <1>8, <1>9

LEMMA FreeNextKeepsBase ==
  ASSUME Base, FreeNext, NEW s \in Seqs, NEW i \in 1..NumBlocks,
         job = [call |-> "Free", seq |-> s, next |-> i]
  PROVE  Base'
<1>1. job.call = "Free" /\ job.seq = s /\ job.next = i /\ i \in Nat
  BY BlockFits
<1>2. /\ acquired' = acquired \ {<<s, i>>}
      /\ KvKept /\ UNCHANGED <<written, decoding, batch>>
      /\ IF i = BlockOf(Len(table[s]))
           THEN /\ tokens' = [tokens EXCEPT ![s] = <<>>]
                /\ table' = [table EXCEPT ![s] = <<>>]
                /\ lastBatch' = lastBatch \ {s}
                /\ job' = NoJob
           ELSE /\ job' = [job EXCEPT !.next = i + 1]
                /\ UNCHANGED <<tokens, table, lastBatch>>
  BY <1>1 DEF FreeNext, Allocator!Free
<1>3. \A t \in Seqs : /\ In("Free", t) <=> t = s
                      /\ ~In("Allocate", t) /\ ~In("AppendSlot", t)
  BY <1>1 DEF In
<1>4. /\ Admitted(s) /\ i <= BlockOf(Len(table[s]))
      /\ BlockOf(Len(table[s])) \in 1..NumBlocks
  <2>1. Admitted(s) /\ job.next <= BlockOf(Len(table[s]))
    BY <1>1, <1>3 DEF Base, Calls
  <2> QED BY <1>1, <2>1, BlocksFit
<1>5. \A t \in Seqs : t # s => Owns(t)' = Owns(t)
  <2>1. \A t \in Seqs : t # s => table'[t] = table[t] /\ tokens'[t] = tokens[t]
    BY <1>2 DEF Base, Types
  <2>2. \A t \in Seqs : t # s => ~In("Allocate", t)' /\ ~In("Free", t)' /\ ~In("AppendSlot", t)'
    BY <1>1, <1>2, NoJobIsNoCall DEF In
  <2> QED BY <1>3, <2>1, <2>2 DEF Owns, Admitted
<1>6. Owns(s) = i..BlockOf(Len(table[s]))
  BY <1>1, <1>3 DEF Owns
<1>7. s \notin batch /\ s \notin decoding
  BY <1>1, <1>3 DEF Base, Batches
<1>8. CASE i = BlockOf(Len(table[s]))
  <2>1. /\ tokens' = [tokens EXCEPT ![s] = <<>>]
        /\ table' = [table EXCEPT ![s] = <<>>]
        /\ lastBatch' = lastBatch \ {s}
        /\ job' = NoJob /\ job'.call = "none"
    BY <1>2, <1>8, NoJobIsNoCall
  <2>2. Types'
    BY <1>1, <1>2, <2>1, KvKeptTyped DEF Base, Types, Jobs
  <2>3. /\ table'[s] = <<>> /\ tokens'[s] = <<>>
        /\ \A t \in Seqs : t # s => table'[t] = table[t] /\ tokens'[t] = tokens[t]
    BY <1>1, <2>1 DEF Base, Types
  <2>4. Lengths'
    BY <1>2, <1>3, <2>1, <2>3, Sizes DEF Base, Lengths, Admitted, In, IsPrefill
  <2>5. Batches'
    BY <1>2, <1>7, <1>3, <2>1, <2>3 DEF Base, Batches, Admitted, In, Types
  <2>6. Calls'
    BY <2>1 DEF Calls, In
  <2>7. Owns(s)' = {}
    BY <2>1, <2>3 DEF Owns, In, Admitted
  <2>8. Owns(s) = {i}
    BY <1>1, <1>6, <1>8
  <2>9. Owned'
    <3>1. \A t \in Seqs, j \in 1..NumBlocks : <<t, j>> \in acquired' <=>
            <<t, j>> \in acquired /\ (t # s \/ j # i)
      BY <1>2
    <3>2. \A j : j \in Owns(s)' <=> j \in Owns(s) /\ j # i
      BY <2>7, <2>8
    <3> QED BY <1>5, <3>1, <3>2 DEF Base, Owned
  <2> QED BY <2>2, <2>4, <2>5, <2>6, <2>9 DEF Base
<1>9. CASE i # BlockOf(Len(table[s]))
  <2>1. /\ job' = [call |-> "Free", seq |-> s, next |-> i + 1]
        /\ UNCHANGED <<table, batch, tokens, written, decoding, lastBatch>>
    BY <1>1, <1>2, <1>9
  <2>2. i + 1 \in 1..NumBlocks /\ i + 1 <= BlockOf(Len(table[s]))
    BY <1>1, <1>4, <1>9, BlockFits
  <2>3. Types'
    BY <1>1, <1>2, <2>1, <2>2, KvKeptTyped DEF Base, Types, Jobs
  <2>4. \A t \in Seqs : /\ In("Free", t)' <=> t = s
                        /\ ~In("Allocate", t)' /\ ~In("AppendSlot", t)'
    BY <2>1 DEF In
  <2>5. Lengths' /\ Batches'
    <3>1. Lengths'
      BY <1>3, <2>1, <2>4 DEF Base, Lengths, Admitted, IsPrefill
    <3>2. Batches'
      BY <1>3, <1>7, <2>1, <2>4 DEF Base, Batches, Admitted, Types
    <3> QED BY <3>1, <3>2
  <2>6. Calls'
    BY <1>4, <2>1, <2>2, <2>4 DEF Base, Calls, Admitted
  <2>7. Owns(s)' = (i + 1)..BlockOf(Len(table[s]))
    BY <1>1, <2>1, <2>4 DEF Owns
  <2>8. Owns(s)' = Owns(s) \ {i}
    BY <1>1, <1>4, <1>6, <2>7
  <2>9. Owned'
    <3>1. \A t \in Seqs, j \in 1..NumBlocks : <<t, j>> \in acquired' <=>
            <<t, j>> \in acquired /\ (t # s \/ j # i)
      BY <1>2
    <3>2. \A j : j \in Owns(s)' <=> j \in Owns(s) /\ j # i
      BY <2>8
    <3> QED BY <1>5, <3>1, <3>2 DEF Base, Owned
  <2> QED BY <2>3, <2>5, <2>6, <2>9 DEF Base
<1> QED BY <1>8, <1>9

LEMMA BatchComputes ==
  ASSUME Base, NEW s \in batch
  PROVE  /\ s \in Seqs /\ Admitted(s) /\ Len(tokens[s]) = Len(table[s])
         /\ FirstComputed(s) \in Nat /\ FirstComputed(s) > 0
         /\ LastComputed(s) \in 1..Len(table[s])
         /\ LastComputed(s) \in 1..maxSeqLen
<1>1. s \in Seqs /\ Admitted(s) /\ Len(tokens[s]) = Len(table[s])
  BY DEF Base, Types, Batches
<1>2. Len(table[s]) \in 1..maxSeqLen /\ Len(table[s]) > 0
  BY <1>1, BlocksFit
<1>3. LastComputed(s) \in 1..Len(table[s]) /\ FirstComputed(s) \in Nat /\ FirstComputed(s) > 0
  BY <1>1, <1>2, ComputedRange DEF Base
<1>4. LastComputed(s) \in 1..maxSeqLen
  BY <1>2, <1>3, Sizes
<1> QED BY <1>1, <1>3, <1>4

LEMMA WritesTyped ==
  ASSUME Base, NEW b \in BlockIds, NEW i \in 1..blockSize
  PROVE  Writes(b, i) \subseteq Seq(TokenIds)
<1> SUFFICES ASSUME NEW s \in batch, NEW p \in 1..maxSeqLen,
                    p \in FirstComputed(s)..LastComputed(s)
             PROVE  SubSeq(tokens[s], 1, p) \in Seq(TokenIds)
  BY DEF Writes
<1>1. tokens[s] \in Seq(TokenIds)
  BY BatchComputes DEF Base, Types
<1>2. p \in 0..Len(tokens[s])
  BY BatchComputes, BlocksFit
<1> QED BY <1>1, <1>2, PrefixProperties

(* What a batch leaves of a sequence's tokens. *)
LEMMA ExecuteBatchTokens ==
  ASSUME Base, ExecuteBatch
  PROVE  /\ tokens' \in [Seqs -> Seq(TokenIds)]
         /\ \A s \in Seqs \ batch : tokens'[s] = tokens[s]
         /\ \A s \in batch :
              /\ Len(tokens'[s]) \in {Len(tokens[s]), Len(tokens[s]) + 1}
              /\ Len(tokens'[s]) <= maxSeqLen
              /\ LastComputed(s) # Len(table[s]) => tokens'[s] = tokens[s]
              /\ \A p \in 1..Len(tokens[s]) : tokens'[s][p] = tokens[s][p]
<1>1. PICK new \in [batch -> TokenIds] :
        tokens' = [s \in Seqs |->
          IF s \in batch /\ LastComputed(s) = Len(table[s]) /\ Len(tokens[s]) < maxSeqLen
            THEN Append(tokens[s], new[s]) ELSE tokens[s]]
  BY DEF ExecuteBatch
<1>2. \A s \in Seqs : tokens[s] \in Seq(TokenIds) /\ Len(tokens[s]) \in Nat
  BY BlocksFit DEF Base, Types
<1>3. ASSUME NEW s \in batch
      PROVE  /\ s \in Seqs
             /\ Append(tokens[s], new[s]) \in Seq(TokenIds)
             /\ Len(Append(tokens[s], new[s])) = Len(tokens[s]) + 1
             /\ \A p \in 1..Len(tokens[s]) : Append(tokens[s], new[s])[p] = tokens[s][p]
             /\ Len(tokens[s]) <= maxSeqLen
  <2>1. s \in Seqs /\ new[s] \in TokenIds
    BY DEF Base, Types
  <2>2. tokens[s] \in Seq(TokenIds) /\ Len(tokens[s]) <= maxSeqLen
    BY <2>1 DEF Base, Types, Lengths
  <2> QED BY <2>1, <2>2, AppendProperties
<1>4. tokens' \in [Seqs -> Seq(TokenIds)]
  BY <1>1, <1>2, <1>3
<1>5. \A s \in Seqs \ batch : tokens'[s] = tokens[s]
  BY <1>1
<1>6. ASSUME NEW s \in batch
      PROVE  /\ Len(tokens'[s]) \in {Len(tokens[s]), Len(tokens[s]) + 1}
             /\ Len(tokens'[s]) <= maxSeqLen
             /\ LastComputed(s) # Len(table[s]) => tokens'[s] = tokens[s]
             /\ \A p \in 1..Len(tokens[s]) : tokens'[s][p] = tokens[s][p]
  <2>1. CASE tokens'[s] = tokens[s]
    BY <1>3, <2>1
  <2>2. CASE /\ tokens'[s] = Append(tokens[s], new[s]) /\ Len(tokens[s]) < maxSeqLen
             /\ LastComputed(s) = Len(table[s])
    BY <1>2, <1>3, <2>2, Sizes
  <2> QED BY <1>1, <1>3, <2>1, <2>2
<1> QED BY <1>4, <1>5, <1>6

LEMMA ExecuteBatchKeepsBase ==
  ASSUME Base, ExecuteBatch
  PROVE  Base'
<1>1. /\ job.call = "none" /\ job' = job /\ table' = table /\ batch' = {}
      /\ acquired' = acquired
      /\ decoding' = decoding \cup {s \in batch : LastComputed(s) = Len(table[s])}
      /\ lastBatch' \subseteq Seqs
  BY NoJobIsNoCall
  DEF ExecuteBatch, Idle, MarkComputed, Allocator!MarkBlocksAsComputed, allocatorVars, Base, Types
<1>2. written' \in [Seqs -> 0..maxSeqLen]
  <2>1. written' = [s \in Seqs |-> IF s \in batch THEN LastComputed(s) ELSE written[s]]
    BY DEF ExecuteBatch
  <2>2. \A s \in Seqs : written[s] \in 0..maxSeqLen
    BY DEF Base, Types
  <2>3. \A s \in batch : LastComputed(s) \in 0..maxSeqLen
    BY BatchComputes
  <2> QED BY <2>1, <2>2, <2>3
<1>3. kv' \in [BlockIds -> [1..blockSize -> Seq(TokenIds)]]
  <2>1. kv' = [b \in BlockIds |-> [i \in 1..blockSize |->
                 IF Writes(b, i) = {} THEN kv[b][i] ELSE CHOOSE w \in Writes(b, i) : TRUE]]
    BY DEF ExecuteBatch
  <2>2. ASSUME NEW b \in BlockIds, NEW i \in 1..blockSize
        PROVE  (IF Writes(b, i) = {} THEN kv[b][i] ELSE CHOOSE w \in Writes(b, i) : TRUE)
                 \in Seq(TokenIds)
    <3>1. kv[b][i] \in Seq(TokenIds)
      BY DEF Base, Types
    <3>2. Writes(b, i) \subseteq Seq(TokenIds)
      BY WritesTyped
    <3>3. Writes(b, i) # {} => (CHOOSE w \in Writes(b, i) : TRUE) \in Writes(b, i)
      OBVIOUS
    <3> QED BY <3>1, <3>2, <3>3
  <2> QED BY <2>1, <2>2
<1>4. Types'
  BY <1>1, <1>2, <1>3, ExecuteBatchTokens DEF Base, Types
<1>5. \A s \in Seqs : ~In("Allocate", s)' /\ ~In("Free", s)' /\ ~In("AppendSlot", s)'
  BY <1>1 DEF In
<1>6. \A s \in Seqs : ~In("Allocate", s) /\ ~In("Free", s) /\ ~In("AppendSlot", s)
  BY <1>1 DEF In
<1>7. Lengths'
  <2> SUFFICES ASSUME NEW s \in Seqs
               PROVE  /\ Len(table[s]) <= Len(tokens'[s]) /\ Len(tokens'[s]) <= maxSeqLen
                      /\ Admitted(s) => Len(tokens'[s]) <= Len(table[s]) + 1
                      /\ ~Admitted(s) => tokens'[s] = <<>>
                      /\ Admitted(s) /\ s \notin decoding' => Len(tokens'[s]) = Len(table[s])
    BY <1>1, <1>5 DEF Lengths, Admitted, IsPrefill
  <2>1. Len(tokens[s]) \in Nat /\ Len(table[s]) \in Nat
    BY BlocksFit
  <2>2. CASE s \in batch
    <3>1. Len(tokens'[s]) \in {Len(tokens[s]), Len(tokens[s]) + 1} /\ Len(tokens'[s]) <= maxSeqLen
      BY <2>2, ExecuteBatchTokens
    <3>2. Admitted(s) /\ Len(tokens[s]) = Len(table[s])
      BY <2>2, BatchComputes
    <3>3. s \notin decoding' => tokens'[s] = tokens[s]
      BY <1>1, <2>2, ExecuteBatchTokens
    <3> QED BY <2>1, <3>1, <3>2, <3>3
  <2>3. CASE s \notin batch
    <3>1. tokens'[s] = tokens[s]
      BY <2>3, ExecuteBatchTokens
    <3> QED BY <1>1, <1>6, <3>1 DEF Base, Lengths, IsPrefill
  <2> QED BY <2>2, <2>3
<1>8. Batches'
  BY <1>1, <1>5, BatchComputes DEF Base, Batches, Admitted, Types
<1>9. Calls'
  BY <1>5 DEF Calls
<1>10. Owned'
  <2>1. \A s \in Seqs : Owns(s)' = Owns(s)
    BY <1>1, <1>5, <1>6 DEF Owns, Admitted
  <2> QED BY <1>1, <2>1 DEF Base, Owned
<1> QED BY <1>4, <1>7, <1>8, <1>9, <1>10 DEF Base

LEMMA StutterKeepsBase ==
  ASSUME Base, UNCHANGED vars
  PROVE  Base'
<1> USE DEF vars, allocatorVars
<1>1. Types' /\ Lengths' /\ Batches'
  BY DEF Base, Types, Lengths, Batches, Admitted, In, IsPrefill
<1>2. Calls'
  BY DEF Base, Calls, Admitted, In
<1>3. Owned'
  BY DEF Base, Owned, Owns, Admitted, In
<1> QED BY <1>1, <1>2, <1>3 DEF Base

LEMMA NextKeepsBase ==
  ASSUME Base, [Next]_vars
  PROVE  Base'
<1>1. ASSUME AllocateNext PROVE Base'
  <2>1. job \in Jobs /\ job.call = "Allocate"
    BY <1>1 DEF Base, Types, AllocateNext
  <2>2. PICK s \in Seqs, i \in 1..NumBlocks : job = [call |-> "Allocate", seq |-> s, next |-> i]
    BY <2>1, JobNamed
  <2> QED BY <1>1, <2>2, AllocateNextKeepsBase
<1>2. ASSUME FreeNext PROVE Base'
  <2>1. job \in Jobs /\ job.call = "Free"
    BY <1>2 DEF Base, Types, FreeNext
  <2>2. PICK s \in Seqs, i \in 1..NumBlocks : job = [call |-> "Free", seq |-> s, next |-> i]
    BY <2>1, JobNamed
  <2> QED BY <1>2, <2>2, FreeNextKeepsBase
<1> QED
  BY <1>1, <1>2, AdmitKeepsBase, ContinuePrefillKeepsBase, EndKeepsBase, StutterKeepsBase,
     EnsureEnoughSlotsKeepsBase, AppendSlotKeepsBase, ExecuteBatchKeepsBase DEF Next

LEMMA InitBase == Init => KInv
<1> SUFFICES ASSUME Init PROVE Base
  BY AllocatorInit DEF Init, KInv
<1> USE DEF Init
<1>1. job.call = "none"
  BY NoJobIsNoCall
<1>2. Types
  <2>1. Blank \in [1..blockSize -> Seq(TokenIds)]
    BY DEF Blank
  <2> QED BY <2>1, Sizes DEF Types, Jobs
<1>3. Lengths /\ Batches /\ Calls
  BY <1>1, Sizes DEF Lengths, Batches, Calls, Admitted, In
<1>4. Owned
  BY <1>1 DEF Owned, Owns, In, Admitted, Allocator!Init
<1> QED BY <1>2, <1>3, <1>4 DEF Base

LEMMA NextKeepsKInv ==
  ASSUME KInv, [Next]_vars
  PROVE  KInv'
<1>1. Base'
  BY NextKeepsBase DEF KInv
<1>2. AP!IInv'
  BY StepImplements, AllocatorKeepsIInv DEF KInv
<1> QED BY <1>1, <1>2 DEF KInv

(* The invariant of the block tables and that of the allocator below them  *)
(* hold in every reachable state, in every mode.                           *)
THEOREM Invariance == Spec => []KInv
<1>1. KInv /\ [Next]_vars => KInv'
  BY NextKeepsKInv
<1> QED BY <1>1, InitBase, PTL DEF Spec

(* The tables, the tokens and the KV memory keep their types: no request   *)
(* outgrows maxSeqLen, and a batch writes only entries of its sequences.   *)
THEOREM TypeCorrect == Spec => []TypeOK
<1>1. KInv => TypeOK
  BY DEF KInv, Base, Types, Lengths, TypeOK
<1> QED BY <1>1, Invariance, PTL

(* A request's end leaks no block: outside of a call, the objects taken    *)
(* from the pool are those of the tables' blocks.                          *)
THEOREM TablesOwnTheirBlocks == Spec => []TablesOwnBlocks
<1>1. KInv => TablesOwnBlocks
  <2> SUFFICES ASSUME KInv, Idle, NEW s \in Seqs, NEW i \in 1..NumBlocks
               PROVE  <<s, i>> \in acquired <=> table[s] # <<>> /\ i <= BlockOf(Len(table[s]))
    BY DEF TablesOwnBlocks
  <2>1. job.call = "none"
    BY NoJobIsNoCall DEF Idle
  <2>2. Owns(s) = IF table[s] # <<>> THEN 1..BlockOf(Len(table[s])) ELSE {}
    BY <2>1 DEF Owns, In, Admitted
  <2>3. table[s] # <<>> => BlockOf(Len(table[s])) \in Int
    BY BlocksFit, BlockFits DEF KInv, Admitted
  <2> QED BY <2>2, <2>3, BlockFits DEF KInv, Base, Owned
<1> QED BY <1>1, Invariance, PTL

-----------------------------------------------------------------------------
(* The allocator's invariant in the form the next proofs use it. *)

AllocatorTypes ==
  /\ freeBlockIndices \subseteq BlockIds
  /\ refCounts \in [BlockIds -> Nat]
  /\ cachedBlocks \in [Hashes -> BlockIds \cup {INVALID_BLOCKID}]
  /\ candidates \in [BlockIds -> Hashes \cup {INVALID_HASH_VALUE}]
  /\ active \subseteq BlockIds /\ computed \subseteq BlockIds /\ touchedBlocks \subseteq BlockIds
  /\ acquired \subseteq Objs
  /\ blockId \in [Objs -> BlockIds \cup {INVALID_BLOCKID}]
  /\ prefixHash \in [Objs -> Hashes \cup {INVALID_HASH_VALUE}]

(* A block somebody holds is neither free nor evictable, and is tracked. *)
HeldBlocks ==
  /\ \A o \in Objs : blockId[o] \in BlockIds =>
       /\ candidates[blockId[o]] = INVALID_HASH_VALUE
       /\ blockId[o] \notin freeBlockIndices
       /\ blockId[o] \in active
       /\ refCounts[blockId[o]] # 0
  /\ \A b \in BlockIds : refCounts[b] # 0 => \E o \in Objs : blockId[o] = b
  /\ \A o \in Objs : blockId[o] \in BlockIds =>
       (refCounts[blockId[o]] = 1 <=> \A p \in Objs \ {o} : blockId[p] # blockId[o])

(* Two holders of a block have the same hash, that of the cache entry. *)
SharedBlocks ==
  \A o, p \in Objs : blockId[o] \in BlockIds /\ blockId[p] = blockId[o] =>
    /\ prefixHash[p] = prefixHash[o]
    /\ o # p => prefixHash[o] # INVALID_HASH_VALUE

(* A cached block is not free, and waits in the evictor under its hash or  *)
(* is held by objects with that hash.                                      *)
CachedBlocks ==
  /\ \A h \in Hashes : cachedBlocks[h] # INVALID_BLOCKID =>
       /\ cachedBlocks[h] \in BlockIds
       /\ cachedBlocks[h] \notin freeBlockIndices
       /\ candidates[cachedBlocks[h]] # INVALID_HASH_VALUE => candidates[cachedBlocks[h]] = h
       /\ \A o \in Objs : blockId[o] = cachedBlocks[h] => prefixHash[o] = h
  /\ \A o \in Objs : blockId[o] \in BlockIds /\ prefixHash[o] # INVALID_HASH_VALUE =>
       cachedBlocks[prefixHash[o]] = blockId[o]

Pooled == \A o \in Objs \ acquired : blockId[o] = INVALID_BLOCKID

AllocatorFacts == AllocatorTypes /\ HeldBlocks /\ SharedBlocks /\ CachedBlocks /\ Pooled

LEMMA AllocatorTells == AP!IInv => AllocatorFacts
<1> SUFFICES ASSUME AP!IInv PROVE AllocatorFacts
  OBVIOUS
<1> USE KvAssumption
<1>1. AllocatorTypes
  BY DEF AP!IInv, AP!TypeOK, AllocatorTypes
<1>2. AP!IsFiniteSet(Objs) /\ AP!IsFiniteSet(BlockIds)
  BY SameFiniteness, ObjsFinite
<1>3. /\ \A b \in BlockIds : refCounts[b] = 0 <=> \A o \in Objs : blockId[o] # b
      /\ \A o \in Objs : blockId[o] \in BlockIds =>
           (refCounts[blockId[o]] = 1 <=> \A p \in Objs \ {o} : blockId[p] # blockId[o])
  BY <1>2, AP!CountsTell DEF AP!IInv
<1>4. \A b \in BlockIds :
        /\ b \in freeBlockIndices <=> refCounts[b] = 0 /\ candidates[b] = INVALID_HASH_VALUE
        /\ candidates[b] # INVALID_HASH_VALUE => refCounts[b] = 0
        /\ b \in active <=> refCounts[b] # 0
  BY DEF AP!IInv, AP!Places
<1>5. HeldBlocks
  BY <1>3, <1>4 DEF HeldBlocks
<1>6. SharedBlocks
  BY DEF AP!IInv, AP!HoldersAgree, AP!PrivateUntilHashed, SharedBlocks
<1>7. /\ \A o \in Objs : blockId[o] # INVALID_BLOCKID /\ prefixHash[o] # INVALID_HASH_VALUE
                           => cachedBlocks[prefixHash[o]] = blockId[o]
      /\ \A b \in BlockIds : candidates[b] # INVALID_HASH_VALUE => cachedBlocks[candidates[b]] = b
      /\ \A h \in Hashes : cachedBlocks[h] # INVALID_BLOCKID =>
           \/ candidates[cachedBlocks[h]] = h
           \/ \E o \in Objs : blockId[o] = cachedBlocks[h] /\ prefixHash[o] = h
  BY DEF AP!IInv, AP!CacheConsistent, AP!Holders
<1>8. CachedBlocks
  <2>1. ASSUME NEW h \in Hashes, cachedBlocks[h] # INVALID_BLOCKID
        PROVE  /\ cachedBlocks[h] \in BlockIds
               /\ cachedBlocks[h] \notin freeBlockIndices
               /\ candidates[cachedBlocks[h]] # INVALID_HASH_VALUE => candidates[cachedBlocks[h]] = h
               /\ \A o \in Objs : blockId[o] = cachedBlocks[h] => prefixHash[o] = h
    <3> DEFINE c == cachedBlocks[h]
    <3>1. c \in BlockIds
      BY <1>1, <2>1 DEF AllocatorTypes
    <3>2. candidates[c] = h \/ \E o \in Objs : blockId[o] = c /\ prefixHash[o] = h
      BY <1>7, <2>1
    <3>3. h # INVALID_HASH_VALUE
      OBVIOUS
    <3> HIDE DEF c
    <3>4. CASE candidates[c] = h
      <4>1. refCounts[c] = 0
        BY <1>4, <3>1, <3>3, <3>4
      <4>2. c \notin freeBlockIndices /\ \A o \in Objs : blockId[o] # c
        BY <1>3, <1>4, <3>1, <3>3, <3>4, <4>1
      <4> QED BY <3>1, <3>4, <4>2 DEF c
    <3>5. CASE \E o \in Objs : blockId[o] = c /\ prefixHash[o] = h
      <4>1. PICK o \in Objs : blockId[o] = c /\ prefixHash[o] = h
        BY <3>5
      <4>2. c \notin freeBlockIndices /\ candidates[c] = INVALID_HASH_VALUE
        BY <1>5, <3>1, <4>1 DEF HeldBlocks
      <4>3. \A p \in Objs : blockId[p] = c => prefixHash[p] = h
        BY <1>6, <3>1, <4>1 DEF SharedBlocks
      <4> QED BY <3>1, <4>2, <4>3 DEF c
    <3> QED BY <3>2, <3>4, <3>5
  <2> QED BY <1>7, <2>1 DEF CachedBlocks
<1>9. Pooled
  BY DEF AP!IInv, AP!PooledObjectsHoldNothing, Pooled
<1> QED BY <1>1, <1>5, <1>6, <1>8, <1>9 DEF AllocatorFacts

LEMMA AllocatorTellsNext == AP!IInv' => AllocatorFacts'
<1>1. AP!IInv => AllocatorFacts
  BY AllocatorTells
<1> QED BY <1>1, PTL

(* A block that stays held, or stays cached, keeps its KV entries. *)
LEMMA KeptEntries ==
  ASSUME AllocatorFacts, AllocatorFacts', KvKept
  PROVE  /\ \A o, p \in Objs : blockId[o] \in BlockIds /\ blockId'[p] = blockId[o] =>
              kv'[blockId[o]] = kv[blockId[o]]
         /\ \A h \in Hashes : cachedBlocks[h] # INVALID_BLOCKID /\ cachedBlocks'[h] = cachedBlocks[h] =>
              kv'[cachedBlocks[h]] = kv[cachedBlocks[h]]
<1>1. ASSUME NEW o \in Objs, NEW p \in Objs, blockId[o] \in BlockIds, blockId'[p] = blockId[o]
      PROVE  kv'[blockId[o]] = kv[blockId[o]]
  <2>1. candidates[blockId[o]] = INVALID_HASH_VALUE
    BY <1>1 DEF AllocatorFacts, HeldBlocks
  <2>2. blockId[o] \notin freeBlockIndices'
    BY <1>1 DEF AllocatorFacts, HeldBlocks
  <2> QED BY <1>1, <2>1, <2>2 DEF KvKept
<1>2. ASSUME NEW h \in Hashes, cachedBlocks[h] # INVALID_BLOCKID, cachedBlocks'[h] = cachedBlocks[h]
      PROVE  kv'[cachedBlocks[h]] = kv[cachedBlocks[h]]
  <2> DEFINE c == cachedBlocks[h]
  <2>1. c \in BlockIds /\ (candidates[c] # INVALID_HASH_VALUE => candidates[c] = h)
    BY <1>2 DEF AllocatorFacts, CachedBlocks
  <2>2. cachedBlocks[h] \notin freeBlockIndices'
    BY <1>2 DEF AllocatorFacts, CachedBlocks
  <2>3. candidates[c] # INVALID_HASH_VALUE => cachedBlocks'[candidates[c]] = c
    BY <1>2, <2>1
  <2>4. kv'[c] = IF c \in freeBlockIndices' \/ (candidates[c] # INVALID_HASH_VALUE /\ cachedBlocks'[candidates[c]] # c)
                   THEN Blank ELSE kv[c]
    BY <2>1 DEF KvKept
  <2> QED BY <2>2, <2>3, <2>4
<1> QED BY <1>1, <1>2

(* What stays cached stays right, and what enters the cache is touched. *)
LEMMA CachedStaysRight ==
  ASSUME AllocatorFacts, AllocatorFacts', KvKept, CachedRight,
         touchedBlocks \subseteq touchedBlocks',
         \A h \in Hashes : cachedBlocks'[h] \in {INVALID_BLOCKID, cachedBlocks[h]} \cup touchedBlocks'
  PROVE  CachedRight'
<1> SUFFICES ASSUME NEW h \in Hashes, cachedBlocks'[h] # INVALID_BLOCKID,
                    cachedBlocks'[h] \notin touchedBlocks', NEW i \in 1..blockSize
             PROVE  kv'[cachedBlocks'[h]][i] = SubSeq(h, 1, Len(h) - blockSize + i)
  BY DEF CachedRight
<1>1. cachedBlocks'[h] = cachedBlocks[h]
  OBVIOUS
<1>2. kv'[cachedBlocks[h]] = kv[cachedBlocks[h]]
  BY <1>1, KeptEntries
<1>3. kv[cachedBlocks[h]][i] = SubSeq(h, 1, Len(h) - blockSize + i)
  BY <1>1 DEF CachedRight
<1> QED BY <1>1, <1>2, <1>3

-----------------------------------------------------------------------------
(* What the allocator's operations do to the blocks of other objects. *)

LEMMA AllocateEffect ==
  ASSUME AllocatorFacts, NEW o \in Objs, NEW h \in Hashes \cup {INVALID_HASH_VALUE},
         Allocator!AllocateBlock(o, h)
  PROVE  \E b \in BlockIds :
           /\ blockId' = [blockId EXCEPT ![o] = b]
           /\ \/ touchedBlocks' = touchedBlocks
              \/ touchedBlocks' = touchedBlocks \cup {b} /\ h \in Hashes /\ b \notin computed'
           /\ active' = active \cup {b}
           /\ \A c \in BlockIds : c # b => (c \in computed' <=> c \in computed)
           /\ b \in computed' => /\ h \in Hashes
                                 /\ b \in computed \/ \A p \in Objs : blockId[p] # b
           /\ \A g \in Hashes : cachedBlocks'[g] \in {INVALID_BLOCKID, cachedBlocks[g]} \cup touchedBlocks'
<1> USE DEF AllocatorFacts, AllocatorTypes
<1>1. CASE h = INVALID_HASH_VALUE /\ Allocator!ObtainMutable(o)
  <2>1. PICK b \in BlockIds : /\ Allocator!AllocateBlockId(o, b)
                              /\ cachedBlocks' = Allocator!CacheAfterEviction(b)
                              /\ touchedBlocks' = touchedBlocks
    BY <1>1 DEF Allocator!ObtainMutable
  <2>2. \A g \in Hashes : cachedBlocks'[g] \in {INVALID_BLOCKID, cachedBlocks[g]}
    BY <2>1 DEF Allocator!CacheAfterEviction
  <2>3. /\ blockId' = [blockId EXCEPT ![o] = b] /\ active' = active \cup {b}
        /\ b \notin computed' /\ \A c \in BlockIds : c # b => (c \in computed' <=> c \in computed)
    BY <2>1 DEF Allocator!AllocateBlockId
  <2> QED BY <2>1, <2>2, <2>3
<1>2. CASE h \in Hashes /\ Allocator!ObtainCached(o, h)
  <2> DEFINE b == cachedBlocks[h]
  <2>1. /\ b \in BlockIds
        /\ blockId' = [blockId EXCEPT ![o] = b] /\ active' = active \cup {b}
        /\ cachedBlocks' = cachedBlocks /\ touchedBlocks' = touchedBlocks
        /\ computed' = IF refCounts[b] = 0 THEN computed \cup {b} ELSE computed
    BY <1>2 DEF Allocator!ObtainCached, Allocator!IncrRefCountCacheBlock
  <2>2. refCounts[b] = 0 => \A p \in Objs : blockId[p] # b
    BY <2>1 DEF HeldBlocks
  <2> HIDE DEF b
  <2>3. \A c \in BlockIds : c # b => (c \in computed' <=> c \in computed)
    BY <2>1
  <2>4. b \in computed' => h \in Hashes /\ (b \in computed \/ \A p \in Objs : blockId[p] # b)
    BY <1>2, <2>1, <2>2
  <2> QED BY <2>1, <2>3, <2>4
<1>3. CASE h \in Hashes /\ Allocator!ObtainNew(o, h)
  <2>1. PICK b \in BlockIds : /\ Allocator!AllocateBlockId(o, b)
                              /\ cachedBlocks' = [Allocator!CacheAfterEviction(b) EXCEPT ![h] = b]
                              /\ touchedBlocks' = touchedBlocks \cup {b}
    BY <1>3 DEF Allocator!ObtainNew
  <2>2. \A g \in Hashes : cachedBlocks'[g] \in {INVALID_BLOCKID, cachedBlocks[g]} \cup touchedBlocks'
    BY <2>1 DEF Allocator!CacheAfterEviction
  <2>3. /\ blockId' = [blockId EXCEPT ![o] = b] /\ active' = active \cup {b}
        /\ b \notin computed' /\ \A c \in BlockIds : c # b => (c \in computed' <=> c \in computed)
    BY <2>1 DEF Allocator!AllocateBlockId
  <2> QED BY <1>3, <2>1, <2>2, <2>3
<1> QED BY <1>1, <1>2, <1>3 DEF Allocator!AllocateBlock, Allocator!Obtain

LEMMA PromoteEffect ==
  ASSUME AllocatorFacts, NEW o \in Objs, NEW h \in Hashes,
         Allocator!PromoteNew(o, h) \/ Allocator!PromoteOntoCached(o, h)
  PROVE  /\ o \in acquired /\ blockId[o] \in BlockIds /\ prefixHash[o] = INVALID_HASH_VALUE
         /\ acquired' = acquired /\ prefixHash' = [prefixHash EXCEPT ![o] = h]
         /\ \E b \in BlockIds :
              /\ blockId' = [blockId EXCEPT ![o] = b]
              /\ \/ touchedBlocks' = touchedBlocks /\ b = cachedBlocks[h] /\ cachedBlocks' = cachedBlocks
                 \/ touchedBlocks' = touchedBlocks \cup {b} /\ b = blockId[o] /\ computed' = computed
              /\ \A c \in BlockIds : c # blockId[o] /\ c \in active => c \in active'
              /\ b \in active'
              /\ \A c \in BlockIds : c # b /\ c \in computed' => c \in computed
              /\ b \in computed' => b \in computed \/ \A p \in Objs : blockId[p] # b
         /\ \A g \in Hashes : cachedBlocks'[g] \in {cachedBlocks[g]} \cup touchedBlocks'
<1> USE DEF AllocatorFacts, AllocatorTypes
<1>1. CASE Allocator!PromoteNew(o, h)
  <2> USE <1>1 DEF Allocator!PromoteNew
  <2>1. blockId[o] \in BlockIds /\ blockId[o] \in active
    BY DEF HeldBlocks
  <2>2. blockId' = [blockId EXCEPT ![o] = blockId[o]]
    OBVIOUS
  <2>3. \A g \in Hashes : cachedBlocks'[g] \in {cachedBlocks[g]} \cup touchedBlocks'
    OBVIOUS
  <2> QED BY <2>1, <2>2, <2>3
<1>2. CASE Allocator!PromoteOntoCached(o, h)
  <2> DEFINE b == cachedBlocks[h]
  <2>1. /\ o \in acquired /\ blockId[o] \in BlockIds /\ prefixHash[o] = INVALID_HASH_VALUE
        /\ acquired' = acquired /\ prefixHash' = [prefixHash EXCEPT ![o] = h]
        /\ cachedBlocks' = cachedBlocks /\ touchedBlocks' = touchedBlocks
        /\ b \in BlockIds /\ blockId' = [blockId EXCEPT ![o] = b]
    BY <1>2 DEF Allocator!PromoteOntoCached
  <2>2. \A c \in BlockIds : c # blockId[o] /\ c \in active => c \in active'
    BY <1>2 DEF Allocator!PromoteOntoCached
  <2>3. b \in active' /\ \A c \in BlockIds : c # b /\ c \in computed' => c \in computed
    BY <1>2 DEF Allocator!PromoteOntoCached
  <2>4. b \in computed' => b \in computed \/ refCounts[b] = 0
    BY <1>2 DEF Allocator!PromoteOntoCached
  <2>5. refCounts[b] = 0 => \A p \in Objs : blockId[p] # b
    BY <2>1 DEF HeldBlocks
  <2> HIDE DEF b
  <2>6. \E c \in BlockIds :
          /\ blockId' = [blockId EXCEPT ![o] = c]
          /\ touchedBlocks' = touchedBlocks /\ c = b /\ cachedBlocks' = cachedBlocks
          /\ \A d \in BlockIds : d # blockId[o] /\ d \in active => d \in active'
          /\ c \in active'
          /\ \A d \in BlockIds : d # c /\ d \in computed' => d \in computed
          /\ c \in computed' => c \in computed \/ \A p \in Objs : blockId[p] # c
    BY <2>1, <2>2, <2>3, <2>4, <2>5
  <2> QED BY <2>1, <2>6 DEF b
<1> QED BY <1>1, <1>2

LEMMA FreeEffect ==
  ASSUME AllocatorFacts, NEW o \in Objs, Allocator!Free(o)
  PROVE  /\ blockId' = [blockId EXCEPT ![o] = INVALID_BLOCKID]
         /\ prefixHash' = [prefixHash EXCEPT ![o] = INVALID_HASH_VALUE]
         /\ acquired' = acquired \ {o}
         /\ UNCHANGED <<cachedBlocks, touchedBlocks>>
         /\ computed' \subseteq computed
         /\ \A p \in Objs : p # o /\ blockId[p] \in BlockIds /\ blockId[p] \in active =>
              blockId[p] \in active'
<1> USE DEF AllocatorFacts, AllocatorTypes
<1>1. /\ blockId[o] \in BlockIds
      /\ active' = active \ (IF refCounts[blockId[o]] = 1 THEN {blockId[o]} ELSE {})
      /\ computed' = computed \ (IF refCounts[blockId[o]] = 1 THEN {blockId[o]} ELSE {})
      /\ blockId' = [blockId EXCEPT ![o] = INVALID_BLOCKID]
      /\ prefixHash' = [prefixHash EXCEPT ![o] = INVALID_HASH_VALUE]
      /\ acquired' = acquired \ {o}
      /\ UNCHANGED <<cachedBlocks, touchedBlocks>>
  BY DEF Allocator!Free, Allocator!FreeBlockId
<1>2. \A p \in Objs : p # o /\ blockId[p] = blockId[o] => refCounts[blockId[o]] # 1
  BY <1>1 DEF HeldBlocks
<1> QED BY <1>1, <1>2

-----------------------------------------------------------------------------
(* A call of Allocate gets all its blocks. *)

(* A block costs at most one of those that GetNumFreeBlock counts: an id   *)
(* from the free list, one from the evictor, or nothing if somebody holds  *)
(* the cached block.                                                       *)
LEMMA AllocateCosts ==
  ASSUME AP!IInv, NEW o \in Objs, NEW h \in Hashes \cup {INVALID_HASH_VALUE},
         Allocator!AllocateBlock(o, h)
  PROVE  NumFree \in Int /\ NumFree' \in Int /\ NumFree - 1 <= NumFree'
<1> DEFINE A == freeBlockIndices
           B == {b \in BlockIds : candidates[b] # INVALID_HASH_VALUE}
           C == freeBlockIndices'
           D == {b \in BlockIds : candidates'[b] # INVALID_HASH_VALUE}
<1>1. AllocatorFacts
  BY AllocatorTells
<1>2. \A b \in BlockIds : ~(b \in A /\ b \in B)
  BY DEF AP!IInv, AP!Places
<1>3. PICK b \in BlockIds : /\ candidates' = [candidates EXCEPT ![b] = INVALID_HASH_VALUE]
                            /\ C = A \/ C = A \ {b}
  <2>1. CASE h = INVALID_HASH_VALUE /\ Allocator!ObtainMutable(o)
    BY <2>1 DEF Allocator!ObtainMutable, Allocator!AllocateBlockId
  <2>2. CASE h \in Hashes /\ Allocator!ObtainCached(o, h)
    <3>1. cachedBlocks[h] \in BlockIds
      BY <1>1, <2>2 DEF Allocator!ObtainCached, AllocatorFacts, AllocatorTypes
    <3> QED BY <2>2, <3>1 DEF Allocator!ObtainCached, Allocator!IncrRefCountCacheBlock
  <2>3. CASE h \in Hashes /\ Allocator!ObtainNew(o, h)
    BY <2>3 DEF Allocator!ObtainNew, Allocator!AllocateBlockId
  <2> QED BY <2>1, <2>2, <2>3 DEF Allocator!AllocateBlock, Allocator!Obtain
<1>4. D = B \ {b}
  BY <1>1, <1>3 DEF AllocatorFacts, AllocatorTypes
<1>5. IsFiniteSet(A) /\ IsFiniteSet(B)
  <2>1. A \subseteq BlockIds /\ B \subseteq BlockIds
    BY <1>1 DEF AllocatorFacts, AllocatorTypes
  <2> QED BY <2>1, KvAssumption, FS_Subset
<1>6. NumFree = Cardinality(A) + Cardinality(B) /\ NumFree' = Cardinality(C) + Cardinality(D)
  BY DEF NumFree
<1> HIDE DEF A, B, C, D
<1>7. /\ Cardinality(A) \in Int /\ Cardinality(B) \in Int
      /\ Cardinality(A \ {b}) = IF b \in A THEN Cardinality(A) - 1 ELSE Cardinality(A)
      /\ Cardinality(B \ {b}) = IF b \in B THEN Cardinality(B) - 1 ELSE Cardinality(B)
  BY <1>5, FS_CardinalityType, FS_RemoveElement
<1>8. /\ b \in B => b \notin A
      /\ Cardinality(D) = IF b \in B THEN Cardinality(B) - 1 ELSE Cardinality(B)
      /\ \/ Cardinality(C) = Cardinality(A)
         \/ Cardinality(C) = IF b \in A THEN Cardinality(A) - 1 ELSE Cardinality(A)
  BY <1>2, <1>3, <1>4, <1>7
<1> QED BY <1>6, <1>7, <1>8

LEMMA NextKeepsAllocations ==
  ASSUME KInv, AllocationsComplete, [Next]_vars
  PROVE  AllocationsComplete'
<1>1. ASSUME NEW s \in Seqs, NEW p \in Prompts, Admit(s, p)
      PROVE  AllocationsComplete'
  <2>1. /\ job' = [call |-> "Allocate", seq |-> s, next |-> 1] /\ tokens'[s] = p
        /\ CanAllocate(p) /\ UNCHANGED <<freeBlockIndices, candidates>>
    BY <1>1 DEF Admit, allocatorVars, KInv, Base, Types
  <2>2. BlockOf(Len(p)) <= NumFree /\ NumFree' = NumFree
    BY <2>1 DEF CanAllocate, NumFree
  <2>3. BlockOf(Len(p)) \in Int
    BY PromptTyped, BlockFits
  <2>4. BlockOf(Len(tokens'[job'.seq])) = BlockOf(Len(p)) /\ job'.next = 1
    BY <2>1
  <2> HIDE DEF BlockOf
  <2>5. BlockOf(Len(tokens'[job'.seq])) - job'.next + 1 <= NumFree'
    BY <2>2, <2>3, <2>4
  <2> QED BY <2>5 DEF AllocationsComplete
<1>2. ASSUME AllocateNext
      PROVE  AllocationsComplete'
  <2>1. PICK s \in Seqs, i \in 1..NumBlocks : job = [call |-> "Allocate", seq |-> s, next |-> i]
    BY <1>2, JobNamed DEF AllocateNext, KInv, Base, Types
  <2> DEFINE n == BlockOf(Len(tokens[s]))
             h == PrefixHash(tokens[s], i)
  <2>2. job.call = "Allocate" /\ job.seq = s /\ job.next = i
    BY <2>1
  <2>3. /\ Allocator!AllocateBlock(<<s, i>>, h)
        /\ tokens' = tokens
        /\ job' = NoJob \/ job' = [job EXCEPT !.next = i + 1]
    BY <1>2, <2>2 DEF AllocateNext
  <2>4. h \in Hashes \cup {INVALID_HASH_VALUE}
    BY <1>2, <2>2, AllocateNextImplements DEF KInv
  <2>5. n - i + 1 <= NumFree
    BY <2>2 DEF AllocationsComplete
  <2>6. n \in Int /\ i \in Int
    <3>1. tokens[s] # <<>>
      BY <2>2 DEF KInv, Base, Calls, In
    <3> QED BY <3>1, BlocksFit, BlockFits DEF KInv
  <2> HIDE DEF h, n
  <2>7. NumFree \in Int /\ NumFree' \in Int /\ NumFree - 1 <= NumFree'
    BY <2>3, <2>4, ObjTyped, AllocateCosts DEF KInv
  <2>8. n - (i + 1) + 1 <= NumFree'
    BY <2>5, <2>6, <2>7
  <2>9. job'.call = "Allocate" => BlockOf(Len(tokens'[job'.seq])) = n /\ job'.next = i + 1
    BY <2>1, <2>3, NoJobIsNoCall DEF n
  <2> QED BY <2>8, <2>9 DEF AllocationsComplete
<1>3. ASSUME job' = NoJob \/ job'.call # "Allocate"
      PROVE  AllocationsComplete'
  BY <1>3, NoJobIsNoCall DEF AllocationsComplete
<1>4. ASSUME UNCHANGED <<job, tokens, freeBlockIndices, candidates>>
      PROVE  AllocationsComplete'
  BY <1>4 DEF AllocationsComplete, NumFree
<1>5. ASSUME NEW s \in Seqs, ContinuePrefill(s) \/ EnsureEnoughSlots(s) \/ AppendSlot(s) \/ End(s)
      PROVE  AllocationsComplete'
  <2>1. job' = NoJob \/ job'.call # "Allocate"
    BY <1>5, NoJobIsNoCall DEF ContinuePrefill, EnsureEnoughSlots, AppendSlot, AppendToken, End, Idle
  <2> QED BY <1>3, <2>1
<1>6. ASSUME FreeNext
      PROVE  AllocationsComplete'
  <2>1. PICK s \in Seqs, i \in 1..NumBlocks : job = [call |-> "Free", seq |-> s, next |-> i]
    BY <1>6, JobNamed DEF FreeNext, KInv, Base, Types
  <2>2. job' = NoJob \/ job'.call # "Allocate"
    BY <1>6, <2>1 DEF FreeNext
  <2> QED BY <1>3, <2>2
<1>7. ASSUME ExecuteBatch
      PROVE  AllocationsComplete'
  BY <1>3, <1>7 DEF ExecuteBatch, Idle
<1> QED BY <1>1, <1>2, <1>4, <1>5, <1>6, <1>7 DEF Next, vars, allocatorVars

(* However many blocks of the prompt are cached, shared or waiting in the  *)
(* evictor, an allocation that CanAllocate let through never runs out of   *)
(* blocks half-way, in every mode.                                         *)
THEOREM AllocationNeverStuck == Spec => []AllocationsComplete
<1>1. Init => AllocationsComplete
  BY NoJobIsNoCall DEF Init, AllocationsComplete
<1>2. KInv /\ AllocationsComplete /\ [Next]_vars => AllocationsComplete'
  BY NextKeepsAllocations
<1> QED BY <1>1, <1>2, Invariance, PTL DEF Spec

-----------------------------------------------------------------------------
(* Blocks are shared by prefix. *)

(* The hash of every block object is that of the tokens it was given. *)
HashesSet ==
  \A s \in Seqs, i \in 1..NumBlocks : <<s, i>> \in acquired =>
    /\ blockId[<<s, i>>] \in BlockIds
    /\ \A toks : toks = Hashed(s) => prefixHash[<<s, i>>] = PrefixHash(toks, i)

LEMMA HashesStay ==
  ASSUME HashesSet,
         \A s \in Seqs, i \in 1..NumBlocks : <<s, i>> \in acquired' =>
           /\ <<s, i>> \in acquired
           /\ blockId'[<<s, i>>] = blockId[<<s, i>>] /\ prefixHash'[<<s, i>>] = prefixHash[<<s, i>>]
           /\ Hashed(s)' = Hashed(s)
  PROVE  HashesSet'
  BY DEF HashesSet

(* A block obtained for one object leaves those of all others alone. *)
LEMMA ObtainKeeps ==
  ASSUME KInv, NEW s \in Seqs, NEW i \in 1..NumBlocks, NEW h \in Hashes \cup {INVALID_HASH_VALUE},
         Allocator!AllocateBlock(<<s, i>>, h)
  PROVE  /\ acquired' = acquired \cup {<<s, i>>}
         /\ blockId'[<<s, i>>] \in BlockIds /\ prefixHash'[<<s, i>>] = h
         /\ \A p \in acquired : blockId'[p] = blockId[p] /\ prefixHash'[p] = prefixHash[p]
<1> DEFINE o == <<s, i>>
<1>1. AllocatorFacts
  BY AllocatorTells DEF KInv
<1>2. o \in Objs
  BY ObjTyped
<1>3. /\ o \notin acquired /\ acquired' = acquired \cup {o}
      /\ prefixHash' = [prefixHash EXCEPT ![o] = h]
  BY DEF Allocator!AllocateBlock
<1>4. PICK b \in BlockIds : blockId' = [blockId EXCEPT ![o] = b]
  BY <1>1, <1>2, AllocateEffect
<1> HIDE DEF o
<1>5. acquired \subseteq Objs
  BY <1>1 DEF AllocatorFacts, AllocatorTypes
<1>6. /\ blockId'[o] = b /\ prefixHash'[o] = h
      /\ \A p \in acquired : blockId'[p] = blockId[p] /\ prefixHash'[p] = prefixHash[p]
  BY <1>1, <1>2, <1>3, <1>4, <1>5 DEF AllocatorFacts, AllocatorTypes
<1> QED BY <1>3, <1>6 DEF o

LEMMA ObtainKeepsHashes ==
  ASSUME KInv, HashesSet, NEW s \in Seqs, NEW i \in 1..NumBlocks,
         NEW h \in Hashes \cup {INVALID_HASH_VALUE},
         Allocator!AllocateBlock(<<s, i>>, h),
         \A t \in Seqs : Hashed(t)' = Hashed(t),
         \A toks : toks = Hashed(s) => h = PrefixHash(toks, i)
  PROVE  HashesSet'
<1>1. /\ acquired' = acquired \cup {<<s, i>>}
      /\ blockId'[<<s, i>>] \in BlockIds /\ prefixHash'[<<s, i>>] = h
      /\ \A p \in acquired : blockId'[p] = blockId[p] /\ prefixHash'[p] = prefixHash[p]
  BY ObtainKeeps
<1> SUFFICES ASSUME NEW t \in Seqs, NEW j \in 1..NumBlocks, <<t, j>> \in acquired',
                    NEW toks, toks = Hashed(t)'
             PROVE  blockId'[<<t, j>>] \in BlockIds /\ prefixHash'[<<t, j>>] = PrefixHash(toks, j)
  BY DEF HashesSet
<1>2. toks = Hashed(t)
  OBVIOUS
<1>3. CASE <<t, j>> \in acquired
  BY <1>1, <1>2, <1>3 DEF HashesSet
<1>4. CASE <<t, j>> = <<s, i>>
  <2>1. t = s /\ j = i
    BY <1>4
  <2> QED BY <1>1, <1>2, <2>1
<1> QED BY <1>1, <1>3, <1>4

(* A hash depends on the tokens up to the end of its block only. *)
LEMMA HashOfPrefix ==
  ASSUME NEW t \in Seq(TableTokens), NEW u \in Seq(TableTokens), NEW i \in 1..NumBlocks,
         i * blockSize <= Len(t) <=> i * blockSize <= Len(u),
         \A p \in 1..Len(t) : i * blockSize <= Len(t) /\ p <= i * blockSize => t[p] = u[p]
  PROVE  PrefixHash(t, i) = PrefixHash(u, i)
<1>1. i \in Int /\ 0 < i /\ i * blockSize \in Int /\ 0 * blockSize = 0
      /\ Len(t) \in Nat /\ Len(u) \in Nat
  BY BlockFits, Multiples, Sizes
<1>2. CASE ~(i * blockSize <= Len(t))
  BY <1>2 DEF PrefixHash
<1>3. CASE i * blockSize <= Len(t)
  <2> DEFINE n == i * blockSize
  <2>1. n \in 0..Len(t) /\ n <= Len(u)
    <3>1. 0 * blockSize <= i * blockSize
      BY <1>1, Multiples
    <3> QED BY <1>1, <1>3, <3>1
  <2>2. \A p \in 1..n : t[p] = u[p]
    BY <1>1, <1>3
  <2>3. \A j \in 1..i : j * blockSize \in 1..n
    <3> SUFFICES ASSUME NEW j \in 1..i PROVE j * blockSize \in 1..n
      OBVIOUS
    <3>1. j \in Int /\ 0 < j /\ j <= i
      BY <1>1
    <3>2. j * blockSize \in Int /\ j * blockSize <= i * blockSize
      BY <1>1, <3>1, Multiples
    <3>3. 0 * blockSize < j * blockSize
      BY <3>1, Multiples
    <3> QED BY <1>1, <3>2, <3>3
  <2>4. \A j \in 1..i : t[j * blockSize] = u[j * blockSize]
    BY <2>2, <2>3
  <2> HIDE DEF n
  <2>5. SubSeq(t, 1, n) = SubSeq(u, 1, n)
    BY <2>1, <2>2, PrefixEqual
  <2> QED BY <1>3, <2>4, <2>5 DEF PrefixHash, n
<1> QED BY <1>2, <1>3

LEMMA AppendKeepsHashes ==
  ASSUME KInv, HashesSet, NEW s \in Seqs, AppendSlot(s)
  PROVE  HashesSet'
<1> DEFINE n == Len(tokens[s])
           q == BlockOf(n)
           toks == Append(table[s], NewToken(s))
           h == PrefixHash(toks, q)
<1>1. /\ AppendToken(s) /\ Admitted(s) /\ n = Len(table[s]) + 1
      /\ toks \in Seq(TableTokens) /\ Len(toks) = n /\ NewToken(s) \in TableTokens
      /\ <<s, q>> \in Objs /\ q \in 1..NumBlocks /\ Owns(s) = 1..q
  BY AppendSlotState DEF KInv
<1>2. /\ table' = [table EXCEPT ![s] = toks] /\ tokens' = tokens
      /\ IF h = INVALID_HASH_VALUE
           THEN UNCHANGED allocatorVars
           ELSE Allocator!PromoteNew(<<s, q>>, h) \/ Allocator!PromoteOntoCached(<<s, q>>, h)
  BY <1>1 DEF AppendToken
<1>3. table[s] \in Seq(TableTokens) /\ Len(table[s]) \in Nat /\ n \in Nat \ {0}
  <2>1. Len(table[s]) \in Nat /\ n \in 1..maxSeqLen
    BY <1>1, BlocksFit DEF KInv
  <2> QED BY <2>1 DEF KInv, Base, Types
<1>4. \A p \in 1..Len(table[s]) : toks[p] = table[s][p]
  BY <1>1, <1>3
<1>5. q \in Int /\ q * blockSize \in Int /\ n <= q * blockSize /\ q * blockSize - blockSize < n
  <2> HIDE DEF n
  <2>1. n \in Nat \ {0}
    BY <1>3
  <2> QED BY <2>1, BlockBounds
<1>6. h \in Hashes \cup {INVALID_HASH_VALUE}
  BY <1>1, HashTyped
<1>7. /\ Hashed(s) = table[s] /\ Hashed(s)' = toks
      /\ \A t \in Seqs : t # s => Hashed(t)' = Hashed(t)
  <2>1. table'[s] = toks /\ \A t \in Seqs : t # s => table'[t] = table[t]
    BY <1>2 DEF KInv, Base, Types
  <2>2. toks # <<>>
    BY <1>1, <1>3, NonEmpty
  <2> QED BY <1>1, <1>2, <2>1, <2>2 DEF Hashed, Admitted
<1>8. AllocatorFacts
  BY AllocatorTells DEF KInv
<1> HIDE DEF h, toks, q, n
<1>9. /\ acquired' = acquired
      /\ blockId'[<<s, q>>] \in BlockIds \/ blockId'[<<s, q>>] = blockId[<<s, q>>]
      /\ prefixHash'[<<s, q>>] = IF h = INVALID_HASH_VALUE THEN prefixHash[<<s, q>>] ELSE h
      /\ \A p \in Objs : p # <<s, q>> => blockId'[p] = blockId[p] /\ prefixHash'[p] = prefixHash[p]
  <2>1. CASE h = INVALID_HASH_VALUE
    BY <1>2, <2>1 DEF allocatorVars
  <2>2. CASE h # INVALID_HASH_VALUE
    <3>1. /\ acquired' = acquired /\ prefixHash' = [prefixHash EXCEPT ![<<s, q>>] = h]
          /\ \E b \in BlockIds : blockId' = [blockId EXCEPT ![<<s, q>>] = b]
      BY <1>1, <1>2, <1>6, <1>8, <2>2, PromoteEffect
    <3> QED BY <1>1, <2>2, <1>8, <3>1 DEF AllocatorFacts, AllocatorTypes
  <2> QED BY <2>1, <2>2
<1>10. ASSUME NEW j \in 1..NumBlocks, j < q
       PROVE  PrefixHash(toks, j) = PrefixHash(table[s], j)
  <2>1. j \in Int /\ j * blockSize \in Int /\ blockSize \in Int
    BY BlockFits, Multiples, Sizes
  <2>2. j * blockSize + blockSize <= q * blockSize
    BY <1>5, <1>10, <2>1, Multiples
  <2>3. \A x, y, b, m \in Int : x + b <= y /\ y - b < m => x < m
    OBVIOUS
  <2>4. j * blockSize < n
    BY <1>3, <1>5, <2>1, <2>2, <2>3
  <2>5. j * blockSize <= Len(toks) /\ j * blockSize <= Len(table[s])
    BY <1>1, <1>3, <2>1, <2>4
  <2>6. \A p \in 1..Len(toks) : p <= j * blockSize => toks[p] = table[s][p]
    <3> SUFFICES ASSUME NEW p \in 1..Len(toks), p <= j * blockSize PROVE toks[p] = table[s][p]
      OBVIOUS
    <3>1. p \in 1..Len(table[s])
      BY <1>1, <1>3, <2>1, <2>5
    <3> QED BY <1>4, <3>1
  <2> QED BY <1>1, <1>3, <2>5, <2>6, HashOfPrefix
<1>11. PrefixHash(table[s], q) = INVALID_HASH_VALUE
  <2>1. ~(q * blockSize <= Len(table[s]))
    BY <1>1, <1>3, <1>5
  <2> QED BY <2>1 DEF PrefixHash
<1> SUFFICES ASSUME NEW t \in Seqs, NEW j \in 1..NumBlocks, <<t, j>> \in acquired',
                    NEW new, new = Hashed(t)'
             PROVE  blockId'[<<t, j>>] \in BlockIds /\ prefixHash'[<<t, j>>] = PrefixHash(new, j)
  BY DEF HashesSet
<1>12. <<t, j>> \in acquired /\ <<t, j>> \in Objs
  BY <1>9, ObjTyped
<1>13. /\ blockId[<<t, j>>] \in BlockIds
       /\ \A old : old = Hashed(t) => prefixHash[<<t, j>>] = PrefixHash(old, j)
  BY <1>12 DEF HashesSet
<1>14. CASE t # s
  <2>1. <<t, j>> # <<s, q>>
    BY <1>14
  <2> QED BY <1>7, <1>9, <1>12, <1>13, <1>14, <2>1
<1>15. CASE t = s /\ j # q
  <2>1. j \in 1..q
    BY <1>1, <1>12, <1>15 DEF KInv, Base, Owned
  <2>2. j < q /\ <<t, j>> # <<s, q>>
    BY <1>5, <1>15, <2>1
  <2> QED BY <1>7, <1>9, <1>10, <1>12, <1>13, <1>15, <2>2
<1>16. CASE t = s /\ j = q
  <2>1. prefixHash[<<s, q>>] = INVALID_HASH_VALUE /\ blockId'[<<s, q>>] \in BlockIds
    BY <1>7, <1>9, <1>11, <1>13, <1>16
  <2>2. prefixHash'[<<s, q>>] = h
    BY <1>9, <2>1
  <2> QED BY <1>7, <1>16, <2>1, <2>2 DEF h
<1> QED BY <1>14, <1>15, <1>16

LEMMA FreeKeepsHashes ==
  ASSUME KInv, HashesSet, KInv', FreeNext, NEW s \in Seqs, NEW i \in 1..NumBlocks,
         job = [call |-> "Free", seq |-> s, next |-> i]
  PROVE  HashesSet'
<1> DEFINE o == <<s, i>>
<1>1. job.call = "Free" /\ job.seq = s /\ job.next = i
  OBVIOUS
<1>2. /\ Allocator!Free(o)
      /\ \/ /\ tokens' = [tokens EXCEPT ![s] = <<>>]
            /\ table' = [table EXCEPT ![s] = <<>>]
            /\ job' = NoJob
         \/ UNCHANGED <<tokens, table>>
  BY <1>1 DEF FreeNext
<1>3. AllocatorFacts
  BY AllocatorTells DEF KInv
<1>4. o \in Objs
  BY ObjTyped
<1> HIDE DEF o
<1>5. /\ acquired' = acquired \ {o}
      /\ \A p \in Objs : p # o => blockId'[p] = blockId[p] /\ prefixHash'[p] = prefixHash[p]
  BY <1>2, <1>3, <1>4, FreeEffect DEF AllocatorFacts, AllocatorTypes
<1>6. ASSUME NEW t \in Seqs, NEW j \in 1..NumBlocks, <<t, j>> \in acquired'
      PROVE  tokens'[t] = tokens[t] /\ table'[t] = table[t]
  <2>1. CASE UNCHANGED <<tokens, table>>
    BY <2>1
  <2>2. CASE /\ tokens' = [tokens EXCEPT ![s] = <<>>]
             /\ table' = [table EXCEPT ![s] = <<>>]
             /\ job' = NoJob
    <3>1. table'[s] = <<>>
      BY <2>2 DEF KInv, Base, Types
    <3>2. Owns(s)' = {}
      BY <2>2, <3>1, NoJobIsNoCall DEF Owns, In, Admitted
    <3>3. t # s
      BY <1>6, <3>2 DEF KInv, Base, Owned
    <3> QED BY <2>2, <3>3 DEF KInv, Base, Types
  <2> QED BY <1>2, <2>1, <2>2
<1>7. ASSUME NEW t \in Seqs, NEW j \in 1..NumBlocks, <<t, j>> \in acquired'
      PROVE  /\ <<t, j>> \in acquired
             /\ blockId'[<<t, j>>] = blockId[<<t, j>>] /\ prefixHash'[<<t, j>>] = prefixHash[<<t, j>>]
             /\ Hashed(t)' = Hashed(t)
  <2>1. Hashed(t)' = Hashed(t)
    BY <1>6, <1>7 DEF Hashed, Admitted
  <2>2. <<t, j>> \in acquired /\ <<t, j>> # o /\ <<t, j>> \in Objs
    BY <1>5, <1>7, ObjTyped
  <2> QED BY <1>5, <2>1, <2>2
<1> QED BY <1>7, HashesStay

LEMMA NextKeepsHashes ==
  ASSUME KInv, HashesSet, KInv', [Next]_vars
  PROVE  HashesSet'
<1>1. ASSUME NEW s \in Seqs, NEW p \in Prompts, Admit(s, p)
      PROVE  HashesSet'
  <2>1. Idle /\ tokens[s] = <<>> /\ tokens' = [tokens EXCEPT ![s] = p]
        /\ UNCHANGED <<acquired, blockId, prefixHash, table>>
    BY <1>1 DEF Admit, allocatorVars
  <2>2. \A i \in 1..NumBlocks : <<s, i>> \notin acquired
    <3>1. ~Admitted(s)
      BY <2>1, BlocksFit DEF KInv
    <3> QED BY <2>1, <3>1, NoJobIsNoCall DEF KInv, Base, Owned, Owns, In, Idle
  <2>3. \A t \in Seqs : t # s => Hashed(t)' = Hashed(t)
    BY <2>1 DEF Hashed, Admitted, KInv, Base, Types
  <2> QED BY <2>1, <2>2, <2>3, HashesStay
<1>2. ASSUME UNCHANGED <<acquired, blockId, prefixHash, table, tokens>>
      PROVE  HashesSet'
  <2>1. \A t \in Seqs : Hashed(t)' = Hashed(t)
    BY <1>2 DEF Hashed, Admitted
  <2> QED BY <1>2, <2>1, HashesStay
<1>3. ASSUME NEW s \in Seqs, EnsureEnoughSlots(s)
      PROVE  HashesSet'
  <2> DEFINE i == BlockOf(Len(tokens[s]))
  <2>1. /\ CanAppend(s) /\ UNCHANGED <<tokens, table>>
        /\ Allocator!AllocateBlock(<<s, i>>, INVALID_HASH_VALUE)
    BY <1>3 DEF EnsureEnoughSlots
  <2>2. Admitted(s) /\ Len(tokens[s]) = Len(table[s]) + 1
    BY <2>1 DEF CanAppend
  <2>3. Len(table[s]) \in Nat /\ Len(tokens[s]) \in 1..maxSeqLen /\ i \in 1..NumBlocks
    BY <2>2, BlocksFit DEF KInv
  <2>4. Len(tokens[s]) <= i * blockSize /\ i * blockSize \in Int
    <3>1. Len(tokens[s]) \in Nat \ {0}
      BY <2>3
    <3> QED BY <3>1, BlockBounds
  <2> HIDE DEF i
  <2>5. ~(i * blockSize <= Len(table[s]))
    BY <2>2, <2>3, <2>4
  <2>6. \A toks : toks = Hashed(s) => INVALID_HASH_VALUE = PrefixHash(toks, i)
    BY <2>2, <2>5 DEF Hashed, PrefixHash
  <2>7. \A t \in Seqs : Hashed(t)' = Hashed(t)
    BY <2>1 DEF Hashed, Admitted
  <2> QED BY <2>1, <2>3, <2>6, <2>7, ObtainKeepsHashes
<1>4. ASSUME AllocateNext
      PROVE  HashesSet'
  <2>1. PICK s \in Seqs, i \in 1..NumBlocks : job = [call |-> "Allocate", seq |-> s, next |-> i]
    BY <1>4, JobNamed DEF AllocateNext, KInv, Base, Types
  <2> DEFINE h == PrefixHash(tokens[s], i)
  <2>2. job.call = "Allocate" /\ job.seq = s /\ job.next = i
    BY <2>1
  <2>3. /\ Allocator!AllocateBlock(<<s, i>>, h)
        /\ tokens' = tokens
        /\ table' = [table EXCEPT ![s] = tokens[s]] \/ table' = table
    BY <1>4, <2>2 DEF AllocateNext
  <2>4. h \in Hashes \cup {INVALID_HASH_VALUE}
    BY <1>4, <2>2, AllocateNextImplements DEF KInv
  <2>5. ~Admitted(s) /\ tokens[s] # <<>>
    BY <2>2 DEF KInv, Base, Calls, In
  <2>6. \A toks : toks = Hashed(s) => h = PrefixHash(toks, i)
    BY <2>5 DEF Hashed
  <2>7. \A t \in Seqs : Hashed(t)' = Hashed(t)
    BY <2>3, <2>5 DEF Hashed, Admitted, KInv, Base, Types
  <2> HIDE DEF h
  <2> QED BY <2>3, <2>4, <2>6, <2>7, ObtainKeepsHashes
<1>5. ASSUME FreeNext
      PROVE  HashesSet'
  <2>1. PICK s \in Seqs, i \in 1..NumBlocks : job = [call |-> "Free", seq |-> s, next |-> i]
    BY <1>5, JobNamed DEF FreeNext, KInv, Base, Types
  <2> QED BY <1>5, <2>1, FreeKeepsHashes
<1>6. ASSUME ExecuteBatch
      PROVE  HashesSet'
  <2>1. UNCHANGED <<acquired, blockId, prefixHash, table>>
    BY <1>6 DEF ExecuteBatch, MarkComputed, Allocator!MarkBlocksAsComputed, allocatorVars
  <2>2. \A t \in Seqs \ batch : tokens'[t] = tokens[t]
    BY <1>6, ExecuteBatchTokens DEF KInv
  <2>3. \A t \in batch : Admitted(t)
    BY DEF KInv, Base, Batches
  <2>4. \A t \in Seqs : Hashed(t)' = Hashed(t)
    BY <2>1, <2>2, <2>3 DEF Hashed, Admitted
  <2> QED BY <2>1, <2>4, HashesStay
<1>7. ASSUME NEW s \in Seqs, ContinuePrefill(s) \/ End(s)
      PROVE  HashesSet'
  BY <1>2, <1>7 DEF ContinuePrefill, End, allocatorVars
<1> QED BY <1>1, <1>2, <1>3, <1>4, <1>5, <1>6, <1>7, AppendKeepsHashes DEF Next, vars, allocatorVars

(* Whatever is promoted, evicted, freed and taken up again, and whatever   *)
(* placeholders the tables hold, a block that two objects name is the same *)
(* full block of two tables that agree up to its end: sharing is by prefix *)
(* in every mode.                                                          *)
THEOREM SharingIsByPrefix == Spec => []SharedPrefix
<1>1. Init => HashesSet
  BY DEF Init, Allocator!Init, HashesSet
<1>2. KInv /\ HashesSet /\ KInv' /\ [Next]_vars => HashesSet'
  BY NextKeepsHashes
<1>3. KInv /\ HashesSet => SharedPrefix
  <2> SUFFICES ASSUME KInv, HashesSet, NEW s \in Seqs, NEW r \in Seqs,
                      NEW i \in 1..NumBlocks, NEW j \in 1..NumBlocks,
                      {<<s, i>>, <<r, j>>} \subseteq acquired,
                      <<s, i>> # <<r, j>>, blockId[<<s, i>>] = blockId[<<r, j>>]
               PROVE  /\ i = j
                      /\ i * blockSize <= Len(Hashed(s)) /\ i * blockSize <= Len(Hashed(r))
                      /\ \A k \in 1..(i * blockSize) : Hashed(s)[k] = Hashed(r)[k]
    BY DEF SharedPrefix
  <2> DEFINE t == Hashed(s)
             u == Hashed(r)
             m == i * blockSize
             n == j * blockSize
  <2>1. prefixHash[<<r, j>>] = prefixHash[<<s, i>>] /\ prefixHash[<<s, i>>] # INVALID_HASH_VALUE
    <3>1. AllocatorFacts
      BY AllocatorTells DEF KInv
    <3>2. blockId[<<s, i>>] \in BlockIds
      BY DEF HashesSet
    <3> QED BY <3>1, <3>2, ObjTyped DEF AllocatorFacts, SharedBlocks
  <2>2. prefixHash[<<s, i>>] = PrefixHash(t, i) /\ prefixHash[<<r, j>>] = PrefixHash(u, j)
    BY DEF HashesSet
  <2>3. t \in Seq(TableTokens) /\ u \in Seq(TableTokens)
    BY TokensInTables DEF Hashed, KInv, Base, Types
  <2>4. /\ i \in Int /\ j \in Int /\ m \in Int /\ n \in Int /\ 0 < m /\ 0 < n
        /\ i < j => m < n
        /\ j < i => n < m
    <3>1. i \in Int /\ j \in Int /\ 0 < i /\ 0 < j /\ 0 * blockSize = 0
      BY BlockFits, Sizes
    <3>2. m \in Int /\ n \in Int /\ (i < j => m < n) /\ (j < i => n < m)
      BY <3>1, Multiples
    <3>3. 0 * blockSize < m /\ 0 * blockSize < n
      BY <3>1, Multiples
    <3> QED BY <3>1, <3>2, <3>3
  <2> HIDE DEF t, u
  <2>5. /\ m <= Len(t) /\ n <= Len(u) /\ SubSeq(t, 1, m) = SubSeq(u, 1, n)
    BY <2>1, <2>2 DEF PrefixHash
  <2> HIDE DEF m, n
  <2>6. Len(SubSeq(t, 1, m)) = m /\ Len(SubSeq(u, 1, n)) = n
    <3>1. m \in 0..Len(t) /\ n \in 0..Len(u)
      BY <2>3, <2>4, <2>5
    <3> QED BY <2>3, <3>1, PrefixProperties
  <2>7. m = n /\ i = j
    BY <2>4, <2>5, <2>6
  <2>8. m \in 0..Len(t) /\ m <= Len(u)
    BY <2>3, <2>4, <2>5, <2>7
  <2>9. \A k \in 1..m : t[k] = u[k]
    BY <2>3, <2>5, <2>7, <2>8, PrefixEqual
  <2> QED BY <2>5, <2>7, <2>8, <2>9 DEF t, u, m
<1> QED BY <1>1, <1>2, <1>3, Invariance, PTL DEF Spec

-----------------------------------------------------------------------------
(* From here on scheduling is synchronous and prefill is not chunked.      *)
(* Steps that do not run the batch preserve the synchronous invariant.     *)

LEMMA SyncFacts ==
  ASSUME Sync
  PROVE  TableTokens = TokenIds /\ ~AsyncSchedule /\ ~Chunked /\ ChunkSize >= maxSeqLen
  BY KvAssumption, Sizes DEF Sync, TableTokens, Chunked

(* Without placeholders the hash of a full block is that of its tokens. *)
LEMMA HashOfTokens ==
  ASSUME Sync, NEW toks \in Seq(TokenIds), NEW i \in 1..NumBlocks
  PROVE  /\ i * blockSize <= Len(toks) => PrefixHash(toks, i) = SubSeq(toks, 1, i * blockSize)
         /\ i * blockSize > Len(toks) => PrefixHash(toks, i) = INVALID_HASH_VALUE
<1>1. i \in Nat /\ i \in Int /\ Len(toks) \in Nat
  BY BlockFits
<1>a. i * blockSize \in Int
  BY <1>1, Multiples
<1>2. ASSUME NEW j \in 1..i, i * blockSize <= Len(toks)
      PROVE  toks[j * blockSize] # PLACEHOLDER_TOKEN
  <2>1. j \in Int /\ 0 < j /\ j <= i /\ i \in Int /\ 0 * blockSize = 0
    BY <1>1, Sizes
  <2>2. j * blockSize \in Int /\ j * blockSize <= i * blockSize
    BY <2>1, Multiples
  <2>5. 0 * blockSize < j * blockSize
    BY <2>1, Multiples
  <2>3. j * blockSize \in 1..Len(toks)
    BY <1>1, <1>a, <1>2, <2>1, <2>2, <2>5
  <2>4. toks[j * blockSize] \in TokenIds
    BY <2>3
  <2> QED BY <2>4, KvAssumption
<1> QED BY <1>1, <1>a, <1>2 DEF PrefixHash

(* A sequence owns the blocks of what it has computed. *)
LEMMA WrittenOwned ==
  ASSUME KInv, SInv, NEW s \in Seqs, NEW pos \in 1..written[s]
  PROVE  /\ s \in decoding
         /\ pos \in Nat \ {0} /\ pos <= Len(table[s]) /\ pos <= Len(tokens[s])
         /\ BlockOf(pos) \in 1..NumBlocks /\ SlotOf(pos) \in 1..blockSize
         /\ <<s, BlockOf(pos)>> \in acquired /\ <<s, BlockOf(pos)>> \in Objs
         /\ blockId[<<s, BlockOf(pos)>>] \in BlockIds
<1>1. written[s] \in Nat /\ pos \in Nat \ {0} /\ written[s] # 0
  BY Sizes DEF KInv, Base, Types
<1>2. s \in decoding /\ written[s] <= Len(table[s])
  <2>1. Len(table[s]) \in Nat
    BY BlocksFit DEF KInv
  <2> QED BY <1>1, <2>1 DEF SInv, Rounds
<1>3. Admitted(s) /\ ~In("Free", s)
  BY <1>2 DEF KInv, Base, Batches
<1>4. ~In("Allocate", s)
  BY <1>3 DEF KInv, Base, Calls
<1>5. /\ Len(table[s]) \in 1..maxSeqLen /\ Len(tokens[s]) \in 1..maxSeqLen
      /\ BlockOf(Len(table[s])) \in 1..NumBlocks /\ BlockOf(Len(tokens[s])) \in 1..NumBlocks
      /\ Len(table[s]) <= Len(tokens[s])
  BY <1>3, BlocksFit DEF KInv, Base, Lengths
<1>6. pos <= Len(table[s]) /\ pos <= Len(tokens[s]) /\ pos \in 1..maxSeqLen
  BY <1>1, <1>2, <1>5, Sizes
<1>7. BlockOf(pos) \in 1..NumBlocks /\ SlotOf(pos) \in 1..blockSize
  BY <1>1, <1>6, BlockFits, BlockBounds
<1>8. BlockOf(pos) <= BlockOf(Len(table[s])) /\ BlockOf(pos) <= BlockOf(Len(tokens[s]))
  BY <1>1, <1>5, <1>6, BlockMonotone
<1>9. BlockOf(pos) \in Owns(s)
  BY <1>3, <1>4, <1>5, <1>7, <1>8, BlockFits DEF Owns
<1>10. <<s, BlockOf(pos)>> \in acquired
  BY <1>7, <1>9 DEF KInv, Base, Owned
<1> QED BY <1>1, <1>2, <1>6, <1>7, <1>10, ObjTyped DEF SInv, HashesTrue

(* Computed entries stay right while their blocks stay in place. *)
LEMMA WrittenStaysRight ==
  ASSUME KInv, SInv, KInv', KvKept,
         \A s \in Seqs : /\ written'[s] \in {0, written[s]}
                         /\ written'[s] # 0 => tokens'[s] = tokens[s],
         \A s \in Seqs, i \in 1..NumBlocks : <<s, i>> \in acquired /\ written'[s] # 0 =>
            blockId'[<<s, i>>] = blockId[<<s, i>>]
  PROVE  WrittenRight'
<1> SUFFICES ASSUME NEW s \in Seqs, NEW pos \in 1..written'[s]
             PROVE  kv'[blockId'[<<s, BlockOf(pos)>>]][SlotOf(pos)] = SubSeq(tokens'[s], 1, pos)
  BY DEF WrittenRight
<1>1. written'[s] # 0 /\ written'[s] = written[s] /\ tokens'[s] = tokens[s] /\ pos \in 1..written[s]
  OBVIOUS
<1> DEFINE o == <<s, BlockOf(pos)>>
<1>2. o \in acquired /\ o \in Objs /\ blockId[o] \in BlockIds /\ BlockOf(pos) \in 1..NumBlocks
  BY <1>1, WrittenOwned
<1>3. blockId'[o] = blockId[o]
  BY <1>1, <1>2
<1>4. kv'[blockId[o]] = kv[blockId[o]]
  BY <1>2, <1>3, KeptEntries, AllocatorTells, AllocatorTellsNext DEF KInv
<1>5. kv[blockId[o]][SlotOf(pos)] = SubSeq(tokens[s], 1, pos)
  BY <1>1 DEF SInv, WrittenRight
<1> QED BY <1>1, <1>3, <1>4, <1>5

LEMMA AdmitKeepsSInv ==
  ASSUME Sync, KInv, SInv, NEW s \in Seqs, NEW p \in Prompts, Admit(s, p)
  PROVE  SInv'
<1> USE DEF Admit, allocatorVars
<1>1. ~Admitted(s) /\ s \notin decoding /\ s \notin batch
  <2>1. ~Admitted(s)
    BY BlocksFit DEF KInv
  <2> QED BY <2>1 DEF KInv, Base, Batches
<1>2. job.call = "none" /\ job'.call = "Allocate" /\ job'.seq = s
  BY NoJobIsNoCall DEF Idle
<1>3. \A t \in Seqs : t # s => tokens'[t] = tokens[t]
  BY DEF KInv, Base, Types
<1>4. \A i \in 1..NumBlocks : <<s, i>> \notin acquired
  BY <1>1, <1>2 DEF KInv, Base, Owned, Owns, In
<1>5. TablesTrue'
  <2>1. Len(table[s]) = 0
    BY <1>1 DEF Admitted
  <2> QED BY <1>3, <2>1 DEF SInv, TablesTrue
<1>6. HashesTrue'
  BY <1>3, <1>4 DEF SInv, HashesTrue, Known, Admitted
<1>7. Rounds'
  BY <1>1, <1>2, SyncFacts DEF SInv, Rounds, IsPrefill, Admitted, In
<1>8. Touched'
  BY <1>2 DEF SInv, Touched, In
<1>9. WrittenRight'
  <2> SUFFICES ASSUME NEW t \in Seqs, NEW pos \in 1..written[t]
               PROVE  kv[blockId[<<t, BlockOf(pos)>>]][SlotOf(pos)] = SubSeq(tokens'[t], 1, pos)
    BY DEF WrittenRight
  <2>1. t # s
    BY <1>1, WrittenOwned
  <2> QED BY <1>3, <2>1 DEF SInv, WrittenRight
<1>10. CachedRight'
  BY DEF SInv, CachedRight
<1> QED BY <1>5, <1>6, <1>7, <1>8, <1>9, <1>10 DEF SInv

(* Without chunks, an admitted request never waits for more prefill. *)
LEMMA ContinuePrefillNever ==
  ASSUME KInv, SInv, NEW s \in Seqs
  PROVE  ~ContinuePrefill(s)
  BY NoJobIsNoCall DEF SInv, Rounds, ContinuePrefill, IsPrefill, Idle, In

LEMMA EndKeepsSInv ==
  ASSUME Sync, KInv, SInv, NEW s \in Seqs, End(s)
  PROVE  SInv'
<1> USE DEF End, allocatorVars
<1>1. job.call = "none" /\ job'.call = "Free" /\ job'.seq = s
  BY NoJobIsNoCall DEF Idle
<1>2. written'[s] = 0 /\ \A t \in Seqs : t # s => written'[t] = written[t]
  BY DEF KInv, Base, Types
<1>3. TablesTrue' /\ HashesTrue'
  BY DEF SInv, TablesTrue, HashesTrue, Known, Admitted
<1>4. Rounds'
  BY <1>1, <1>2 DEF SInv, Rounds, Admitted, In
<1>5. Touched'
  BY <1>1 DEF SInv, Touched, In
<1>6. CachedRight'
  BY DEF SInv, CachedRight
<1>7. WrittenRight'
  <2> SUFFICES ASSUME NEW t \in Seqs, NEW pos \in 1..written'[t]
               PROVE  kv[blockId[<<t, BlockOf(pos)>>]][SlotOf(pos)] = SubSeq(tokens[t], 1, pos)
    BY DEF WrittenRight
  <2>1. written'[t] = written[t]
    BY <1>2
  <2> QED BY <2>1 DEF SInv, WrittenRight
<1> QED BY <1>3, <1>4, <1>5, <1>6, <1>7 DEF SInv

LEMMA StutterKeepsSInv ==
  ASSUME SInv, UNCHANGED vars
  PROVE  SInv'
<1> USE DEF vars, allocatorVars
<1>1. TablesTrue' /\ HashesTrue'
  BY DEF SInv, TablesTrue, HashesTrue, Known, Admitted
<1>2. Rounds'
  BY DEF SInv, Rounds, Admitted, In
<1>3. Touched'
  BY DEF SInv, Touched, In
<1>4. WrittenRight' /\ CachedRight'
  BY DEF SInv, WrittenRight, CachedRight
<1> QED BY <1>1, <1>2, <1>3, <1>4 DEF SInv

(* A block obtained for one sequence leaves the blocks of all others, and  *)
(* what they hold, in place.                                               *)
LEMMA AllocateKeeps ==
  ASSUME KInv, SInv, KInv', KvKept, UNCHANGED <<written, tokens>>,
         NEW s \in Seqs, NEW i \in 1..NumBlocks, NEW h \in Hashes \cup {INVALID_HASH_VALUE},
         Allocator!AllocateBlock(<<s, i>>, h),
         h \in Hashes => s \in batch' \/ In("Allocate", s)',
         \A t \in Seqs : t \in batch \/ In("Allocate", t) => t \in batch' \/ In("Allocate", t)'
  PROVE  /\ Touched' /\ WrittenRight' /\ CachedRight'
         /\ acquired' = acquired \cup {<<s, i>>} /\ <<s, i>> \notin acquired
         /\ blockId'[<<s, i>>] \in BlockIds /\ prefixHash'[<<s, i>>] = h
         /\ \A p \in acquired : blockId'[p] = blockId[p] /\ prefixHash'[p] = prefixHash[p]
<1> DEFINE o == <<s, i>>
<1>1. AllocatorFacts /\ AllocatorFacts'
  BY AllocatorTells, AllocatorTellsNext DEF KInv
<1>2. o \in Objs
  BY ObjTyped
<1>3. /\ o \notin acquired /\ acquired' = acquired \cup {o}
      /\ prefixHash' = [prefixHash EXCEPT ![o] = h]
  BY DEF Allocator!AllocateBlock
<1>4. PICK b \in BlockIds :
        /\ blockId' = [blockId EXCEPT ![o] = b]
        /\ \/ touchedBlocks' = touchedBlocks
           \/ touchedBlocks' = touchedBlocks \cup {b} /\ h \in Hashes /\ b \notin computed'
        /\ active' = active \cup {b}
        /\ \A c \in BlockIds : c # b => (c \in computed' <=> c \in computed)
        /\ b \in computed' => h \in Hashes /\ (b \in computed \/ \A p \in Objs : blockId[p] # b)
        /\ \A g \in Hashes : cachedBlocks'[g] \in {INVALID_BLOCKID, cachedBlocks[g]} \cup touchedBlocks'
  BY <1>1, <1>2, AllocateEffect
<1> HIDE DEF o
<1>5. acquired \subseteq Objs /\ touchedBlocks \subseteq BlockIds
  BY <1>1 DEF AllocatorFacts, AllocatorTypes
<1>6. /\ blockId'[o] = b /\ prefixHash'[o] = h
      /\ \A p \in acquired : blockId'[p] = blockId[p] /\ prefixHash'[p] = prefixHash[p]
  BY <1>1, <1>2, <1>3, <1>4, <1>5 DEF AllocatorFacts, AllocatorTypes
<1>7. ASSUME NEW c \in touchedBlocks
      PROVE  /\ c \in active' /\ c \notin computed'
             /\ \E t \in Seqs, j \in 1..NumBlocks :
                  /\ <<t, j>> \in acquired' /\ blockId'[<<t, j>>] = c
                  /\ prefixHash'[<<t, j>>] # INVALID_HASH_VALUE
                  /\ t \in batch' \/ In("Allocate", t)'
  <2>1. c \in active /\ c \notin computed /\ c \in BlockIds
    BY <1>5 DEF SInv, Touched
  <2>2. PICK t \in Seqs, j \in 1..NumBlocks :
          /\ <<t, j>> \in acquired /\ blockId[<<t, j>>] = c
          /\ prefixHash[<<t, j>>] # INVALID_HASH_VALUE
          /\ t \in batch \/ In("Allocate", t)
    BY DEF SInv, Touched
  <2>3. c \notin computed'
    BY <1>4, <1>5, <2>1, <2>2
  <2> QED BY <1>3, <1>4, <1>6, <2>1, <2>2, <2>3
<1>8. Touched'
  <2>1. ASSUME b \in touchedBlocks', b \notin touchedBlocks
        PROVE  /\ b \in active' /\ b \notin computed'
               /\ \E t \in Seqs, j \in 1..NumBlocks :
                    /\ <<t, j>> \in acquired' /\ blockId'[<<t, j>>] = b
                    /\ prefixHash'[<<t, j>>] # INVALID_HASH_VALUE
                    /\ t \in batch' \/ In("Allocate", t)'
    <3>1. b \in active' /\ b \notin computed' /\ h \in Hashes /\ h # INVALID_HASH_VALUE
      BY <1>4, <2>1, KvAssumption
    <3>2. /\ <<s, i>> \in acquired' /\ blockId'[<<s, i>>] = b
          /\ prefixHash'[<<s, i>>] # INVALID_HASH_VALUE
      BY <1>3, <1>6, <3>1 DEF o
    <3> QED BY <3>1, <3>2
  <2>2. ASSUME NEW p \in acquired', prefixHash'[p] = INVALID_HASH_VALUE
        PROVE  blockId'[p] \notin computed'
    <3>1. CASE p = o
      BY <1>4, <1>6, <2>2, <3>1, KvAssumption
    <3>2. CASE p \in acquired
      <4>1. blockId[p] \notin computed /\ prefixHash[p] = INVALID_HASH_VALUE /\ p \in Objs
        BY <1>5, <1>6, <2>2, <3>2 DEF SInv, Touched
      <4>2. computed' \subseteq BlockIds
        BY <1>1 DEF AllocatorFacts, AllocatorTypes
      <4> QED BY <1>4, <1>6, <3>2, <4>1, <4>2
    <3> QED BY <1>3, <2>2, <3>1, <3>2
  <2>3. \A c \in touchedBlocks' : c \in touchedBlocks \/ c = b
    BY <1>4
  <2> QED BY <1>7, <2>1, <2>2, <2>3 DEF Touched
<1>9. CachedRight'
  <2>1. touchedBlocks \subseteq touchedBlocks'
    BY <1>4
  <2> QED BY <1>1, <1>4, <2>1, CachedStaysRight DEF SInv
<1>10. WrittenRight'
  BY <1>6, WrittenStaysRight
<1> QED BY <1>3, <1>6, <1>8, <1>9, <1>10 DEF o

LEMMA EnsureEnoughSlotsKeepsSInv ==
  ASSUME Sync, KInv, SInv, KInv', NEW s \in Seqs, EnsureEnoughSlots(s)
  PROVE  SInv'
<1> USE DEF EnsureEnoughSlots, CanAppend
<1> DEFINE i == BlockOf(Len(tokens[s]))
<1>1. job.call = "none" /\ job'.call = "AppendSlot" /\ job'.seq = s
  BY NoJobIsNoCall DEF Idle
<1>2. i \in 1..NumBlocks /\ Len(tokens[s]) \in 1..maxSeqLen
  BY BlocksFit DEF KInv
<1>3. /\ Touched' /\ WrittenRight' /\ CachedRight'
      /\ acquired' = acquired \cup {<<s, i>>} /\ <<s, i>> \notin acquired
      /\ blockId'[<<s, i>>] \in BlockIds /\ prefixHash'[<<s, i>>] = INVALID_HASH_VALUE
      /\ \A p \in acquired : blockId'[p] = blockId[p] /\ prefixHash'[p] = prefixHash[p]
  <2>1. INVALID_HASH_VALUE \notin Hashes
    BY KvAssumption
  <2>2. \A t \in Seqs : ~In("Allocate", t)
    BY <1>1 DEF In
  <2>3. KvKept /\ UNCHANGED <<written, tokens>> /\ batch' = batch
        /\ Allocator!AllocateBlock(<<s, i>>, INVALID_HASH_VALUE)
    OBVIOUS
  <2> HIDE DEF i, EnsureEnoughSlots, CanAppend
  <2> QED BY <1>2, <2>1, <2>2, <2>3, AllocateKeeps
<1>4. TablesTrue'
  BY DEF SInv, TablesTrue
<1>5. HashesTrue'
  <2>1. i * blockSize > Len(table[s]) /\ Admitted(s)
    <3>1. Len(tokens[s]) \in Nat \ {0} /\ Len(tokens[s]) = Len(table[s]) + 1
      BY <1>2
    <3>2. Len(tokens[s]) <= i * blockSize /\ i * blockSize \in Int
      BY <3>1, BlockBounds
    <3>3. Len(table[s]) \in Nat
      BY BlocksFit DEF KInv
    <3> HIDE DEF i
    <3> QED BY <3>1, <3>2, <3>3
  <2> HIDE DEF i
  <2> SUFFICES ASSUME NEW t \in Seqs, NEW j \in 1..NumBlocks, <<t, j>> \in acquired'
               PROVE  /\ blockId'[<<t, j>>] \in BlockIds
                      /\ j * blockSize <= Known(t) => prefixHash'[<<t, j>>] = SubSeq(tokens[t], 1, j * blockSize)
                      /\ j * blockSize > Known(t) => prefixHash'[<<t, j>>] = INVALID_HASH_VALUE
    BY DEF HashesTrue, Known, Admitted
  <2>2. CASE <<t, j>> \in acquired
    BY <1>3, <2>2 DEF SInv, HashesTrue
  <2>3. CASE <<t, j>> = <<s, i>>
    <3>1. t = s /\ j = i /\ Known(t) = Len(table[s])
      BY <2>1, <2>3 DEF Known
    <3>2. Len(table[s]) \in Nat /\ j * blockSize \in Int
      <4>1. Len(table[s]) \in Nat
        BY BlocksFit DEF KInv
      <4>2. j \in Int
        BY BlockFits
      <4> QED BY <4>1, <4>2, Multiples
    <3> QED BY <1>3, <2>1, <3>1, <3>2
  <2> QED BY <1>3, <2>2, <2>3
<1>6. Rounds'
  BY <1>1, SyncFacts DEF SInv, Rounds, IsPrefill, Admitted, In
<1> QED BY <1>3, <1>4, <1>5, <1>6 DEF SInv

LEMMA AllocateNextKeepsSInv ==
  ASSUME Sync, KInv, SInv, KInv', AllocateNext, NEW s \in Seqs, NEW i \in 1..NumBlocks,
         job = [call |-> "Allocate", seq |-> s, next |-> i]
  PROVE  SInv'
<1> DEFINE h == PrefixHash(tokens[s], i)
<1>1. job.call = "Allocate" /\ job.seq = s /\ job.next = i /\ In("Allocate", s)
  BY DEF In
<1>2. /\ KvKept /\ UNCHANGED <<tokens, written, decoding, lastBatch>>
      /\ Allocator!AllocateBlock(<<s, i>>, h)
      /\ \/ /\ table' = [table EXCEPT ![s] = tokens[s]]
            /\ batch' = batch \cup {s}
            /\ job' = NoJob
         \/ /\ job' = [job EXCEPT !.next = i + 1]
            /\ UNCHANGED <<table, batch>>
  BY <1>1 DEF AllocateNext
<1>3. h \in Hashes \cup {INVALID_HASH_VALUE}
  BY <1>1, AllocateNextImplements DEF KInv
<1>4. \A t \in Seqs : t \in batch \/ In("Allocate", t) => t \in batch' \/ In("Allocate", t)'
  BY <1>1, <1>2 DEF In
<1>5. ~Admitted(s) /\ s \notin decoding /\ Len(table[s]) = 0
  <2>1. ~Admitted(s)
    BY <1>1 DEF KInv, Base, Calls
  <2> QED BY <2>1 DEF KInv, Base, Batches, Admitted
<1>6. tokens[s] \in Seq(TokenIds) /\ Len(tokens[s]) \in Nat
  BY BlocksFit DEF KInv, Base, Types
<1>7. /\ i * blockSize <= Len(tokens[s]) => h = SubSeq(tokens[s], 1, i * blockSize)
      /\ i * blockSize > Len(tokens[s]) => h = INVALID_HASH_VALUE
  BY <1>6, HashOfTokens
<1> HIDE DEF h
<1>8. /\ Touched' /\ WrittenRight' /\ CachedRight'
      /\ acquired' = acquired \cup {<<s, i>>} /\ <<s, i>> \notin acquired
      /\ blockId'[<<s, i>>] \in BlockIds /\ prefixHash'[<<s, i>>] = h
      /\ \A p \in acquired : blockId'[p] = blockId[p] /\ prefixHash'[p] = prefixHash[p]
  <2>1. s \in batch' \/ In("Allocate", s)'
    BY <1>1, <1>4
  <2> QED BY <1>2, <1>3, <1>4, <2>1, AllocateKeeps
<1>9. /\ \A t \in Seqs : t # s => table'[t] = table[t]
      /\ table'[s] \in {table[s], tokens[s]}
  BY <1>2 DEF KInv, Base, Types
<1>10. TablesTrue'
  <2>1. tokens' = tokens
    BY <1>2
  <2> QED BY <1>5, <1>9, <2>1 DEF SInv, TablesTrue
<1>11. \A t \in Seqs : Known(t)' = Known(t)
  BY <1>2, <1>5, <1>9 DEF Known, Admitted
<1>12. HashesTrue'
  <2> SUFFICES ASSUME NEW t \in Seqs, NEW j \in 1..NumBlocks, <<t, j>> \in acquired'
               PROVE  /\ blockId'[<<t, j>>] \in BlockIds
                      /\ j * blockSize <= Known(t) => prefixHash'[<<t, j>>] = SubSeq(tokens[t], 1, j * blockSize)
                      /\ j * blockSize > Known(t) => prefixHash'[<<t, j>>] = INVALID_HASH_VALUE
    BY <1>2, <1>11 DEF HashesTrue
  <2>1. CASE <<t, j>> \in acquired
    BY <1>8, <2>1 DEF SInv, HashesTrue
  <2>2. CASE <<t, j>> = <<s, i>>
    <3>1. t = s /\ j = i /\ Known(t) = Len(tokens[s])
      BY <1>5, <2>2 DEF Known
    <3> QED BY <1>7, <1>8, <3>1
  <2> QED BY <1>8, <2>1, <2>2
<1>13. Rounds'
  <2>1. \A t \in Seqs : Admitted(t)' => Admitted(t) \/ t \in batch'
    BY <1>2, <1>9 DEF Admitted
  <2>2. /\ job'.call \in {"none", "Allocate"} /\ batch' \subseteq batch \cup {s} /\ batch \subseteq batch'
        /\ \A t \in Seqs : ~In("Free", t) /\ ~In("Free", t)'
    BY <1>1, <1>2, NoJobIsNoCall DEF In
  <2>3. \A t \in Seqs : t \in decoding => table'[t] = table[t] /\ (t \in batch' <=> t \in batch)
    BY <1>5, <1>9, <2>2
  <2>4. batch \cap decoding = {} /\ batch' \cap decoding = {}
    BY <1>1, <1>5, <2>2 DEF SInv, Rounds
  <2> QED BY <1>2, <2>1, <2>2, <2>3, <2>4 DEF SInv, Rounds
<1> QED BY <1>8, <1>10, <1>12, <1>13 DEF SInv

LEMMA FreeNextKeepsSInv ==
  ASSUME Sync, KInv, SInv, KInv', FreeNext, NEW s \in Seqs, NEW i \in 1..NumBlocks,
         job = [call |-> "Free", seq |-> s, next |-> i]
  PROVE  SInv'
<1> DEFINE o == <<s, i>>
<1>1. job.call = "Free" /\ job.seq = s /\ job.next = i /\ In("Free", s)
      /\ \A t \in Seqs : ~In("Allocate", t)
  BY DEF In
<1>2. /\ KvKept /\ UNCHANGED <<written, decoding, batch>>
      /\ Allocator!Free(o)
      /\ \/ /\ tokens' = [tokens EXCEPT ![s] = <<>>]
            /\ table' = [table EXCEPT ![s] = <<>>]
            /\ job' = NoJob
            /\ i = BlockOf(Len(table[s]))
         \/ /\ job' = [job EXCEPT !.next = i + 1]
            /\ UNCHANGED <<tokens, table>>
  BY <1>1 DEF FreeNext
<1>3. s \notin batch /\ s \notin decoding /\ written[s] = 0
  <2>1. s \notin batch /\ s \notin decoding
    BY <1>1 DEF KInv, Base, Batches
  <2> QED BY <2>1 DEF SInv, Rounds
<1>4. \A t \in Seqs : t # s => table'[t] = table[t] /\ tokens'[t] = tokens[t]
  BY <1>2 DEF KInv, Base, Types
<1>5. AllocatorFacts /\ AllocatorFacts'
  BY AllocatorTells, AllocatorTellsNext DEF KInv
<1>6. o \in Objs
  BY ObjTyped
<1> HIDE DEF o
<1>7. /\ blockId' = [blockId EXCEPT ![o] = INVALID_BLOCKID]
      /\ prefixHash' = [prefixHash EXCEPT ![o] = INVALID_HASH_VALUE]
      /\ acquired' = acquired \ {o}
      /\ UNCHANGED <<cachedBlocks, touchedBlocks>>
      /\ computed' \subseteq computed
      /\ \A p \in Objs : p # o /\ blockId[p] \in BlockIds /\ blockId[p] \in active =>
           blockId[p] \in active'
  BY <1>2, <1>5, <1>6, FreeEffect
<1>8. \A p \in Objs : p # o => blockId'[p] = blockId[p] /\ prefixHash'[p] = prefixHash[p]
  BY <1>5, <1>7 DEF AllocatorFacts, AllocatorTypes
<1>9. acquired \subseteq Objs /\ touchedBlocks \subseteq BlockIds
  BY <1>5 DEF AllocatorFacts, AllocatorTypes
<1>10. TablesTrue'
  <2>1. CASE table'[s] = <<>>
    BY <1>4, <2>1 DEF SInv, TablesTrue
  <2>2. CASE UNCHANGED <<tokens, table>>
    BY <2>2 DEF SInv, TablesTrue
  <2> QED BY <1>2, <2>1, <2>2 DEF KInv, Base, Types
<1>11. HashesTrue'
  <2> SUFFICES ASSUME NEW t \in Seqs, NEW j \in 1..NumBlocks, <<t, j>> \in acquired'
               PROVE  /\ blockId'[<<t, j>>] \in BlockIds
                      /\ j * blockSize <= Known(t)' => prefixHash'[<<t, j>>] = SubSeq(tokens'[t], 1, j * blockSize)
                      /\ j * blockSize > Known(t)' => prefixHash'[<<t, j>>] = INVALID_HASH_VALUE
    BY DEF HashesTrue
  <2>1. <<t, j>> \in acquired /\ <<t, j>> # o /\ <<t, j>> \in Objs
    BY <1>7, <1>9
  <2>2. tokens'[t] = tokens[t] /\ table'[t] = table[t]
    <3>1. CASE t # s
      BY <1>4, <3>1
    <3>2. CASE t = s
      <4>1. job' # NoJob
        <5> SUFFICES ASSUME job' = NoJob, table'[s] = <<>> PROVE FALSE
          BY <1>2, <1>1, NoJobIsNoCall DEF KInv, Base, Types
        <5>1. Owns(s)' = {}
          BY NoJobIsNoCall DEF Owns, In, Admitted
        <5> QED BY <3>2, <5>1 DEF KInv, Base, Owned
      <4> QED BY <1>2, <3>2, <4>1
    <3> QED BY <3>1, <3>2
  <2>3. Known(t)' = Known(t)
    BY <2>2 DEF Known, Admitted
  <2> QED BY <1>8, <2>1, <2>2, <2>3 DEF SInv, HashesTrue
<1>12. Rounds'
  <2>1. /\ job'.call \in {"none", "Free"}
        /\ \A t \in Seqs : t # s => ~In("Free", t) /\ ~In("Free", t)'
    BY <1>1, <1>2, NoJobIsNoCall DEF In
  <2>2. Admitted(s)' => In("Free", s)'
    BY <1>1, <1>2 DEF In, Admitted, KInv, Base, Types
  <2> QED BY <1>2, <1>3, <1>4, <2>1, <2>2 DEF SInv, Rounds, Admitted
<1>13. Touched'
  <2>1. ASSUME NEW c \in touchedBlocks
        PROVE  /\ c \in active' /\ c \notin computed'
               /\ \E t \in Seqs, j \in 1..NumBlocks :
                    /\ <<t, j>> \in acquired' /\ blockId'[<<t, j>>] = c
                    /\ prefixHash'[<<t, j>>] # INVALID_HASH_VALUE
                    /\ t \in batch' \/ In("Allocate", t)'
    <3>1. PICK t \in Seqs, j \in 1..NumBlocks :
            /\ <<t, j>> \in acquired /\ blockId[<<t, j>>] = c
            /\ prefixHash[<<t, j>>] # INVALID_HASH_VALUE
            /\ t \in batch \/ In("Allocate", t)
      BY DEF SInv, Touched
    <3>2. c \in active /\ c \notin computed /\ c \in BlockIds
      BY <1>9 DEF SInv, Touched
    <3>3. t \in batch /\ t # s
      BY <1>1, <1>3, <3>1
    <3>4. <<t, j>> # o /\ <<t, j>> \in Objs
      BY <1>9, <3>1, <3>3 DEF o
    <3>5. c \in active' /\ c \notin computed'
      BY <1>7, <3>1, <3>2, <3>4
    <3> QED BY <1>2, <1>7, <1>8, <3>1, <3>3, <3>4, <3>5
  <2>2. \A p \in acquired' : prefixHash'[p] = INVALID_HASH_VALUE => blockId'[p] \notin computed'
    BY <1>7, <1>8, <1>9 DEF SInv, Touched
  <2> QED BY <1>7, <2>1, <2>2 DEF Touched
<1>14. CachedRight'
  BY <1>2, <1>5, <1>7, CachedStaysRight DEF SInv
<1>15. WrittenRight'
  <2>1. \A t \in Seqs : written'[t] \in {0, written[t]} /\ (written'[t] # 0 => tokens'[t] = tokens[t])
    BY <1>2, <1>3, <1>4
  <2>2. \A t \in Seqs, j \in 1..NumBlocks : <<t, j>> \in acquired /\ written'[t] # 0 =>
          blockId'[<<t, j>>] = blockId[<<t, j>>]
    BY <1>2, <1>3, <1>8, <1>9 DEF o
  <2> QED BY <1>2, <2>1, <2>2, WrittenStaysRight
<1> QED BY <1>10, <1>11, <1>12, <1>13, <1>14, <1>15 DEF SInv

(* Appending a token gives the last block its hash exactly when it is full *)
(* and changes the hash of no other block.                                 *)
LEMMA AppendHashes ==
  ASSUME Sync, KInv, SInv, NEW s \in Seqs, AppendSlot(s)
  PROVE  /\ Append(table[s], NewToken(s)) = tokens[s]
         /\ PrefixHash(tokens[s], BlockOf(Len(tokens[s]))) =
              IF BlockOf(Len(tokens[s])) * blockSize = Len(tokens[s])
                THEN tokens[s] ELSE INVALID_HASH_VALUE
         /\ \A j \in 1..NumBlocks : j # BlockOf(Len(tokens[s])) =>
              (j * blockSize <= Len(tokens[s]) <=> j * blockSize <= Len(table[s]))
         /\ ~(BlockOf(Len(tokens[s])) * blockSize <= Len(table[s]))
<1> DEFINE n == Len(tokens[s])
           q == BlockOf(n)
<1>1. /\ Len(tokens[s]) = Len(table[s]) + 1 /\ Admitted(s) /\ q \in 1..NumBlocks
  BY AppendSlotState DEF KInv
<1>2. tokens[s] \in Seq(TokenIds) /\ table[s] \in Seq(TokenIds) /\ n \in Nat \ {0} /\ Len(table[s]) \in Nat
  <2>1. n \in 1..maxSeqLen /\ Len(table[s]) \in Nat
    BY <1>1, BlocksFit DEF KInv
  <2> QED BY <2>1, SyncFacts DEF KInv, Base, Types
<1>3. Append(table[s], NewToken(s)) = tokens[s]
  <2>1. NewToken(s) = tokens[s][n]
    BY SyncFacts DEF NewToken, Last
  <2>2. tokens[s][n] \in TokenIds
    BY <1>2
  <2>3. /\ Append(table[s], tokens[s][n]) \in Seq(TokenIds)
        /\ Len(Append(table[s], tokens[s][n])) = n
        /\ \A p \in 1..Len(table[s]) : Append(table[s], tokens[s][n])[p] = table[s][p]
        /\ Append(table[s], tokens[s][n])[n] = tokens[s][n]
    BY <1>1, <1>2, <2>2, AppendProperties
  <2>4. \A p \in 1..n : Append(table[s], tokens[s][n])[p] = tokens[s][p]
    <3> SUFFICES ASSUME NEW p \in 1..n PROVE Append(table[s], tokens[s][n])[p] = tokens[s][p]
      OBVIOUS
    <3>1. p = n \/ p \in 1..Len(table[s])
      BY <1>1, <1>2
    <3>2. p \in 1..Len(table[s]) => table[s][p] = tokens[s][p]
      BY DEF SInv, TablesTrue
    <3> QED BY <2>3, <3>1, <3>2
  <2> DEFINE a == Append(table[s], tokens[s][n])
  <2> HIDE DEF a, n
  <2>5. a = tokens[s]
    <3>1. a \in Seq(TokenIds) /\ Len(a) = Len(tokens[s]) /\ \A p \in 1..Len(tokens[s]) : a[p] = tokens[s][p]
      BY <2>3, <2>4 DEF a, n
    <3> QED BY <1>2, <3>1, SeqEqual
  <2> QED BY <2>1, <2>5 DEF a
<1>4. q \in Int /\ q * blockSize \in Int /\ n <= q * blockSize /\ q * blockSize - blockSize < n
  BY <1>2, BlockBounds
<1>5. PrefixHash(tokens[s], q) = IF q * blockSize = n THEN tokens[s] ELSE INVALID_HASH_VALUE
  <2>1. CASE q * blockSize = n
    <3>1. PrefixHash(tokens[s], q) = SubSeq(tokens[s], 1, n)
      BY <1>1, <1>2, <1>4, <2>1, HashOfTokens
    <3> QED BY <1>2, <2>1, <3>1, SubSeqFull
  <2>2. CASE q * blockSize # n
    BY <1>1, <1>2, <1>4, <2>2, HashOfTokens
  <2> QED BY <2>1, <2>2
<1> HIDE DEF q
<1>6. ASSUME NEW j \in 1..NumBlocks, j # q
      PROVE  j * blockSize <= n <=> j * blockSize <= Len(table[s])
  <2>1. j \in Int
    BY BlockFits
  <2>2. j * blockSize \in Int
    BY <2>1, Multiples
  <2>3. j < q => j * blockSize + blockSize <= q * blockSize
    BY <1>4, <2>1, Multiples
  <2>4. q < j => q * blockSize + blockSize <= j * blockSize
    BY <1>4, <2>1, Multiples
  <2>5. CASE j < q
    <3>1. j * blockSize < n
      <4>1. \A x, y, b, m \in Int : x + b <= y /\ y - b < m => x < m
        OBVIOUS
      <4>2. j * blockSize + blockSize <= q * blockSize /\ blockSize \in Int /\ n \in Int
        BY <1>2, <2>3, <2>5, Sizes
      <4> QED BY <1>4, <2>2, <4>1, <4>2
    <3> QED BY <1>1, <1>2, <2>2, <3>1
  <2>6. CASE q < j
    <3>1. n < j * blockSize
      BY <1>2, <1>4, <2>2, <2>4, <2>6, Sizes
    <3> QED BY <1>1, <1>2, <2>2, <3>1
  <2> QED BY <1>4, <1>6, <2>1, <2>5, <2>6
<1>7. ~(q * blockSize <= Len(table[s]))
  BY <1>1, <1>2, <1>4
<1> QED BY <1>3, <1>5, <1>6, <1>7 DEF q

(* What is known when a token has been appended to sequence s: its object  *)
(* for the last block may have changed blocks, all others stay in place.   *)
LEMMA AppendEffect ==
  ASSUME Sync, KInv, SInv, NEW s \in Seqs, AppendSlot(s)
  PROVE  LET o == <<s, BlockOf(Len(tokens[s]))>> IN
         /\ table' = [table EXCEPT ![s] = tokens[s]]
         /\ batch' = batch \cup {s} /\ job' = NoJob /\ KvKept
         /\ UNCHANGED <<tokens, written, decoding, lastBatch, acquired>>
         /\ \/ /\ UNCHANGED allocatorVars
               /\ BlockOf(Len(tokens[s])) * blockSize # Len(tokens[s])
            \/ /\ Allocator!PromoteNew(o, tokens[s]) \/ Allocator!PromoteOntoCached(o, tokens[s])
               /\ BlockOf(Len(tokens[s])) * blockSize = Len(tokens[s])
               /\ tokens[s] \in Hashes
<1> DEFINE i == BlockOf(Len(tokens[s]))
           h == PrefixHash(tokens[s], i)
<1>1. Append(table[s], NewToken(s)) = tokens[s]
  BY AppendHashes
<1>2. AppendToken(s)
  BY AppendSlotState DEF KInv
<1>3. /\ table' = [table EXCEPT ![s] = tokens[s]]
      /\ batch' = batch \cup {s} /\ job' = NoJob /\ KvKept
      /\ UNCHANGED <<tokens, written, decoding, lastBatch>>
      /\ IF h = INVALID_HASH_VALUE
           THEN UNCHANGED allocatorVars
           ELSE Allocator!PromoteNew(<<s, i>>, h) \/ Allocator!PromoteOntoCached(<<s, i>>, h)
  BY <1>1, <1>2 DEF AppendToken
<1>4. h = IF i * blockSize = Len(tokens[s]) THEN tokens[s] ELSE INVALID_HASH_VALUE
  BY AppendHashes
<1>9. i \in 1..NumBlocks
  BY AppendSlotState DEF KInv
<1>10. tokens[s] \in Seq(TableTokens)
  BY TokensInTables DEF KInv, Base, Types
<1>5. h \in Hashes \cup {INVALID_HASH_VALUE}
  BY <1>9, <1>10, HashTyped
<1>6. acquired' = acquired
  BY <1>3 DEF allocatorVars, Allocator!PromoteNew, Allocator!PromoteOntoCached
<1> HIDE DEF h, i
<1>7. CASE h = INVALID_HASH_VALUE
  <2>2. i * blockSize = Len(tokens[s]) => tokens[s] \in Hashes
    <3> SUFFICES ASSUME i * blockSize = Len(tokens[s]) PROVE tokens[s] \in Hashes
      OBVIOUS
    <3>2. tokens[s] \in [1..Len(tokens[s]) -> TableTokens]
      BY <1>10
    <3>3. [1..(i * blockSize) -> TableTokens] \subseteq Hashes
      BY <1>9, KvAssumption
    <3> QED BY <3>2, <3>3
  <2>3. i * blockSize # Len(tokens[s])
    BY <1>4, <1>7, <2>2, KvAssumption
  <2> QED BY <1>3, <1>6, <1>7, <2>3 DEF i
<1>8. CASE h # INVALID_HASH_VALUE
  <2>1. h = tokens[s] /\ i * blockSize = Len(tokens[s]) /\ h \in Hashes
    BY <1>4, <1>5, <1>8
  <2> QED BY <1>3, <1>6, <1>8, <2>1 DEF i
<1> QED BY <1>7, <1>8

(* The hash of an object names the tokens of its sequence up to its block. *)
LEMMA HashTells ==
  ASSUME KInv, SInv, NEW t \in Seqs, NEW j \in 1..NumBlocks, <<t, j>> \in acquired,
         prefixHash[<<t, j>>] # INVALID_HASH_VALUE
  PROVE  LET h == prefixHash[<<t, j>>] IN
         /\ j * blockSize \in Nat
         /\ j * blockSize <= Known(t) /\ j * blockSize <= Len(tokens[t])
         /\ h = SubSeq(tokens[t], 1, j * blockSize) /\ Len(h) = j * blockSize
         /\ \A pos \in 1..(j * blockSize) : SubSeq(tokens[t], 1, pos) = SubSeq(h, 1, pos)
<1> DEFINE n == j * blockSize
           h == prefixHash[<<t, j>>]
<1>1. n \in Nat
  <2>1. j \in Nat
    BY BlockFits
  <2> QED BY <2>1, Sizes
<1>2. Len(tokens[t]) \in Nat /\ Len(table[t]) \in Nat /\ Len(table[t]) <= Len(tokens[t])
  BY BlocksFit DEF KInv, Base, Lengths
<1>3. Known(t) \in Nat /\ Known(t) <= Len(tokens[t])
  BY <1>2 DEF Known
<1>4. n <= Known(t) /\ h = SubSeq(tokens[t], 1, n)
  <2>1. /\ n <= Known(t) => h = SubSeq(tokens[t], 1, n)
        /\ n > Known(t) => h = INVALID_HASH_VALUE
    BY DEF SInv, HashesTrue
  <2> HIDE DEF n
  <2> QED BY <1>1, <1>3, <2>1
<1>5. n <= Len(tokens[t]) /\ n \in 0..Len(tokens[t])
  <2> HIDE DEF n
  <2> QED BY <1>1, <1>2, <1>3, <1>4
<1>6. tokens[t] \in Seq(TokenIds)
  BY DEF KInv, Base, Types
<1>7. Len(SubSeq(tokens[t], 1, n)) = n
  BY <1>5, <1>6, PrefixProperties
<1> HIDE DEF n, h
<1>8. ASSUME NEW pos \in 1..n
      PROVE  SubSeq(tokens[t], 1, pos) = SubSeq(h, 1, pos)
  <2>1. pos \in 0..n
    BY <1>1
  <2> QED BY <1>4, <1>5, <1>6, <2>1, PrefixOfPrefix
<1> QED BY <1>1, <1>4, <1>5, <1>7, <1>8 DEF n, h

(* A promoted object finds, in the block it changes to, the entries that   *)
(* its sequence has computed in the block it gives up.                     *)
LEMMA PromotedFindsEntries ==
  ASSUME Sync, KInv, SInv, NEW s \in Seqs, AppendSlot(s), batch \subseteq decoding,
         NEW h \in Hashes, h = tokens[s], cachedBlocks[h] # INVALID_BLOCKID,
         Len(tokens[s]) = BlockOf(Len(tokens[s])) * blockSize,
         NEW pos \in 1..written[s], BlockOf(pos) = BlockOf(Len(tokens[s])),
         \A t \in Seqs : ~In("Allocate", t)
  PROVE  kv[cachedBlocks[h]][SlotOf(pos)] = SubSeq(tokens[s], 1, pos)
<1> DEFINE c == cachedBlocks[h]
           i == BlockOf(Len(tokens[s]))
           n == Len(tokens[s])
<1>1. AllocatorFacts
  BY AllocatorTells DEF KInv
<1>2. pos \in Nat \ {0} /\ SlotOf(pos) \in 1..blockSize /\ pos <= Len(table[s])
  BY WrittenOwned
<1>3. SlotOf(pos) = pos - (i * blockSize - blockSize) /\ n = i * blockSize
  BY <1>2, BlockBounds
<1>4. n = Len(table[s]) + 1 /\ n \in Nat /\ Len(table[s]) \in Nat
  BY AppendSlotState, BlocksFit DEF KInv
<1>5. CASE c \notin touchedBlocks
  <2>1. kv[c][SlotOf(pos)] = SubSeq(h, 1, Len(h) - blockSize + SlotOf(pos))
    BY <1>2, <1>5 DEF SInv, CachedRight
  <2>2. Len(h) - blockSize + SlotOf(pos) = pos
    BY <1>2, <1>3, <1>4, Sizes
  <2> QED BY <2>1, <2>2
<1>6. CASE c \in touchedBlocks
  <2>1. PICK t \in Seqs, j \in 1..NumBlocks :
          /\ <<t, j>> \in acquired /\ blockId[<<t, j>>] = c
          /\ prefixHash[<<t, j>>] # INVALID_HASH_VALUE /\ t \in batch
    BY <1>6 DEF SInv, Touched
  <2>2. prefixHash[<<t, j>>] = h
    BY <1>1, <2>1, ObjTyped DEF AllocatorFacts, CachedBlocks
  <2>3. /\ j * blockSize <= Known(t) /\ Len(h) = j * blockSize
        /\ \A p \in 1..(j * blockSize) : SubSeq(tokens[t], 1, p) = SubSeq(h, 1, p)
    BY <2>1, <2>2, HashTells
  <2>4. Admitted(t) /\ t \in decoding /\ Known(t) = Len(table[t]) /\ Len(table[t]) \in Nat
    BY <2>1, BlocksFit DEF KInv, Base, Batches, Known
  <2>5. written[t] = Len(table[t]) - 1
    BY <2>1, <2>4 DEF SInv, Rounds
  <2>6. j = i
    <3>1. j * blockSize = i * blockSize /\ j \in Int /\ i \in Int
      BY <1>3, <1>4, <2>3, BlockFits, BlockBounds
    <3>2. j < i => j * blockSize < i * blockSize
      BY <3>1, Multiples
    <3>3. i < j => i * blockSize < j * blockSize
      BY <3>1, Multiples
    <3>4. i * blockSize \in Int
      BY <3>1, Multiples
    <3> HIDE DEF i
    <3> QED BY <3>1, <3>2, <3>3, <3>4
  <2>7. pos <= j * blockSize - 1 /\ j * blockSize = n
    BY <1>2, <1>3, <1>4, <2>6
  <2>8. pos \in 1..written[t] /\ pos \in 1..(j * blockSize)
    BY <1>2, <1>4, <2>3, <2>4, <2>5, <2>7
  <2>9. kv[blockId[<<t, BlockOf(pos)>>]][SlotOf(pos)] = SubSeq(tokens[t], 1, pos)
    BY <2>8 DEF SInv, WrittenRight
  <2> QED BY <2>1, <2>3, <2>6, <2>8, <2>9
<1> QED BY <1>5, <1>6

LEMMA AppendSlotKeepsSInv ==
  ASSUME Sync, KInv, SInv, KInv', NEW s \in Seqs, AppendSlot(s)
  PROVE  SInv'
<1> DEFINE n == Len(tokens[s])
           i == BlockOf(n)
           o == <<s, i>>
<1>1. /\ Admitted(s) /\ s \notin batch /\ s \in decoding
      /\ Idle \/ In("AppendSlot", s)
      /\ n = Len(table[s]) + 1 /\ o \in Objs /\ i \in 1..NumBlocks
  BY AppendSlotState DEF KInv
<1>2. /\ table' = [table EXCEPT ![s] = tokens[s]]
      /\ batch' = batch \cup {s} /\ job' = NoJob /\ KvKept
      /\ UNCHANGED <<tokens, written, decoding, acquired>>
      /\ \/ UNCHANGED allocatorVars /\ i * blockSize # n
         \/ /\ Allocator!PromoteNew(o, tokens[s]) \/ Allocator!PromoteOntoCached(o, tokens[s])
            /\ i * blockSize = n
            /\ tokens[s] \in Hashes
  BY AppendEffect
<1>3. \A t \in Seqs : ~In("Allocate", t) /\ ~In("Free", t)
  BY <1>1, NoJobIsNoCall DEF In, Idle
<1>4. batch \subseteq decoding
  <2>1. CASE In("AppendSlot", s)
    BY <2>1 DEF SInv, Rounds, In
  <2>2. CASE CanAppend(s)
    BY <2>2, SyncFacts DEF CanAppend, IsPrefill, KInv, Base, Types
  <2> QED BY <2>1, <2>2 DEF AppendSlot, In
<1>5. AllocatorFacts /\ AllocatorFacts'
  BY AllocatorTells, AllocatorTellsNext DEF KInv
<1>6. o \in acquired
  <2>1. Owns(s) = 1..i
    BY AppendSlotState DEF KInv
  <2>2. i \in Owns(s)
    BY <1>1, <2>1, BlockFits
  <2> QED BY <1>1, <2>2 DEF KInv, Base, Owned
<1>7. tokens[s] \in Seq(TokenIds) /\ n \in Nat /\ Len(table[s]) \in Nat /\ Len(table[s]) > 0
  <2>1. Len(table[s]) \in 1..maxSeqLen /\ n \in Nat
    BY <1>1, BlocksFit DEF KInv
  <2> QED BY <2>1 DEF KInv, Base, Types
<1>8. /\ table'[s] = tokens[s] /\ \A t \in Seqs : t # s => table'[t] = table[t]
  BY <1>2 DEF KInv, Base, Types
<1>9. /\ \A j \in 1..NumBlocks : j # i => (j * blockSize <= n <=> j * blockSize <= Len(table[s]))
      /\ ~(i * blockSize <= Len(table[s])) /\ i * blockSize \in Int
  <2>1. /\ \A j \in 1..NumBlocks : j # i => (j * blockSize <= n <=> j * blockSize <= Len(table[s]))
        /\ ~(i * blockSize <= Len(table[s]))
    BY AppendHashes
  <2>2. i \in Int
    BY <1>1, BlockFits
  <2> QED BY <2>1, <2>2, Multiples
<1>10. prefixHash[o] = INVALID_HASH_VALUE /\ blockId[o] \in BlockIds
  <2>1. Known(s) = Len(table[s])
    BY <1>1 DEF Known
  <2> QED BY <1>1, <1>6, <1>7, <1>9, <2>1 DEF SInv, HashesTrue
<1>11. acquired \subseteq Objs /\ touchedBlocks \subseteq BlockIds /\ computed' \subseteq BlockIds
  BY <1>5 DEF AllocatorFacts, AllocatorTypes
<1> HIDE DEF o
<1>12. PICK b \in BlockIds :
         /\ blockId' = [blockId EXCEPT ![o] = b]
         /\ \/ /\ touchedBlocks' = touchedBlocks /\ b = blockId[o]
               /\ prefixHash' = prefixHash /\ computed' = computed /\ i * blockSize # n
            \/ /\ touchedBlocks' = touchedBlocks /\ b = cachedBlocks[tokens[s]]
               /\ tokens[s] \in Hashes /\ cachedBlocks' = cachedBlocks
               /\ prefixHash' = [prefixHash EXCEPT ![o] = tokens[s]] /\ i * blockSize = n
            \/ /\ touchedBlocks' = touchedBlocks \cup {b} /\ b = blockId[o] /\ computed' = computed
               /\ tokens[s] \in Hashes
               /\ prefixHash' = [prefixHash EXCEPT ![o] = tokens[s]] /\ i * blockSize = n
         /\ \A c \in BlockIds : c # blockId[o] /\ c \in active => c \in active'
         /\ b \in active'
         /\ \A c \in BlockIds : c # b /\ c \in computed' => c \in computed
         /\ b \in computed' => b \in computed \/ \A p \in Objs : blockId[p] # b
         /\ \A g \in Hashes : cachedBlocks'[g] \in {cachedBlocks[g]} \cup touchedBlocks'
  <2>1. CASE UNCHANGED allocatorVars /\ i * blockSize # n
    <3>1. blockId[o] \in active
      BY <1>1, <1>5, <1>10 DEF AllocatorFacts, HeldBlocks
    <3>2. blockId' = [blockId EXCEPT ![o] = blockId[o]]
      BY <2>1, <1>5 DEF allocatorVars, AllocatorFacts, AllocatorTypes
    <3> QED BY <1>1, <1>10, <2>1, <3>1, <3>2 DEF allocatorVars
  <2>2. CASE /\ Allocator!PromoteNew(o, tokens[s]) \/ Allocator!PromoteOntoCached(o, tokens[s])
             /\ i * blockSize = n /\ tokens[s] \in Hashes
    <3> HIDE DEF i, n
    <3> QED BY <1>1, <1>5, <2>2, PromoteEffect
  <2> QED BY <1>2, <2>1, <2>2
<1>13. /\ blockId'[o] = b
       /\ \A p \in acquired : p # o => blockId'[p] = blockId[p] /\ prefixHash'[p] = prefixHash[p]
       /\ i * blockSize = n => prefixHash'[o] = tokens[s]
       /\ i * blockSize # n => prefixHash'[o] = INVALID_HASH_VALUE
  BY <1>1, <1>5, <1>10, <1>11, <1>12 DEF AllocatorFacts, AllocatorTypes
<1>14. TablesTrue'
  BY <1>2, <1>8 DEF SInv, TablesTrue
<1>15. HashesTrue'
  <2> SUFFICES ASSUME NEW t \in Seqs, NEW j \in 1..NumBlocks, <<t, j>> \in acquired
               PROVE  /\ blockId'[<<t, j>>] \in BlockIds
                      /\ j * blockSize <= Known(t)' => prefixHash'[<<t, j>>] = SubSeq(tokens[t], 1, j * blockSize)
                      /\ j * blockSize > Known(t)' => prefixHash'[<<t, j>>] = INVALID_HASH_VALUE
    BY <1>2 DEF HashesTrue
  <2>1. /\ blockId[<<t, j>>] \in BlockIds
        /\ j * blockSize <= Known(t) => prefixHash[<<t, j>>] = SubSeq(tokens[t], 1, j * blockSize)
        /\ j * blockSize > Known(t) => prefixHash[<<t, j>>] = INVALID_HASH_VALUE
    BY DEF SInv, HashesTrue
  <2>2. Known(s) = Len(table[s]) /\ Known(s)' = n
    BY <1>1, <1>7, <1>8, NonEmpty DEF Known, Admitted
  <2>3. CASE t # s
    <3>1. Known(t)' = Known(t) /\ <<t, j>> # o
      BY <1>2, <1>8, <2>3 DEF Known, Admitted, o
    <3> QED BY <1>13, <2>1, <3>1
  <2>4. CASE t = s /\ j # i
    <3>1. <<t, j>> # o /\ (j * blockSize <= n <=> j * blockSize <= Len(table[s]))
      BY <1>9, <2>4 DEF o
    <3>2. j \in Int
      BY BlockFits
    <3>3. j * blockSize \in Int
      BY <3>2, Multiples
    <3>4. j * blockSize > n <=> j * blockSize > Len(table[s])
      BY <1>7, <3>1, <3>3
    <3> QED BY <1>13, <2>1, <2>2, <2>4, <3>1, <3>4
  <2>5. CASE t = s /\ j = i
    <3>1. <<t, j>> = o
      BY <2>5 DEF o
    <3>2. SubSeq(tokens[s], 1, n) = tokens[s]
      BY <1>7, SubSeqFull
    <3>3. n <= i * blockSize
      BY <1>1, <1>7, <1>9
    <3>4. j * blockSize <= n <=> i * blockSize = n
      BY <1>7, <1>9, <2>5, <3>3
    <3>5. j * blockSize > n <=> i * blockSize # n
      BY <1>7, <1>9, <2>5, <3>3
    <3> QED BY <1>13, <2>2, <2>5, <3>1, <3>2, <3>4, <3>5
  <2> QED BY <2>3, <2>4, <2>5
<1>16. Rounds'
  <2>1. written[s] = Len(table[s]) /\ written'[s] = Len(table'[s]) - 1 /\ written'[s] > 0
    <3>1. written[s] = Len(table[s])
      BY <1>1 DEF SInv, Rounds
    <3> QED BY <1>1, <1>2, <1>7, <1>8, <3>1
  <2>2. job'.call = "none" /\ batch' \subseteq decoding' /\ batch' = batch \cup {s}
    BY <1>1, <1>2, <1>4, NoJobIsNoCall
  <2>3. \A t \in Seqs : t # s => /\ t \in batch' <=> t \in batch
                                 /\ Admitted(t)' <=> Admitted(t)
                                 /\ table'[t] = table[t] /\ written'[t] = written[t]
    BY <1>2, <1>8 DEF Admitted
  <2>4. \A t \in Seqs : Admitted(t)' => t \in decoding' \cup batch'
    BY <1>1, <1>2, <1>3, <2>3 DEF SInv, Rounds
  <2> QED BY <1>1, <1>2, <2>1, <2>2, <2>3, <2>4 DEF SInv, Rounds
<1>17. Touched'
  <2>1. ASSUME NEW c \in touchedBlocks
        PROVE  /\ c \in active' /\ c \notin computed'
               /\ \E t \in Seqs, j \in 1..NumBlocks :
                    /\ <<t, j>> \in acquired' /\ blockId'[<<t, j>>] = c
                    /\ prefixHash'[<<t, j>>] # INVALID_HASH_VALUE
                    /\ t \in batch' \/ In("Allocate", t)'
    <3>1. PICK t \in Seqs, j \in 1..NumBlocks :
            /\ <<t, j>> \in acquired /\ blockId[<<t, j>>] = c
            /\ prefixHash[<<t, j>>] # INVALID_HASH_VALUE /\ t \in batch
      BY <1>3 DEF SInv, Touched
    <3>2. c \in active /\ c \notin computed /\ c \in BlockIds
      BY <1>11 DEF SInv, Touched
    <3>3. <<t, j>> # o /\ <<t, j>> \in Objs
      BY <1>1, <1>11, <3>1 DEF o
    <3>4. c # blockId[o]
      BY <1>1, <1>5, <1>10, <3>1, <3>2, <3>3 DEF AllocatorFacts, SharedBlocks
    <3>5. c \in active' /\ c \notin computed'
      BY <1>12, <3>1, <3>2, <3>3, <3>4
    <3> QED BY <1>2, <1>13, <3>1, <3>3, <3>5
  <2>2. ASSUME b \in touchedBlocks', b \notin touchedBlocks
        PROVE  /\ b \in active' /\ b \notin computed'
               /\ \E t \in Seqs, j \in 1..NumBlocks :
                    /\ <<t, j>> \in acquired' /\ blockId'[<<t, j>>] = b
                    /\ prefixHash'[<<t, j>>] # INVALID_HASH_VALUE
                    /\ t \in batch' \/ In("Allocate", t)'
    <3>1. b = blockId[o] /\ computed' = computed /\ i * blockSize = n /\ tokens[s] \in Hashes
      BY <1>12, <2>2
    <3>2. b \notin computed
      BY <1>6, <1>10, <3>1 DEF SInv, Touched
    <3>3. /\ <<s, i>> \in acquired' /\ blockId'[<<s, i>>] = b
          /\ prefixHash'[<<s, i>>] # INVALID_HASH_VALUE /\ s \in batch'
      BY <1>2, <1>6, <1>13, <3>1, KvAssumption DEF o
    <3> QED BY <1>1, <1>12, <3>1, <3>2, <3>3
  <2>3. ASSUME NEW p \in acquired', prefixHash'[p] = INVALID_HASH_VALUE
        PROVE  blockId'[p] \notin computed'
    <3>1. p \in acquired /\ p \in Objs
      BY <1>2, <1>11
    <3>2. CASE p # o
      <4>1. blockId'[p] = blockId[p] /\ blockId[p] \notin computed
        BY <1>13, <2>3, <3>1, <3>2 DEF SInv, Touched
      <4> QED BY <1>11, <1>12, <3>1, <4>1
    <3>3. CASE p = o
      <4>1. i * blockSize # n
        <5> SUFFICES ASSUME i * blockSize = n PROVE FALSE
          OBVIOUS
        <5>1. prefixHash'[o] = tokens[s] /\ tokens[s] \in Hashes
          BY <1>12, <1>13
        <5> QED BY <2>3, <3>3, <5>1, KvAssumption
      <4>2. computed' = computed /\ b = blockId[o]
        BY <1>12, <4>1
      <4>3. blockId[o] \notin computed
        BY <1>6, <1>10 DEF SInv, Touched
      <4> QED BY <1>13, <3>3, <4>2, <4>3
    <3> QED BY <3>2, <3>3
  <2>4. \A c \in touchedBlocks' : c \in touchedBlocks \/ c = b
    BY <1>12
  <2> QED BY <2>1, <2>2, <2>3, <2>4 DEF Touched
<1>18. CachedRight'
  <2>1. /\ touchedBlocks \subseteq touchedBlocks'
        /\ \A h \in Hashes : cachedBlocks'[h] \in {INVALID_BLOCKID, cachedBlocks[h]} \cup touchedBlocks'
    BY <1>12
  <2> QED BY <1>2, <1>5, <2>1, CachedStaysRight DEF SInv
<1>19. WrittenRight'
  <2>1. CASE b = blockId[o]
    <3>1. \A p \in acquired : blockId'[p] = blockId[p]
      BY <1>13, <2>1
    <3>2. UNCHANGED <<written, tokens>> /\ KvKept
      BY <1>2
    <3> QED BY <3>1, <3>2, WrittenStaysRight
  <2>2. CASE b = cachedBlocks[tokens[s]] /\ cachedBlocks' = cachedBlocks /\ i * blockSize = n /\ tokens[s] \in Hashes
    <3> SUFFICES ASSUME NEW t \in Seqs, NEW pos \in 1..written[t]
                 PROVE  kv'[blockId'[<<t, BlockOf(pos)>>]][SlotOf(pos)] = SubSeq(tokens[t], 1, pos)
      BY <1>2 DEF WrittenRight
    <3> DEFINE p == <<t, BlockOf(pos)>>
    <3>1. p \in acquired /\ p \in Objs /\ blockId[p] \in BlockIds
      BY WrittenOwned
    <3>2. kv[blockId[p]][SlotOf(pos)] = SubSeq(tokens[t], 1, pos)
      BY DEF SInv, WrittenRight
    <3>3. CASE p # o
      <4>1. blockId'[p] = blockId[p]
        BY <1>13, <3>1, <3>3
      <4>2. kv'[blockId[p]] = kv[blockId[p]]
        BY <1>2, <1>5, <3>1, <4>1, KeptEntries
      <4> QED BY <3>2, <4>1, <4>2
    <3>4. CASE p = o
      <4>1. t = s /\ BlockOf(pos) = i
        BY <3>4 DEF o
      <4>2. cachedBlocks[tokens[s]] # INVALID_BLOCKID
        BY <2>2, KvAssumption
      <4>3. kv[cachedBlocks[tokens[s]]][SlotOf(pos)] = SubSeq(tokens[s], 1, pos)
        BY <1>3, <1>4, <2>2, <4>1, <4>2, PromotedFindsEntries
      <4>4. kv'[cachedBlocks[tokens[s]]] = kv[cachedBlocks[tokens[s]]]
        BY <1>2, <1>5, <2>2, <4>2, KeptEntries
      <4> QED BY <1>13, <2>2, <3>4, <4>1, <4>3, <4>4
    <3> QED BY <3>3, <3>4
  <2> QED BY <1>12, <2>1, <2>2
<1> QED BY <1>14, <1>15, <1>16, <1>17, <1>18, <1>19 DEF SInv

-----------------------------------------------------------------------------
(* Running the batch: everything it writes, and everything it leaves, is   *)
(* right.                                                                  *)

(* Sequences that share a block share the tokens up to its end. *)
LEMMA SameBlockSameEntry ==
  ASSUME KInv, SInv, NEW s \in Seqs, NEW t \in Seqs,
         NEW p \in Nat \ {0}, NEW q \in Nat \ {0},
         BlockOf(p) \in 1..NumBlocks, BlockOf(q) \in 1..NumBlocks,
         <<s, BlockOf(p)>> \in acquired, <<t, BlockOf(q)>> \in acquired,
         blockId[<<s, BlockOf(p)>>] = blockId[<<t, BlockOf(q)>>],
         SlotOf(p) = SlotOf(q)
  PROVE  SubSeq(tokens[s], 1, p) = SubSeq(tokens[t], 1, q)
<1> DEFINE i == BlockOf(p)
           j == BlockOf(q)
           h == prefixHash[<<s, i>>]
<1>1. AllocatorFacts
  BY AllocatorTells DEF KInv
<1>2. /\ i \in Int /\ i * blockSize \in Int /\ p <= i * blockSize
      /\ SlotOf(p) = p - (i * blockSize - blockSize)
  BY BlockBounds
<1>3. /\ j \in Int /\ j * blockSize \in Int /\ q <= j * blockSize
      /\ SlotOf(q) = q - (j * blockSize - blockSize)
  BY BlockBounds
<1>4. i = j => p = q
  <2> SUFFICES ASSUME i = j PROVE p = q
    OBVIOUS
  <2>1. p - (i * blockSize - blockSize) = q - (i * blockSize - blockSize)
    BY <1>2, <1>3
  <2> HIDE DEF i, j
  <2> QED BY <1>2, <2>1, Sizes
<1>5. CASE <<s, i>> = <<t, j>>
  BY <1>4, <1>5
<1>6. CASE <<s, i>> # <<t, j>>
  <2>1. <<s, i>> \in Objs /\ <<t, j>> \in Objs /\ blockId[<<s, i>>] \in BlockIds
    BY ObjTyped DEF SInv, HashesTrue
  <2>2. prefixHash[<<t, j>>] = h /\ h # INVALID_HASH_VALUE
    <3> HIDE DEF i, j
    <3>1. blockId[<<s, i>>] = blockId[<<t, j>>]
      BY DEF i, j
    <3> QED BY <1>1, <1>6, <2>1, <3>1 DEF AllocatorFacts, SharedBlocks
  <2>3. /\ Len(h) = i * blockSize
        /\ \A pos \in 1..(i * blockSize) : SubSeq(tokens[s], 1, pos) = SubSeq(h, 1, pos)
    BY <2>2, HashTells
  <2>4. /\ Len(h) = j * blockSize
        /\ \A pos \in 1..(j * blockSize) : SubSeq(tokens[t], 1, pos) = SubSeq(h, 1, pos)
    <3>1. prefixHash[<<t, j>>] # INVALID_HASH_VALUE
      BY <2>2
    <3>2. /\ Len(prefixHash[<<t, j>>]) = j * blockSize
          /\ \A pos \in 1..(j * blockSize) : SubSeq(tokens[t], 1, pos) = SubSeq(prefixHash[<<t, j>>], 1, pos)
      BY <3>1, HashTells
    <3> QED BY <2>2, <3>2
  <2> HIDE DEF i, j, h
  <2>5. i = j
    <3>1. i < j => i * blockSize < j * blockSize
      BY <1>2, <1>3, Multiples
    <3>2. j < i => j * blockSize < i * blockSize
      BY <1>2, <1>3, Multiples
    <3> QED BY <1>2, <1>3, <2>3, <2>4, <3>1, <3>2
  <2>6. p = q /\ p \in 1..(i * blockSize)
    BY <1>2, <1>4, <2>5
  <2> QED BY <2>3, <2>4, <2>5, <2>6
<1> QED BY <1>5, <1>6

(* Between calls a table owns the blocks of all its tokens. *)
LEMMA TableOwned ==
  ASSUME KInv, SInv, Idle, NEW s \in Seqs, Admitted(s), NEW pos \in 1..Len(table[s])
  PROVE  /\ pos \in Nat \ {0} /\ pos <= Len(tokens[s]) /\ pos \in 1..maxSeqLen
         /\ BlockOf(pos) \in 1..NumBlocks /\ SlotOf(pos) \in 1..blockSize
         /\ <<s, BlockOf(pos)>> \in acquired
         /\ blockId[<<s, BlockOf(pos)>>] \in BlockIds
<1>1. /\ Len(table[s]) \in 1..maxSeqLen /\ BlockOf(Len(table[s])) \in 1..NumBlocks
      /\ Len(table[s]) <= Len(tokens[s]) /\ Len(tokens[s]) \in Nat
  BY BlocksFit DEF KInv, Base, Lengths
<1>2. pos \in Nat \ {0} /\ pos <= Len(tokens[s]) /\ pos \in 1..maxSeqLen /\ pos <= Len(table[s])
  BY <1>1, Sizes
<1>3. BlockOf(pos) \in 1..NumBlocks /\ SlotOf(pos) \in 1..blockSize
  BY <1>2, BlockFits, BlockBounds
<1>4. BlockOf(pos) <= BlockOf(Len(table[s]))
  BY <1>1, <1>2, BlockMonotone
<1>5. Owns(s) = 1..BlockOf(Len(table[s]))
  BY NoJobIsNoCall DEF Owns, In, Idle
<1>6. <<s, BlockOf(pos)>> \in acquired
  BY <1>1, <1>3, <1>4, <1>5, BlockFits DEF KInv, Base, Owned
<1> QED BY <1>2, <1>3, <1>6 DEF SInv, HashesTrue

(* A batch writes into a sequence's block only what belongs there. *)
LEMMA ExecuteWrites ==
  ASSUME Sync, KInv, SInv, ExecuteBatch, NEW s \in Seqs, Admitted(s), NEW pos \in 1..Len(table[s])
  PROVE  LET b == blockId[<<s, BlockOf(pos)>>] IN
         /\ kv'[b][SlotOf(pos)] \in {kv[b][SlotOf(pos)], SubSeq(tokens[s], 1, pos)}
         /\ s \in batch /\ pos \in FirstComputed(s)..LastComputed(s) =>
              kv'[b][SlotOf(pos)] = SubSeq(tokens[s], 1, pos)
<1> DEFINE b == blockId[<<s, BlockOf(pos)>>]
           k == SlotOf(pos)
           W == Writes(b, k)
<1>1. Idle
  BY DEF ExecuteBatch
<1>2. /\ pos \in Nat \ {0} /\ pos \in 1..maxSeqLen /\ BlockOf(pos) \in 1..NumBlocks /\ k \in 1..blockSize
      /\ <<s, BlockOf(pos)>> \in acquired /\ b \in BlockIds
  BY <1>1, TableOwned
<1>3. ASSUME NEW w \in W PROVE w = SubSeq(tokens[s], 1, pos)
  <2>1. PICK t \in batch, q \in 1..maxSeqLen :
          /\ w = SubSeq(tokens[t], 1, q)
          /\ q \in FirstComputed(t)..LastComputed(t)
          /\ blockId[<<t, BlockOf(q)>>] = b /\ SlotOf(q) = k
    BY DEF Writes
  <2>2. t \in Seqs /\ Admitted(t) /\ q \in 1..Len(table[t])
    <3>1. t \in Seqs /\ Admitted(t) /\ LastComputed(t) \in 1..Len(table[t]) /\ FirstComputed(t) \in Nat
      BY BatchComputes DEF KInv
    <3>2. Len(table[t]) \in Nat
      BY <3>1, BlocksFit DEF KInv
    <3> QED BY <2>1, <3>1, <3>2, Sizes
  <2>3. q \in Nat \ {0} /\ BlockOf(q) \in 1..NumBlocks /\ <<t, BlockOf(q)>> \in acquired
    BY <1>1, <2>2, TableOwned
  <2> QED BY <1>2, <2>1, <2>2, <2>3, SameBlockSameEntry
<1>4. kv'[b][k] = IF W = {} THEN kv[b][k] ELSE CHOOSE w \in W : TRUE
  BY <1>2 DEF ExecuteBatch
<1>5. ASSUME s \in batch, pos \in FirstComputed(s)..LastComputed(s)
      PROVE  W # {}
  <2>1. <<s, pos>> \in batch \X (1..maxSeqLen)
    BY <1>2, <1>5
  <2> DEFINE x == <<s, pos>>
  <2>2. /\ x \in batch \X (1..maxSeqLen)
        /\ x[2] \in FirstComputed(x[1])..LastComputed(x[1])
        /\ blockId[<<x[1], BlockOf(x[2])>>] = b
        /\ SlotOf(x[2]) = k
        /\ SubSeq(tokens[x[1]], 1, x[2]) = SubSeq(tokens[s], 1, pos)
    BY <1>5, <2>1
  <2> HIDE DEF x, b, k
  <2>3. SubSeq(tokens[x[1]], 1, x[2]) \in W
    BY <2>2 DEF Writes
  <2> QED BY <2>3
<1>6. W # {} => (CHOOSE w \in W : TRUE) \in W
  OBVIOUS
<1> HIDE DEF W
<1> QED BY <1>3, <1>4, <1>5, <1>6

(* The cached prefix consists of blocks that are cached and computed. *)
LEMMA CachedPrefix ==
  ASSUME KInv, NEW s \in Seqs, Admitted(s), NEW pos \in Nat \ {0}, pos <= NumCachedTokens(s)
  PROVE  IsBlockCached(prefixHash[<<s, BlockOf(pos)>>])
<1> DEFINE m == Len(table[s]) \div blockSize
           D == {i \in 1..m : \A j \in 1..i : IsBlockCached(prefixHash[<<s, j>>])}
           q == BlockOf(pos)
<1> SUFFICES ASSUME ~IsBlockCached(prefixHash[<<s, q>>]) PROVE FALSE
  OBVIOUS
<1>1. q \in Nat \ {0} /\ q * blockSize \in Int /\ q * blockSize - blockSize < pos
  BY BlockBounds
<1>2. m \in Int
  <2>1. Len(table[s]) \in Nat
    BY BlocksFit DEF KInv
  <2> QED BY <2>1, Sizes
<1> HIDE DEF m, q
<1>3. D \subseteq 1..(q - 1)
  BY <1>1, <1>2
<1>4. IsFiniteSet(1..(q - 1)) /\ Cardinality(1..(q - 1)) = q - 1
  <2> DEFINE r == q - 1
  <2>1. r \in Nat
    BY <1>1
  <2> HIDE DEF r
  <2>2. IsFiniteSet(1..r) /\ Cardinality(1..r) = IF 1 > r THEN 0 ELSE r - 1 + 1
    BY <2>1, FS_Interval
  <2>3. Cardinality(1..r) = r
    BY <2>1, <2>2
  <2> QED BY <2>2, <2>3 DEF r
<1>5. IsFiniteSet(D) /\ Cardinality(D) <= q - 1 /\ Cardinality(D) \in Nat
  <2>1. IsFiniteSet(D) /\ Cardinality(D) <= Cardinality(1..(q - 1))
    BY <1>3, <1>4, FS_Subset
  <2> QED BY <1>4, <2>1, FS_CardinalityType
<1>6. NumCachedTokens(s) = blockSize * Cardinality(D)
  BY DEF NumCachedTokens, m
<1> DEFINE d == Cardinality(D)
<1> HIDE DEF D, d
<1>7. d \in Int /\ q \in Int /\ d < q /\ NumCachedTokens(s) = blockSize * d
  BY <1>1, <1>5, <1>6 DEF d
<1>8. d * blockSize + blockSize <= q * blockSize /\ d * blockSize \in Int
  BY <1>7, Multiples
<1>9. blockSize * d = d * blockSize
  BY <1>7, Sizes
<1> QED BY <1>1, <1>7, <1>8, <1>9, Sizes

(* What a lookup reports as computed was written in an earlier round. *)
LEMMA ReportedIsWritten ==
  ASSUME KInv, SInv, NEW h, IsBlockCached(h)
  PROVE  /\ h \in Hashes /\ cachedBlocks[h] # INVALID_BLOCKID
         /\ \A i \in 1..blockSize : kv[cachedBlocks[h]][i] = SubSeq(h, 1, Len(h) - blockSize + i)
<1>1. h \in Hashes /\ cachedBlocks[h] # INVALID_BLOCKID /\ IsBlockComputed(cachedBlocks[h])
  BY DEF IsBlockCached
<1>2. cachedBlocks[h] \notin touchedBlocks
  BY <1>1 DEF SInv, Touched, IsBlockComputed
<1> QED BY <1>1, <1>2 DEF SInv, CachedRight

(* After its round, all entries of a sequence of the batch are right. *)
LEMMA ExecuteRight ==
  ASSUME Sync, KInv, SInv, ExecuteBatch, NEW s \in batch, NEW pos \in 1..Len(table[s])
  PROVE  /\ LastComputed(s) = Len(table[s])
         /\ kv'[blockId[<<s, BlockOf(pos)>>]][SlotOf(pos)] = SubSeq(tokens[s], 1, pos)
<1> DEFINE o == <<s, BlockOf(pos)>>
           b == blockId[o]
           k == SlotOf(pos)
           cached == IF written[s] = 0 THEN NumCachedTokens(s) ELSE written[s]
<1>1. /\ s \in Seqs /\ Admitted(s)
      /\ FirstComputed(s) \in Nat /\ FirstComputed(s) > 0
  BY BatchComputes DEF KInv
<1>2. Idle
  BY DEF ExecuteBatch
<1>3. /\ pos \in Nat \ {0} /\ BlockOf(pos) \in 1..NumBlocks /\ k \in 1..blockSize
      /\ o \in acquired /\ b \in BlockIds
  BY <1>1, <1>2, TableOwned
<1>4. Len(table[s]) \in 1..maxSeqLen /\ written[s] \in Nat
  BY <1>1, BlocksFit, Sizes DEF KInv, Base, Types
<1>5. LastComputed(s) = Len(table[s])
  <2>1. ChunkSize >= maxSeqLen /\ ChunkSize \in Nat
    BY SyncFacts, KvAssumption
  <2>2. ~(FirstComputed(s) + ChunkSize - 1 < Len(table[s]))
    BY <1>1, <1>4, <2>1, Sizes
  <2> QED BY <2>2 DEF LastComputed
<1>6. /\ kv'[b][k] \in {kv[b][k], SubSeq(tokens[s], 1, pos)}
      /\ pos \in FirstComputed(s)..LastComputed(s) => kv'[b][k] = SubSeq(tokens[s], 1, pos)
  BY <1>1, ExecuteWrites
<1>7. CASE pos >= FirstComputed(s)
  <2>1. pos \in FirstComputed(s)..LastComputed(s)
    BY <1>1, <1>3, <1>4, <1>5, <1>7
  <2> QED BY <1>5, <1>6, <2>1
<1>8. CASE pos < FirstComputed(s)
  <2>1. NumCachedTokens(s) \in Nat
    BY <1>1, <1>4, ComputedRange DEF KInv, Base
  <2>2. FirstComputed(s) = IF cached = Len(table[s]) THEN cached ELSE cached + 1
    BY DEF FirstComputed
  <2>3. pos <= cached /\ cached \in Nat
    BY <1>3, <1>4, <1>8, <2>1, <2>2
  <2>4. CASE written[s] # 0
    <3>1. pos \in 1..written[s]
      BY <1>3, <1>4, <2>3, <2>4
    <3>2. kv[b][k] = SubSeq(tokens[s], 1, pos)
      BY <1>1, <3>1 DEF SInv, WrittenRight
    <3> QED BY <1>5, <1>6, <3>2
  <2>5. CASE written[s] = 0
    <3> DEFINE h == prefixHash[o]
    <3>1. IsBlockCached(h)
      BY <1>1, <1>3, <2>3, <2>5, CachedPrefix
    <3>2. /\ h \in Hashes /\ cachedBlocks[h] # INVALID_BLOCKID
          /\ kv[cachedBlocks[h]][k] = SubSeq(h, 1, Len(h) - blockSize + k)
      BY <1>3, <3>1, ReportedIsWritten
    <3>3. h # INVALID_HASH_VALUE
      BY <3>2, KvAssumption
    <3>4. cachedBlocks[h] = b
      <4>1. o \in Objs
        BY <1>1, <1>3, ObjTyped
      <4> QED BY <1>3, <3>3, <4>1, AllocatorTells DEF KInv, AllocatorFacts, CachedBlocks
    <3>5. /\ Len(h) = BlockOf(pos) * blockSize
          /\ \A p \in 1..(BlockOf(pos) * blockSize) : SubSeq(tokens[s], 1, p) = SubSeq(h, 1, p)
      BY <1>1, <1>3, <3>3, HashTells
    <3>6. /\ BlockOf(pos) * blockSize \in Int /\ pos <= BlockOf(pos) * blockSize
          /\ k = pos - (BlockOf(pos) * blockSize - blockSize)
      BY <1>3, BlockBounds
    <3>7. Len(h) - blockSize + k = pos /\ pos \in 1..(BlockOf(pos) * blockSize)
      BY <1>3, <3>5, <3>6, Sizes
    <3>8. kv[b][k] = SubSeq(tokens[s], 1, pos)
      BY <3>2, <3>4, <3>5, <3>7
    <3> QED BY <1>5, <1>6, <3>8
  <2> QED BY <2>4, <2>5
<1>9. pos >= FirstComputed(s) \/ pos < FirstComputed(s)
  BY <1>1, <1>3
<1> QED BY <1>7, <1>8, <1>9

(* A cached block keeps or obtains the entries of the tokens of its hash. *)
LEMMA ExecuteCachedRight ==
  ASSUME Sync, KInv, SInv, ExecuteBatch, NEW h \in Hashes, cachedBlocks[h] # INVALID_BLOCKID,
         NEW k \in 1..blockSize
  PROVE  kv'[cachedBlocks[h]][k] = SubSeq(h, 1, Len(h) - blockSize + k)
<1> DEFINE c == cachedBlocks[h]
<1>1. Idle
  BY DEF ExecuteBatch
<1>2. c \in BlockIds /\ \A o \in Objs : blockId[o] = c => prefixHash[o] = h
  BY AllocatorTells DEF KInv, AllocatorFacts, CachedBlocks
<1>3. h # INVALID_HASH_VALUE /\ k \in Nat /\ 1 <= k /\ k <= blockSize
  BY KvAssumption, Sizes
<1>4. ASSUME NEW t \in Seqs, NEW j \in 1..NumBlocks, <<t, j>> \in acquired, blockId[<<t, j>>] = c
      PROVE  /\ j * blockSize \in Nat /\ j * blockSize <= Known(t) /\ Len(h) = j * blockSize
             /\ \A pos \in 1..(j * blockSize) : SubSeq(tokens[t], 1, pos) = SubSeq(h, 1, pos)
  <2>1. prefixHash[<<t, j>>] = h
    BY <1>2, <1>4, ObjTyped
  <2> QED BY <1>3, <1>4, <2>1, HashTells
<1> HIDE DEF c
<1>5. CASE c \in touchedBlocks
  <2>1. \A t \in Seqs : ~In("Allocate", t)
    BY <1>1, NoJobIsNoCall DEF Idle, In
  <2>2. PICK t \in Seqs, j \in 1..NumBlocks :
          <<t, j>> \in acquired /\ blockId[<<t, j>>] = c /\ t \in batch
    BY <1>5, <2>1 DEF SInv, Touched
  <2> DEFINE n == j * blockSize
             pos == n - blockSize + k
  <2>3. /\ n \in Nat /\ n <= Known(t) /\ Len(h) = n
        /\ \A p \in 1..n : SubSeq(tokens[t], 1, p) = SubSeq(h, 1, p)
    BY <1>4, <2>2
  <2>4. Known(t) = Len(table[t]) /\ Len(table[t]) \in Nat
    BY <2>2, BlocksFit DEF KInv, Base, Batches, Known
  <2>5. j \in Int /\ 0 < j /\ 0 * blockSize = 0
    BY BlockFits, Sizes
  <2>6. 0 * blockSize + blockSize <= n
    BY <2>5, Multiples
  <2>7. n >= blockSize
    <3> HIDE DEF n
    <3> QED BY <2>3, <2>5, <2>6, Sizes
  <2>8. pos \in 1..n /\ pos \in 1..Len(table[t]) /\ pos \in Nat \ {0} /\ n - blockSize < pos /\ pos <= n
    <3> HIDE DEF n
    <3> QED BY <1>3, <2>3, <2>4, <2>7, Sizes
  <2>9. BlockOf(pos) = j
    <3> HIDE DEF pos
    <3> QED BY <2>5, <2>8, BlockUnique
  <2>10. SlotOf(pos) = k
    <3>1. SlotOf(pos) = pos - (n - blockSize)
      <4> HIDE DEF pos
      <4> QED BY <2>8, <2>9, BlockBounds
    <3> HIDE DEF n
    <3> QED BY <1>3, <2>3, <3>1, Sizes
  <2> HIDE DEF n, pos
  <2>11. kv'[c][k] = SubSeq(tokens[t], 1, pos)
    BY <2>2, <2>8, <2>9, <2>10, ExecuteRight
  <2>12. Len(h) - blockSize + k = pos
    BY <2>3 DEF pos
  <2> QED BY <2>3, <2>8, <2>11, <2>12 DEF c
<1>6. CASE c \notin touchedBlocks
  <2>1. kv[c][k] = SubSeq(h, 1, Len(h) - blockSize + k)
    BY <1>6 DEF SInv, CachedRight, c
  <2>2. ASSUME NEW w \in Writes(c, k) PROVE w = SubSeq(h, 1, Len(h) - blockSize + k)
    <3>1. PICK t \in batch, q \in 1..maxSeqLen :
            /\ w = SubSeq(tokens[t], 1, q)
            /\ q \in FirstComputed(t)..LastComputed(t)
            /\ blockId[<<t, BlockOf(q)>>] = c /\ SlotOf(q) = k
      BY DEF Writes
    <3>2. t \in Seqs /\ Admitted(t) /\ q \in 1..Len(table[t])
      <4>1. t \in Seqs /\ Admitted(t) /\ LastComputed(t) \in 1..Len(table[t]) /\ FirstComputed(t) \in Nat
        BY BatchComputes DEF KInv
      <4>2. Len(table[t]) \in Nat
        BY <4>1, BlocksFit DEF KInv
      <4> QED BY <3>1, <4>1, <4>2, Sizes
    <3>3. q \in Nat \ {0} /\ BlockOf(q) \in 1..NumBlocks /\ <<t, BlockOf(q)>> \in acquired
      BY <1>1, <3>2, TableOwned
    <3> DEFINE j == BlockOf(q)
    <3>4. /\ Len(h) = j * blockSize
          /\ \A pos \in 1..(j * blockSize) : SubSeq(tokens[t], 1, pos) = SubSeq(h, 1, pos)
      BY <1>4, <3>1, <3>2, <3>3
    <3>5. j * blockSize \in Int /\ q <= j * blockSize /\ k = q - (j * blockSize - blockSize)
      BY <3>1, <3>3, BlockBounds
    <3> HIDE DEF j
    <3>6. Len(h) - blockSize + k = q /\ q \in 1..(j * blockSize)
      BY <1>3, <3>3, <3>4, <3>5, Sizes
    <3> QED BY <3>1, <3>4, <3>6
  <2>3. kv'[c][k] = IF Writes(c, k) = {} THEN kv[c][k] ELSE CHOOSE w \in Writes(c, k) : TRUE
    BY <1>2 DEF ExecuteBatch, c
  <2>4. Writes(c, k) # {} => (CHOOSE w \in Writes(c, k) : TRUE) \in Writes(c, k)
    OBVIOUS
  <2> QED BY <2>1, <2>2, <2>3, <2>4 DEF c
<1> QED BY <1>5, <1>6

LEMMA ExecuteBatchKeepsSInv ==
  ASSUME Sync, KInv, SInv, ExecuteBatch
  PROVE  SInv'
<1>1. /\ Idle /\ job.call = "none" /\ job' = job /\ table' = table /\ batch' = {}
      /\ UNCHANGED <<acquired, blockId, prefixHash, cachedBlocks, active>>
      /\ touchedBlocks' = {} /\ computed' = computed \cup touchedBlocks
  BY NoJobIsNoCall
  DEF ExecuteBatch, Idle, MarkComputed, Allocator!MarkBlocksAsComputed, allocatorVars
<1>2. \A s \in batch : /\ s \in Seqs /\ Admitted(s) /\ Len(tokens[s]) = Len(table[s])
                       /\ LastComputed(s) = Len(table[s])
  <2> SUFFICES ASSUME NEW s \in batch
               PROVE  /\ s \in Seqs /\ Admitted(s) /\ Len(tokens[s]) = Len(table[s])
                      /\ LastComputed(s) = Len(table[s])
    OBVIOUS
  <2>1. s \in Seqs /\ Admitted(s) /\ Len(tokens[s]) = Len(table[s])
    BY BatchComputes DEF KInv
  <2>2. Len(table[s]) \in 1..Len(table[s])
    BY <2>1, BlocksFit DEF KInv
  <2> QED BY <2>1, <2>2, ExecuteRight
<1>3. /\ \A s \in batch : written'[s] = Len(table[s])
      /\ \A s \in Seqs \ batch : written'[s] = written[s]
      /\ decoding' = decoding \cup batch
  BY <1>2 DEF ExecuteBatch
<1>4. ASSUME NEW s \in Seqs
      PROVE  /\ tokens[s] \in Seq(TokenIds) /\ tokens'[s] \in Seq(TokenIds)
             /\ Len(tokens[s]) \in Nat /\ Len(tokens[s]) <= Len(tokens'[s])
             /\ \A p \in 1..Len(tokens[s]) : tokens'[s][p] = tokens[s][p]
             /\ ~Admitted(s) => tokens'[s] = tokens[s]
  <2>1. tokens[s] \in Seq(TokenIds) /\ tokens'[s] \in Seq(TokenIds) /\ Len(tokens[s]) \in Nat
    BY ExecuteBatchTokens, BlocksFit DEF KInv, Base, Types
  <2>2. CASE s \in batch
    <3>1. /\ Len(tokens'[s]) \in {Len(tokens[s]), Len(tokens[s]) + 1}
          /\ \A p \in 1..Len(tokens[s]) : tokens'[s][p] = tokens[s][p]
      BY <2>2, ExecuteBatchTokens DEF KInv
    <3> QED BY <1>2, <2>1, <2>2, <3>1
  <2>3. CASE s \notin batch
    <3>1. tokens'[s] = tokens[s]
      BY <2>3, ExecuteBatchTokens DEF KInv
    <3> QED BY <2>1, <3>1
  <2> QED BY <2>2, <2>3
<1>5. ASSUME NEW s \in Seqs, NEW n \in 0..Len(tokens[s])
      PROVE  SubSeq(tokens'[s], 1, n) = SubSeq(tokens[s], 1, n)
  <2>1. /\ tokens[s] \in Seq(TokenIds) /\ tokens'[s] \in Seq(TokenIds)
        /\ n <= Len(tokens'[s]) /\ \A p \in 1..n : tokens[s][p] = tokens'[s][p]
    BY <1>4
  <2> QED BY <2>1, PrefixEqual
<1>6. \A s \in Seqs : Len(table[s]) \in Nat /\ Len(table[s]) <= Len(tokens[s])
  BY BlocksFit DEF KInv, Base, Lengths
<1>7. TablesTrue'
  <2> SUFFICES ASSUME NEW s \in Seqs, NEW p \in 1..Len(table[s])
               PROVE  table[s][p] = tokens'[s][p]
    BY <1>1 DEF TablesTrue
  <2>1. p \in 1..Len(tokens[s])
    BY <1>4, <1>6
  <2> QED BY <1>4, <2>1 DEF SInv, TablesTrue
<1>8. HashesTrue'
  <2> SUFFICES ASSUME NEW s \in Seqs, NEW i \in 1..NumBlocks, <<s, i>> \in acquired
               PROVE  /\ blockId[<<s, i>>] \in BlockIds
                      /\ i * blockSize <= Known(s)' => prefixHash[<<s, i>>] = SubSeq(tokens'[s], 1, i * blockSize)
                      /\ i * blockSize > Known(s)' => prefixHash[<<s, i>>] = INVALID_HASH_VALUE
    BY <1>1 DEF HashesTrue
  <2>1. Known(s)' = Known(s)
    BY <1>1, <1>4 DEF Known, Admitted
  <2>2. ASSUME i * blockSize <= Known(s)
        PROVE  SubSeq(tokens'[s], 1, i * blockSize) = SubSeq(tokens[s], 1, i * blockSize)
    <3> DEFINE n == i * blockSize
    <3>1. i \in Nat
      BY BlockFits
    <3>2. n \in Nat
      BY <3>1, Sizes
    <3>3. Known(s) <= Len(tokens[s]) /\ Known(s) \in Nat
      BY <1>4, <1>6 DEF Known
    <3>4. n <= Known(s)
      BY <2>2
    <3> HIDE DEF n
    <3>5. n \in 0..Len(tokens[s])
      BY <1>4, <3>2, <3>3, <3>4
    <3>6. SubSeq(tokens'[s], 1, n) = SubSeq(tokens[s], 1, n)
      BY <1>5, <3>5
    <3> QED BY <3>6 DEF n
  <2> QED BY <2>1, <2>2 DEF SInv, HashesTrue
<1>9. Rounds'
  <2>1. \A s \in Seqs : ~In("Free", s)
    BY <1>1 DEF In
  <2>2. \A s \in Seqs : s \notin decoding' => written'[s] = 0
    BY <1>3 DEF SInv, Rounds
  <2>3. \A s \in Seqs : s \in decoding' => written'[s] = Len(table'[s])
    BY <1>1, <1>3 DEF SInv, Rounds
  <2>4. \A s \in Seqs : Admitted(s)' => s \in decoding'
    BY <1>1, <1>3, <2>1 DEF SInv, Rounds, Admitted
  <2> QED BY <1>1, <2>2, <2>3, <2>4 DEF Rounds
<1>10. Touched'
  <2>1. ASSUME NEW o \in acquired, prefixHash[o] = INVALID_HASH_VALUE
        PROVE  blockId[o] \notin computed \cup touchedBlocks
    <3>1. blockId[o] \notin computed
      BY <2>1 DEF SInv, Touched
    <3>2. ASSUME blockId[o] \in touchedBlocks PROVE FALSE
      <4>1. PICK t \in Seqs, j \in 1..NumBlocks :
              blockId[<<t, j>>] = blockId[o] /\ prefixHash[<<t, j>>] # INVALID_HASH_VALUE
        BY <3>2 DEF SInv, Touched
      <4>2. AllocatorTypes /\ SharedBlocks
        BY AllocatorTells DEF KInv, AllocatorFacts
      <4>3. o \in Objs /\ blockId[o] \in BlockIds /\ <<t, j>> \in Objs
        BY <2>1, <3>2, <4>2, ObjTyped DEF AllocatorTypes
      <4> QED BY <2>1, <4>1, <4>2, <4>3 DEF SharedBlocks
    <3> QED BY <3>1, <3>2
  <2> QED BY <1>1, <2>1 DEF Touched
<1>11. WrittenRight'
  <2> SUFFICES ASSUME NEW s \in Seqs, NEW pos \in 1..written'[s]
               PROVE  kv'[blockId[<<s, BlockOf(pos)>>]][SlotOf(pos)] = SubSeq(tokens'[s], 1, pos)
    BY <1>1 DEF WrittenRight
  <2>1. CASE s \in batch
    <3>1. pos \in 1..Len(table[s])
      BY <1>3, <2>1
    <3>2. kv'[blockId[<<s, BlockOf(pos)>>]][SlotOf(pos)] = SubSeq(tokens[s], 1, pos)
      BY <2>1, <3>1, ExecuteRight
    <3>3. pos \in 0..Len(tokens[s])
      BY <1>4, <1>6, <3>1
    <3> QED BY <1>5, <3>2, <3>3
  <2>2. CASE s \notin batch
    <3>1. pos \in 1..written[s]
      BY <1>3, <2>2
    <3>2. s \in decoding /\ pos \in Nat \ {0} /\ pos <= Len(table[s]) /\ pos <= Len(tokens[s])
      BY <3>1, WrittenOwned
    <3>3. Admitted(s)
      BY <3>2 DEF KInv, Base, Batches
    <3>4. pos \in 1..Len(table[s]) /\ pos \in 0..Len(tokens[s])
      BY <1>4, <1>6, <3>2
    <3>5. kv[blockId[<<s, BlockOf(pos)>>]][SlotOf(pos)] = SubSeq(tokens[s], 1, pos)
      BY <3>1 DEF SInv, WrittenRight
    <3>6. kv'[blockId[<<s, BlockOf(pos)>>]][SlotOf(pos)] = SubSeq(tokens[s], 1, pos)
      BY <3>3, <3>4, <3>5, ExecuteWrites
    <3> QED BY <1>5, <3>4, <3>6
  <2> QED BY <2>1, <2>2
<1>12. CachedRight'
  BY <1>1, ExecuteCachedRight DEF CachedRight
<1> QED BY <1>7, <1>8, <1>9, <1>10, <1>11, <1>12 DEF SInv

LEMMA InitSInv == Init => SInv
<1> SUFFICES ASSUME Init PROVE SInv
  OBVIOUS
<1> USE DEF Init, Allocator!Init
<1>1. job.call = "none"
  BY NoJobIsNoCall
<1>2. TablesTrue /\ HashesTrue
  BY DEF TablesTrue, HashesTrue
<1>3. Rounds /\ Touched
  BY <1>1 DEF Rounds, Touched, Admitted, In
<1>4. WrittenRight /\ CachedRight
  BY DEF WrittenRight, CachedRight
<1> QED BY <1>2, <1>3, <1>4 DEF SInv

LEMMA NextKeepsSInv ==
  ASSUME Sync, KInv, SInv, [Next]_vars
  PROVE  SInv'
<1>1. KInv'
  BY NextKeepsKInv
<1>2. ASSUME AllocateNext PROVE SInv'
  <2>1. job \in Jobs /\ job.call = "Allocate"
    BY <1>2 DEF KInv, Base, Types, AllocateNext
  <2>2. PICK s \in Seqs, i \in 1..NumBlocks : job = [call |-> "Allocate", seq |-> s, next |-> i]
    BY <2>1, JobNamed
  <2> QED BY <1>1, <1>2, <2>2, AllocateNextKeepsSInv
<1>3. ASSUME FreeNext PROVE SInv'
  <2>1. job \in Jobs /\ job.call = "Free"
    BY <1>3 DEF KInv, Base, Types, FreeNext
  <2>2. PICK s \in Seqs, i \in 1..NumBlocks : job = [call |-> "Free", seq |-> s, next |-> i]
    BY <2>1, JobNamed
  <2> QED BY <1>1, <1>3, <2>2, FreeNextKeepsSInv
<1> QED
  BY <1>1, <1>2, <1>3, AdmitKeepsSInv, ContinuePrefillNever, EndKeepsSInv, StutterKeepsSInv,
     EnsureEnoughSlotsKeepsSInv, AppendSlotKeepsSInv, ExecuteBatchKeepsSInv DEF Next

(* With synchronous scheduling and without chunked prefill, the invariant  *)
(* of the KV entries holds in every reachable state.                       *)
THEOREM SyncInvariance ==
  ASSUME Sync
  PROVE  Spec => [](KInv /\ SInv)
<1>1. KInv /\ SInv /\ [Next]_vars => KInv' /\ SInv'
  BY NextKeepsKInv, NextKeepsSInv
<1>2. Init => KInv /\ SInv
  BY InitBase, InitSInv
<1> QED BY <1>1, <1>2, PTL DEF Spec

(* Prefix sharing, eviction, preemption and promotion never make a         *)
(* sequence attend to another prefix's KV entries, with synchronous        *)
(* scheduling and unchunked prefill.  (Asynchronous scheduling breaks it:  *)
(* see the run kv_async.)                                                  *)
THEOREM EntriesCoherent ==
  ASSUME ~AsyncSchedule, ~Chunked
  PROVE  Spec => []KvCoherent
<1>1. KInv /\ SInv => KvCoherent
  <2> SUFFICES ASSUME KInv, SInv, NEW s \in Seqs, NEW pos \in 1..written[s]
               PROVE  /\ blockId[<<s, BlockOf(pos)>>] \in BlockIds
                      /\ kv[blockId[<<s, BlockOf(pos)>>]][SlotOf(pos)] = SubSeq(tokens[s], 1, pos)
    BY DEF KvCoherent
  <2> QED BY WrittenOwned DEF SInv, WrittenRight
<1> QED BY <1>1, SyncInvariance, PTL DEF Sync

(* In the same modes, what GetCachedTokensNum counts as cached and         *)
(* computed has been written: a prefill never skips a block whose entries  *)
(* are still missing.                                                      *)
THEOREM CachedIsComputed ==
  ASSUME ~AsyncSchedule, ~Chunked
  PROVE  Spec => []ComputedIsWritten
<1>1. KInv /\ SInv => ComputedIsWritten
  BY ReportedIsWritten DEF ComputedIsWritten
<1> QED BY <1>1, SyncInvariance, PTL DEF Sync
=============================================================================
