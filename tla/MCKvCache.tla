------------------------------ MODULE MCKvCache ------------------------------
(* Two sequences over two token values, with blocks of two tokens.         *)
EXTENDS KvCache, TLC

MCObjs == Seqs \X (1..NumBlocks)
MCHashes == UNION {[1..(i * blockSize) -> TableTokens] : i \in 1..NumBlocks}
Symmetry == Permutations(BlockIds) \cup Permutations(Seqs) \cup Permutations(TokenIds)
=============================================================================
