---------------------------- MODULE MCPrefixCache ----------------------------
(* The prefix-caching allocator with more objects than blocks, so that     *)
(* blocks are shared, and fewer blocks than hashed prefixes and private    *)
(* blocks together, so that the evictor has to give blocks up.             *)
EXTENDS PrefixCacheBlockAllocator, TLC

(* Ids, objects and hashes are only tested for equality. *)
Symmetry == Permutations(BlockIds) \cup Permutations(Objs) \cup Permutations(Hashes)
=============================================================================
