----------------------------- MODULE MCHashLess -----------------------------
(* The hashless allocator with three blocks and four block objects. *)
EXTENDS HashLessBlockAllocator, TLC

(* Ids and objects are interchangeable: only equality is tested. *)
Symmetry == Permutations(BlockIds) \cup Permutations(Objs)
=============================================================================
