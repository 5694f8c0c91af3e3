---------------------------- MODULE MCLRUEvictor ----------------------------
(* Two blocks that are added and removed again and again at three access   *)
(* times, with a cleanup threshold that is reached while stale entries of  *)
(* both are in the queue.                                                  *)
EXTENDS LRUEvictor
=============================================================================
