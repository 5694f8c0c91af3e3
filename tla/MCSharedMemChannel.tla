------------------------- MODULE MCSharedMemChannel -------------------------
(* SharedMemChannel for TLC.                                               *)
EXTENDS SharedMemChannel
=============================================================================
