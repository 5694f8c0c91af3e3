----------------------------- MODULE MCScheduler -----------------------------
(* Prompts that take one block or two, and one that is too long for a      *)
(* maxSeqLen of 5.                                                         *)
EXTENDS Scheduler

MCReqs == 1..3
MCTwoReqs == 1..2
MCPrompts == {1, 3}
MCPromptsAndTooLong == {1, 3, 5}
=============================================================================
