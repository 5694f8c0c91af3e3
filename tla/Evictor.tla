------------------------------- MODULE Evictor -------------------------------
(***************************************************************************)
(* What an evictor promises (evictor.h): it keeps a set of blocks with the *)
(* time each was last accessed, and Evict gives up one that was not        *)
(* accessed more than Slack later than any other.  With Slack = 0 this is  *)
(* least recently used.                                                    *)
(***************************************************************************)
EXTENDS Integers

CONSTANTS BlockIds, Times, Slack, INVALID_BLOCKID

VARIABLES
  accessed,   \* candidate -> time of last access
  evicted     \* what the last call, if it was Evict, returned

Init == accessed = [b \in {} |-> 0] /\ evicted = INVALID_BLOCKID

Without(b) == [c \in DOMAIN accessed \ {b} |-> accessed[c]]

Add(b, t) ==
  /\ b \notin DOMAIN accessed
  /\ accessed' = [c \in DOMAIN accessed \cup {b} |-> IF c = b THEN t ELSE accessed[c]]
  /\ evicted' = INVALID_BLOCKID

Remove(b) ==
  /\ b \in DOMAIN accessed
  /\ accessed' = Without(b)
  /\ evicted' = INVALID_BLOCKID

Evict(b) ==
  /\ b \in DOMAIN accessed
  /\ \A c \in DOMAIN accessed : accessed[b] <= accessed[c] + Slack
  /\ accessed' = Without(b)
  /\ evicted' = b

Next ==
  \E b \in BlockIds :
    \/ \E t \in Times : Add(b, t)
    \/ Remove(b)
    \/ Evict(b)

Spec == Init /\ [][Next]_<<accessed, evicted>>

=============================================================================
