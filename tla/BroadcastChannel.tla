--------------------------- MODULE BroadcastChannel ---------------------------
(***************************************************************************)
(* What the executor and the model processes of a data-parallel group rely *)
(* on: requests reach every rank, each once and in order, and an answer is *)
(* collected when every rank has given its own.  One request and one       *)
(* answer are under way at a time.                                         *)
(***************************************************************************)
EXTENDS Naturals

CONSTANT Ranks

VARIABLES
  sent,        \* requests published
  got,         \* requests each rank has taken
  answered,    \* answers each rank has given
  collected    \* answers collected

vars == <<sent, got, answered, collected>>

Init ==
  /\ sent = 0 /\ got = [r \in Ranks |-> 0]
  /\ answered = [r \in Ranks |-> 0] /\ collected = 0

(* A request is published when every rank has taken the one before.        *)
Publish ==
  /\ \A r \in Ranks : got[r] = sent
  /\ sent' = sent + 1 /\ UNCHANGED <<got, answered, collected>>

Take(r) ==
  /\ got[r] < sent
  /\ got' = [got EXCEPT ![r] = @ + 1] /\ UNCHANGED <<sent, answered, collected>>

(* A rank answers a request it has taken, and waits with its next answer   *)
(* until this one is collected.                                            *)
Answer(r) ==
  /\ answered[r] = collected /\ answered[r] < got[r]
  /\ answered' = [answered EXCEPT ![r] = @ + 1] /\ UNCHANGED <<sent, got, collected>>

Collect ==
  /\ \A r \in Ranks : answered[r] > collected
  /\ collected' = collected + 1 /\ UNCHANGED <<sent, got, answered>>

Next == Publish \/ Collect \/ \E r \in Ranks : Take(r) \/ Answer(r)

SafeSpec == Init /\ [][Next]_vars

(* A published request is taken by every rank; what all ranks have         *)
(* answered is collected.                                                  *)
Spec == SafeSpec /\ WF_vars(Collect) /\ \A r \in Ranks : WF_vars(Take(r))
=============================================================================
