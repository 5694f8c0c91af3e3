--------------------------- MODULE SharedMemChannel ---------------------------
(***************************************************************************)
(* One channel between the executor (IPCCommunicator, C++) and the model   *)
(* processes of a data-parallel group (SharedMemoryChannel and             *)
(* SharedMemCommunication, Python): a shared buffer for requests, one for  *)
(* responses, and for each buffer and rank a pair of semaphores.           *)
(*                                                                         *)
(* A message is its number.  It is written as a length and a payload, and  *)
(* both carry the number here, so a torn read shows.  receiveAllRank_      *)
(* tells the two kinds of channel apart: on the transfer and the           *)
(* recover_command channel every rank writes a slot of its own, on the     *)
(* others rank 0 writes and the rest only toggle their semaphores.         *)
(***************************************************************************)
EXTENDS Naturals, Sequences, FiniteSets

CONSTANTS
  N,             \* ranks of the group (npu_num_per_dp)
  Silent,        \* requests that are not answered (cleanup)
  MaxRequests    \* bound: requests sent

ASSUME ChannelAssumption == N \in Nat \ {0} /\ MaxRequests \in Nat

Ranks == 0 .. N - 1

VARIABLES
  (* the executor *)
  sender, si,                 \* sending thread: where it is, and its loop index
  sent,
  receiver, ri,               \* receiving thread, likewise
  collected,                  \* the answers read; invalid ones are discarded,
                              \* the others given to the response handler
  receiveAllRank_,
  (* shared memory and semaphores *)
  request, requestProduce, requestConsume,
  response, responseProduce, responseConsume,
  (* the ranks *)
  listener, length,           \* receive_message: where it is, and what it has read
  received,                   \* requests accepted, in order
  handled, outcome,           \* how many of them are handled, and how they went
  worker                      \* the thread that handles them

senderVars == <<sender, si, sent, request>>
receiverVars == <<receiver, ri, collected>>
listenerVars == <<listener, length, received>>
workerVars == <<handled, outcome, worker>>
vars == <<senderVars, receiverVars, listenerVars, workerVars, receiveAllRank_, requestProduce,
          requestConsume, response, responseProduce, responseConsume>>

(* How a request went: executed, executed without success, or answered     *)
(* with what ParseResponse refuses: a status other than 0 (a link status   *)
(* query that raised), an unknown type, bytes it cannot parse.             *)
Verdicts == {"success", "failure", "invalid"}

Blank == [size |-> 0, body |-> 0, verdict |-> "success"]

(* SetupChannel and InitSemaphores: both buffers are free.                 *)
Init ==
  /\ sender = "idle" /\ si = 0 /\ sent = 0
  /\ receiver = "wait" /\ ri = 0 /\ collected = <<>>
  /\ receiveAllRank_ \in BOOLEAN
  /\ request = [size |-> 0, body |-> 0]
  /\ response = [r \in Ranks |-> Blank]
  /\ requestProduce = [r \in Ranks |-> 1] /\ requestConsume = [r \in Ranks |-> 0]
  /\ responseProduce = [r \in Ranks |-> 1] /\ responseConsume = [r \in Ranks |-> 0]
  /\ listener = [r \in Ranks |-> "acquire"] /\ length = [r \in Ranks |-> 0]
  /\ received = [r \in Ranks |-> <<>>]
  /\ handled = [r \in Ranks |-> 0] /\ outcome = [r \in Ranks |-> <<>>]
  /\ worker = [r \in Ranks |-> "idle"]

Up(sem, r) == [sem EXCEPT ![r] = @ + 1]
Down(sem, r) == [sem EXCEPT ![r] = @ - 1]
-----------------------------------------------------------------------------
(* SendMessageViaSM.  A single thread sends on a channel.  A message that  *)
(* is too large or cannot be serialised is refused before any semaphore is *)
(* taken, which changes nothing here.                                      *)

StartSend ==
  /\ sender = "idle" /\ sent < MaxRequests
  /\ sender' = "wait" /\ si' = 0
  /\ UNCHANGED <<sent, request, receiverVars, listenerVars, workerVars, receiveAllRank_,
                 requestProduce, requestConsume, response, responseProduce, responseConsume>>

(* WaitOnAllSemaphores, one by one.  Mutant: only the first is waited for. *)
WaitOnFirstProduce ==
  /\ sender = "wait" /\ requestProduce[si] > 0
  /\ requestProduce' = [r \in Ranks |-> IF requestProduce[r] > 0 THEN requestProduce[r] - 1 ELSE 0]
  /\ si' = 0 /\ sender' = "size"
  /\ UNCHANGED <<sent, request, receiverVars, listenerVars, workerVars, receiveAllRank_,
                 requestConsume, response, responseProduce, responseConsume>>

WaitOnProduce ==
  /\ sender = "wait" /\ requestProduce[si] > 0
  /\ requestProduce' = Down(requestProduce, si)
  /\ si' = (si + 1) % N
  /\ sender' = IF si + 1 = N THEN "size" ELSE "wait"
  /\ UNCHANGED <<sent, request, receiverVars, listenerVars, workerVars, receiveAllRank_,
                 requestConsume, response, responseProduce, responseConsume>>

(* WriteMessage: the length, then the payload.                             *)
WriteRequestSize ==
  /\ sender = "size" /\ sender' = "body"
  /\ request' = [request EXCEPT !.size = sent + 1]
  /\ UNCHANGED <<si, sent, receiverVars, listenerVars, workerVars, receiveAllRank_,
                 requestProduce, requestConsume, response, responseProduce, responseConsume>>

WriteRequestBody ==
  /\ sender = "body" /\ sender' = "signal"
  /\ request' = [request EXCEPT !.body = sent + 1] /\ sent' = sent + 1
  /\ UNCHANGED <<si, receiverVars, listenerVars, workerVars, receiveAllRank_,
                 requestProduce, requestConsume, response, responseProduce, responseConsume>>

(* A write fails: the slots are given back and the send is reported as     *)
(* failed.                                                                 *)
WriteFails ==
  /\ sender \in {"size", "body"} /\ sender' = "undo"
  /\ UNCHANGED <<si, sent, request, receiverVars, listenerVars, workerVars, receiveAllRank_,
                 requestProduce, requestConsume, response, responseProduce, responseConsume>>

ReleaseAfterFailure ==
  /\ sender = "undo"
  /\ requestProduce' = Up(requestProduce, si)
  /\ si' = (si + 1) % N
  /\ sender' = IF si + 1 = N THEN "idle" ELSE "undo"
  /\ UNCHANGED <<sent, request, receiverVars, listenerVars, workerVars, receiveAllRank_,
                 requestConsume, response, responseProduce, responseConsume>>

(* SignalAllSemaphores, one by one.                                        *)
SignalConsume ==
  /\ sender = "signal"
  /\ requestConsume' = Up(requestConsume, si)
  /\ si' = (si + 1) % N
  /\ sender' = IF si + 1 = N THEN "idle" ELSE "signal"
  /\ UNCHANGED <<sent, request, receiverVars, listenerVars, workerVars, receiveAllRank_,
                 requestProduce, response, responseProduce, responseConsume>>
-----------------------------------------------------------------------------
(* receive_message and _process_incoming_requests of a rank.               *)

AcquireRequest(r) ==
  /\ listener[r] = "acquire" /\ requestConsume[r] > 0
  /\ requestConsume' = Down(requestConsume, r)
  /\ listener' = [listener EXCEPT ![r] = "size"]
  /\ UNCHANGED <<senderVars, receiverVars, length, received, workerVars, receiveAllRank_,
                 requestProduce, response, responseProduce, responseConsume>>

(* Mutant: the buffer is given back before the payload is copied.          *)
ReadSizeAndRelease(r) ==
  /\ listener[r] = "size" /\ listener' = [listener EXCEPT ![r] = "body"]
  /\ length' = [length EXCEPT ![r] = request.size]
  /\ requestProduce' = Up(requestProduce, r)
  /\ UNCHANGED <<senderVars, receiverVars, received, workerVars, receiveAllRank_,
                 requestConsume, response, responseProduce, responseConsume>>

ReadSize(r) ==
  /\ listener[r] = "size" /\ listener' = [listener EXCEPT ![r] = "body"]
  /\ length' = [length EXCEPT ![r] = request.size]
  /\ UNCHANGED <<senderVars, receiverVars, received, workerVars, receiveAllRank_,
                 requestProduce, requestConsume, response, responseProduce, responseConsume>>

(* The payload is copied, the buffer given back, the request accepted.     *)
ReadBody(r) ==
  /\ listener[r] = "body" /\ listener' = [listener EXCEPT ![r] = "acquire"]
  /\ received' = [received EXCEPT ![r] = Append(@, [size |-> length[r], body |-> request.body])]
  /\ requestProduce' = Up(requestProduce, r)
  /\ UNCHANGED <<senderVars, receiverVars, length, workerVars, receiveAllRank_,
                 requestConsume, response, responseProduce, responseConsume>>
-----------------------------------------------------------------------------
(* The thread that handles requests, and send_response.                    *)

(* A request is executed, with or without success, and answered unless it  *)
(* is a silent one.                                                        *)
Handle(r, v) ==
  /\ worker[r] = "idle" /\ handled[r] < Len(received[r])
  /\ handled' = Up(handled, r)
  /\ LET m == received[r][handled[r] + 1].body IN
     IF m \in Silent
     THEN v = "success" /\ UNCHANGED <<worker, outcome>>
     ELSE /\ worker' = [worker EXCEPT ![r] = "acquire"]
          /\ outcome' = [outcome EXCEPT ![r] = Append(@, [msg |-> m, verdict |-> v])]
  /\ UNCHANGED <<senderVars, receiverVars, listenerVars, receiveAllRank_, requestProduce,
                 requestConsume, response, responseProduce, responseConsume>>

AcquireResponse(r) ==
  /\ worker[r] = "acquire" /\ responseProduce[r] > 0
  /\ responseProduce' = Down(responseProduce, r)
  /\ worker' = [worker EXCEPT ![r] = IF receiveAllRank_ \/ r = 0 THEN "size" ELSE "release"]
  /\ UNCHANGED <<senderVars, receiverVars, listenerVars, handled, outcome, receiveAllRank_,
                 requestProduce, requestConsume, response, responseConsume>>

(* The slot a rank writes to.  Mutant: everyone writes to the first.       *)
SlotZero(r) == 0
Slot(r) == IF receiveAllRank_ THEN r ELSE 0

Result(r) == outcome[r][Len(outcome[r])]

WriteSize(r) ==
  /\ worker[r] = "size" /\ worker' = [worker EXCEPT ![r] = "body"]
  /\ response' = [response EXCEPT ![Slot(r)].size = Result(r).msg]
  /\ UNCHANGED <<senderVars, receiverVars, listenerVars, handled, outcome, receiveAllRank_,
                 requestProduce, requestConsume, responseProduce, responseConsume>>

WriteBody(r) ==
  /\ worker[r] = "body" /\ worker' = [worker EXCEPT ![r] = "release"]
  /\ response' = [response EXCEPT ![Slot(r)] =
       [size |-> @.size, body |-> Result(r).msg, verdict |-> Result(r).verdict]]
  /\ UNCHANGED <<senderVars, receiverVars, listenerVars, handled, outcome, receiveAllRank_,
                 requestProduce, requestConsume, responseProduce, responseConsume>>

ReleaseResponse(r) ==
  /\ worker[r] = "release" /\ worker' = [worker EXCEPT ![r] = "idle"]
  /\ responseConsume' = Up(responseConsume, r)
  /\ UNCHANGED <<senderVars, receiverVars, listenerVars, handled, outcome, receiveAllRank_,
                 requestProduce, requestConsume, response, responseProduce>>
-----------------------------------------------------------------------------
(* HandleRcvMsg: ReceiveResponse and ReceiveAllRankResponses.              *)

(* Mutant: the first rank's answer is enough.                              *)
WaitOnFirstConsume ==
  /\ receiver = "wait" /\ responseConsume[ri] > 0
  /\ responseConsume' = [r \in Ranks |-> IF responseConsume[r] > 0 THEN responseConsume[r] - 1 ELSE 0]
  /\ ri' = 0 /\ receiver' = "parse"
  /\ UNCHANGED <<senderVars, collected, listenerVars, workerVars, receiveAllRank_, requestProduce,
                 requestConsume, response, responseProduce>>

WaitOnConsume ==
  /\ receiver = "wait" /\ responseConsume[ri] > 0
  /\ responseConsume' = Down(responseConsume, ri)
  /\ ri' = (ri + 1) % N
  /\ receiver' = IF ri + 1 = N THEN "parse" ELSE "wait"
  /\ UNCHANGED <<senderVars, collected, listenerVars, workerVars, receiveAllRank_, requestProduce,
                 requestConsume, response, responseProduce>>

(* ParseResponse of every slot that is read, the first invalid one ends    *)
(* it; then AggregateToOneResponse, where a failure of one rank is the     *)
(* answer.  (For recover_command the executor keeps the results of all     *)
(* ranks, which its caller aggregates alike, or, on a slave node, does so  *)
(* itself.)                                                                *)
Aggregate(slots) ==
  IF \E i \in slots : response[i].verdict = "invalid" THEN "invalid"
  ELSE IF \E i \in slots : response[i].verdict = "failure" THEN "failure"
  ELSE "success"

(* The answer is read.  The thread calls the response handler once it has  *)
(* released the buffer, unless the answer is invalid, so the handler sees  *)
(* the other answers in the order in which they are collected.             *)
Parse ==
  /\ receiver = "parse" /\ receiver' = "signal"
  /\ LET slots == IF receiveAllRank_ THEN Ranks ELSE {0} IN
     collected' = Append(collected,
       [msgs |-> UNION {{response[i].size, response[i].body} : i \in slots}, verdict |-> Aggregate(slots)])
  /\ UNCHANGED <<senderVars, ri, listenerVars, workerVars, receiveAllRank_, requestProduce,
                 requestConsume, response, responseProduce, responseConsume>>

(* Mutant: only the first rank is told that the buffer is free.            *)
SignalFirstProduce ==
  /\ receiver = "signal" /\ receiver' = "wait"
  /\ responseProduce' = Up(responseProduce, 0)
  /\ UNCHANGED <<senderVars, ri, collected, listenerVars, workerVars, receiveAllRank_,
                 requestProduce, requestConsume, response, responseConsume>>

SignalProduce ==
  /\ receiver = "signal"
  /\ responseProduce' = Up(responseProduce, ri)
  /\ ri' = (ri + 1) % N
  /\ receiver' = IF ri + 1 = N THEN "wait" ELSE "signal"
  /\ UNCHANGED <<senderVars, collected, listenerVars, workerVars, receiveAllRank_, requestProduce,
                 requestConsume, response, responseConsume>>
-----------------------------------------------------------------------------
SendStep == WaitOnProduce \/ WriteRequestSize \/ WriteRequestBody \/ ReleaseAfterFailure \/ SignalConsume

ListenStep(r) == AcquireRequest(r) \/ ReadSize(r) \/ ReadBody(r)

WorkStep(r) ==
  \/ \E v \in Verdicts : Handle(r, v)
  \/ AcquireResponse(r) \/ WriteSize(r) \/ WriteBody(r) \/ ReleaseResponse(r)

ReceiveStep == WaitOnConsume \/ Parse \/ SignalProduce

Next ==
  \/ StartSend \/ WriteFails \/ SendStep \/ ReceiveStep
  \/ \E r \in Ranks : ListenStep(r) \/ WorkStep(r)

(* Threads run on; a send that has begun is not cut off.                   *)
Fairness ==
  /\ WF_vars(SendStep) /\ WF_vars(ReceiveStep)
  /\ \A r \in Ranks : WF_vars(ListenStep(r)) /\ WF_vars(WorkStep(r))

SafeSpec == Init /\ [][Next]_vars
Spec == SafeSpec /\ Fairness
-----------------------------------------------------------------------------
TypeOK ==
  /\ sender \in {"idle", "wait", "size", "body", "undo", "signal"} /\ si \in Ranks /\ sent \in Nat
  /\ receiver \in {"wait", "parse", "signal"} /\ ri \in Ranks
  /\ collected \in Seq([msgs : SUBSET Nat, verdict : Verdicts])
  /\ receiveAllRank_ \in BOOLEAN
  /\ response \in [Ranks -> [size : Nat, body : Nat, verdict : Verdicts]]
  /\ request \in [size : Nat, body : Nat]
  /\ requestProduce \in [Ranks -> {0, 1}] /\ requestConsume \in [Ranks -> {0, 1}]
  /\ responseProduce \in [Ranks -> {0, 1}] /\ responseConsume \in [Ranks -> {0, 1}]
  /\ listener \in [Ranks -> {"acquire", "size", "body"}] /\ length \in [Ranks -> Nat]
  /\ received \in [Ranks -> Seq([size : Nat, body : Nat])]
  /\ handled \in [Ranks -> Nat]
  /\ outcome \in [Ranks -> Seq([msg : Nat, verdict : Verdicts])]
  /\ worker \in [Ranks -> {"idle", "acquire", "size", "body", "release"}]

(* The thread that owns a buffer on behalf of a rank: for each buffer and  *)
(* rank, the two semaphores and the two threads pass around one token.     *)
SenderHolds(r) ==
  \/ sender = "wait" /\ r < si
  \/ sender \in {"size", "body"}
  \/ sender \in {"undo", "signal"} /\ r >= si

ReceiverHolds(r) ==
  \/ receiver = "wait" /\ r < ri
  \/ receiver = "parse"
  \/ receiver = "signal" /\ r >= ri

WorkerHolds(r) == worker[r] \in {"size", "body", "release"}

(* No buffer is written while it is read or by two threads, in whatever    *)
(* order the semaphores are taken: per rank, exactly one of producer slot, *)
(* consumer slot, executor thread and rank thread has the token.           *)
OneToken ==
  \A r \in Ranks :
    /\ requestProduce[r] + requestConsume[r] + (IF SenderHolds(r) THEN 1 ELSE 0)
         + (IF listener[r] # "acquire" THEN 1 ELSE 0) = 1
    /\ responseProduce[r] + responseConsume[r] + (IF ReceiverHolds(r) THEN 1 ELSE 0)
         + (IF WorkerHolds(r) THEN 1 ELSE 0) = 1

(* Every rank gets the requests 1, 2, 3, ... whole, each once and in       *)
(* order, and is at most one behind another rank.                          *)
RequestsInOrder ==
  \A r \in Ranks :
    /\ received[r] = [i \in 1 .. Len(received[r]) |-> [size |-> i, body |-> i]]
    /\ Len(received[r]) \in {sent, sent - 1}

(* How many of the first m requests are answered, and the k-th that is.    *)
Turn(m) == Cardinality({i \in 1 .. m : i \notin Silent})
Answerable(k) == CHOOSE m \in 1 .. MaxRequests : m \notin Silent /\ Turn(m) = k

(* The ranks whose answer counts. *)
Counts(r) == receiveAllRank_ \/ r = 0

(* The k-th answer that is collected is whole, all slots of it are about   *)
(* the k-th request that has one, every rank is done with that request,    *)
(* the answer is a success exactly if it is one on every rank whose answer *)
(* counts, and it is discarded exactly if one of these sent an invalid     *)
(* one.                                                                    *)
AnswersInOrder ==
  \A k \in 1 .. Len(collected) :
    /\ collected[k].msgs = {Answerable(k)}
    /\ \A r \in Ranks : Len(outcome[r]) >= k /\ outcome[r][k].msg = Answerable(k)
    /\ collected[k].verdict = "success" <=>
         \A r \in Ranks : Counts(r) => outcome[r][k].verdict = "success"
    /\ collected[k].verdict = "invalid" <=>
         \E r \in Ranks : Counts(r) /\ outcome[r][k].verdict = "invalid"

(* What a rank has answered: the results for which it has released the     *)
(* response semaphore.                                                     *)
Answered(r) == IF worker[r] = "idle" THEN Len(outcome[r]) ELSE Len(outcome[r]) - 1

Abstract == INSTANCE BroadcastChannel WITH
  got <- [r \in Ranks |-> Len(received[r])],
  answered <- [r \in Ranks |-> Answered(r)],
  collected <- Len(collected)

(* The channel implements the broadcast it is used as, progress included.  *)
BroadcastSpec == Abstract!Spec

(* Every request that has one gets its answer read, whatever was discarded *)
(* before: senders, listeners, workers and the receiving thread never wait *)
(* for each other in a circle.                                             *)
EveryRequestAnswered ==
  \A k \in 1 .. MaxRequests :
    sent >= k /\ k \notin Silent ~> \E i \in 1 .. Len(collected) : collected[i].msgs = {k}
=============================================================================
