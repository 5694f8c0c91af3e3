------------------------ MODULE SharedMemChannel_proofs ------------------------
(***************************************************************************)
(* For any number of ranks and any set of unanswered requests: the         *)
(* semaphores of SharedMemChannel pass one token around per buffer and     *)
(* rank, no request and no answer is torn, lost, doubled or reordered, and *)
(* every step is a step of BroadcastChannel.                               *)
(***************************************************************************)
EXTENDS SharedMemChannel, SequenceTheorems, FiniteSetTheorems, TLAPS

LEMMA RanksType == N \in Nat /\ N > 0 /\ Ranks = 0 .. N - 1 /\ 0 \in Ranks
  BY ChannelAssumption DEF Ranks

(* The loop index of WaitOnAllSemaphores and SignalAllSemaphores.          *)
LEMMA NextIndex ==
  ASSUME NEW i \in Ranks
  PROVE  /\ (i + 1) % N \in Ranks
         /\ (i + 1) % N = IF i + 1 = N THEN 0 ELSE i + 1
<1>1. i \in Nat /\ i < N /\ N \in Nat /\ N > 0
  BY RanksType
<1>2. CASE i + 1 = N
  BY <1>1, <1>2, RanksType
<1>3. CASE i + 1 # N
  BY <1>1, <1>3, RanksType
<1> QED
  BY <1>2, <1>3

(* What "the sum is one" says of two semaphores and two threads.           *)
Exclusive(p, c, a, b) ==
  \/ p = 1 /\ c = 0 /\ ~a /\ ~b
  \/ p = 0 /\ c = 1 /\ ~a /\ ~b
  \/ p = 0 /\ c = 0 /\ a /\ ~b
  \/ p = 0 /\ c = 0 /\ ~a /\ b
-----------------------------------------------------------------------------
(* The requests' half of the channel and its inductive invariant: types,   *)
(* the token, and what each rank has received, which follows from where    *)
(* its token is.                                                           *)
requestSide == <<sender, si, sent, request, requestProduce, requestConsume, listenerVars>>

RequestType ==
  /\ sender \in {"idle", "wait", "size", "body", "undo", "signal"} /\ si \in Ranks /\ sent \in Nat
  /\ request \in [size : Nat, body : Nat]
  /\ requestProduce \in [Ranks -> {0, 1}] /\ requestConsume \in [Ranks -> {0, 1}]
  /\ listener \in [Ranks -> {"acquire", "size", "body"}] /\ length \in [Ranks -> Nat]
  /\ received \in [Ranks -> Seq([size : Nat, body : Nat])]

RequestToken(r) ==
  Exclusive(requestProduce[r], requestConsume[r], SenderHolds(r), listener[r] # "acquire")

Whole(s) == \A i \in 1 .. Len(s) : s[i] = [size |-> i, body |-> i]

RequestFlow(r) ==
  /\ requestConsume[r] = 1 \/ listener[r] # "acquire" =>
       request.size = sent /\ request.body = sent /\ Len(received[r]) + 1 = sent
  /\ listener[r] = "body" => length[r] = sent
  /\ requestProduce[r] = 1 \/ (SenderHolds(r) /\ sender # "signal") => Len(received[r]) = sent
  /\ SenderHolds(r) /\ sender = "signal" => Len(received[r]) + 1 = sent
  /\ Whole(received[r])

RequestWritten ==
  /\ sender \in {"size", "body"} => si = 0
  /\ sender = "body" => request.size = sent + 1
  /\ sender = "signal" => request.size = sent /\ request.body = sent

RequestInv ==
  /\ RequestType /\ RequestWritten
  /\ \A r \in Ranks : RequestToken(r) /\ RequestFlow(r)

LEMMA RequestInit == Init => RequestInv
<1> SUFFICES ASSUME Init PROVE RequestInv
  OBVIOUS
<1>1. RequestType
  BY RanksType DEF Init, RequestType
<1>2. ASSUME NEW r \in Ranks
      PROVE  RequestToken(r) /\ RequestFlow(r)
  BY DEF Init, RequestToken, RequestFlow, Whole, Exclusive, SenderHolds
<1> QED
  BY <1>1, <1>2 DEF RequestInv, RequestWritten, Init

LEMMA RequestFrame ==
  ASSUME RequestInv, UNCHANGED requestSide
  PROVE  RequestInv'
  BY DEF RequestInv, requestSide, listenerVars, RequestType, RequestWritten, RequestToken,
         RequestFlow, SenderHolds

LEMMA SendStepInv ==
  ASSUME RequestInv,
         StartSend \/ WriteFails \/ SendStep
  PROVE  RequestInv'
<1> USE RanksType
<1>0. RequestType /\ RequestWritten /\ \A r \in Ranks : RequestToken(r) /\ RequestFlow(r)
  BY DEF RequestInv
<1>1. CASE StartSend
  <2>1. RequestType'
    BY <1>0, <1>1 DEF RequestType, StartSend, listenerVars
  <2>2. ASSUME NEW r \in Ranks PROVE RequestToken(r)' /\ RequestFlow(r)'
    BY <1>0, <1>1, <2>2
       DEF RequestType, StartSend, listenerVars, RequestToken, RequestFlow, Exclusive, SenderHolds
  <2> QED BY <1>1, <2>1, <2>2 DEF RequestInv, RequestWritten, StartSend
<1>2. CASE WaitOnProduce
  <2>1. RequestToken(si) /\ requestProduce[si] = 1
    BY <1>0, <1>2 DEF WaitOnProduce, RequestType
  <2>2. requestProduce' \in [Ranks -> {0, 1}] /\ si' \in Ranks
    BY <1>0, <1>2, <2>1, NextIndex DEF WaitOnProduce, RequestType, Down
  <2>3. RequestType'
    BY <1>0, <1>2, <2>2 DEF RequestType, WaitOnProduce, listenerVars
  <2>4. ASSUME NEW r \in Ranks PROVE RequestToken(r)' /\ RequestFlow(r)'
    <3>1. requestProduce'[r] = IF r = si THEN 0 ELSE requestProduce[r]
      BY <1>0, <1>2, <2>1 DEF WaitOnProduce, RequestType, Down
    <3>2. SenderHolds(r)' <=> r = si \/ SenderHolds(r)
      BY <1>0, <1>2, NextIndex DEF WaitOnProduce, RequestType, SenderHolds
    <3>3. RequestToken(r) /\ RequestFlow(r) /\ sender' # "signal" /\ sender # "signal"
      BY <1>0, <1>2 DEF WaitOnProduce
    <3>4. UNCHANGED <<sent, request, requestConsume, listener, length, received>>
      BY <1>2 DEF WaitOnProduce, listenerVars
    <3> QED
      BY <2>1, <3>1, <3>2, <3>3, <3>4 DEF RequestToken, RequestFlow, Exclusive
  <2>5. sender' = "size" => si' = 0
    BY <1>0, <1>2, NextIndex DEF WaitOnProduce, RequestType
  <2> QED BY <1>0, <1>2, <2>3, <2>4, <2>5 DEF RequestInv, RequestWritten, WaitOnProduce
<1>3. CASE WriteRequestSize
  <2>1. request' \in [size : Nat, body : Nat] /\ request'.size = sent + 1
    <3>1. request \in [size : Nat, body : Nat] /\ sent + 1 \in Nat
      BY <1>0 DEF RequestType
    <3>2. request' = [request EXCEPT !.size = sent + 1]
      BY <1>3 DEF WriteRequestSize
    <3> QED BY <3>1, <3>2
  <2>2. RequestType'
    BY <1>0, <1>3, <2>1 DEF RequestType, WriteRequestSize, listenerVars
  <2>3. ASSUME NEW r \in Ranks PROVE RequestToken(r)' /\ RequestFlow(r)'
    <3>1. SenderHolds(r) /\ SenderHolds(r)' /\ RequestToken(r) /\ RequestFlow(r)
      BY <1>0, <1>3 DEF WriteRequestSize, SenderHolds
    <3>2. UNCHANGED <<sent, requestProduce, requestConsume, listener, length, received>>
      BY <1>3 DEF WriteRequestSize, listenerVars
    <3> QED
      BY <1>3, <3>1, <3>2 DEF RequestToken, RequestFlow, Exclusive, WriteRequestSize
  <2> QED BY <1>0, <1>3, <2>1, <2>2, <2>3 DEF RequestInv, RequestWritten, WriteRequestSize
<1>4. CASE WriteRequestBody
  <2>1. /\ request' \in [size : Nat, body : Nat] /\ sent' = sent + 1 /\ sent \in Nat
        /\ request'.size = sent' /\ request'.body = sent'
    BY <1>0, <1>4 DEF WriteRequestBody, RequestType, RequestWritten
  <2>2. RequestType'
    BY <1>0, <1>4, <2>1 DEF RequestType, WriteRequestBody, listenerVars
  <2>3. ASSUME NEW r \in Ranks PROVE RequestToken(r)' /\ RequestFlow(r)'
    <3>1. SenderHolds(r) /\ RequestToken(r) /\ RequestFlow(r)
      BY <1>0, <1>4 DEF WriteRequestBody, SenderHolds
    <3>2. UNCHANGED <<requestProduce, requestConsume, listener, length, received>>
      BY <1>4 DEF WriteRequestBody, listenerVars
    <3>3. SenderHolds(r)'
      BY <1>0, <1>4 DEF WriteRequestBody, SenderHolds, RequestWritten, RequestType
    <3> QED
      BY <1>4, <2>1, <3>1, <3>2, <3>3 DEF RequestToken, RequestFlow, Exclusive, WriteRequestBody
  <2> QED BY <1>4, <2>1, <2>2, <2>3 DEF RequestInv, RequestWritten, WriteRequestBody
<1>5. CASE WriteFails
  <2>1. RequestType'
    BY <1>0, <1>5 DEF RequestType, WriteFails, listenerVars
  <2>2. ASSUME NEW r \in Ranks PROVE RequestToken(r)' /\ RequestFlow(r)'
    <3>1. SenderHolds(r) /\ SenderHolds(r)' /\ RequestToken(r) /\ RequestFlow(r)
      BY <1>0, <1>5 DEF WriteFails, SenderHolds, RequestWritten, RequestType
    <3>2. UNCHANGED <<sent, request, requestProduce, requestConsume, listener, length, received>>
      BY <1>5 DEF WriteFails, listenerVars
    <3> QED
      BY <1>5, <3>1, <3>2 DEF RequestToken, RequestFlow, Exclusive, WriteFails
  <2> QED BY <1>5, <2>1, <2>2 DEF RequestInv, RequestWritten, WriteFails
<1>6. CASE ReleaseAfterFailure
  <2>1. SenderHolds(si) /\ requestProduce[si] = 0
    BY <1>0, <1>6 DEF ReleaseAfterFailure, RequestType, RequestToken, Exclusive, SenderHolds
  <2>2. requestProduce' \in [Ranks -> {0, 1}] /\ si' \in Ranks
    BY <1>0, <1>6, <2>1, NextIndex DEF ReleaseAfterFailure, RequestType, Up
  <2>3. RequestType'
    BY <1>0, <1>6, <2>2 DEF RequestType, ReleaseAfterFailure, listenerVars
  <2>4. ASSUME NEW r \in Ranks PROVE RequestToken(r)' /\ RequestFlow(r)'
    <3>1. requestProduce'[r] = IF r = si THEN 1 ELSE requestProduce[r]
      BY <1>0, <1>6, <2>1 DEF ReleaseAfterFailure, RequestType, Up
    <3>2. SenderHolds(r)' <=> r # si /\ SenderHolds(r)
      BY <1>0, <1>6, NextIndex DEF ReleaseAfterFailure, RequestType, SenderHolds
    <3>3. RequestToken(r) /\ RequestFlow(r) /\ sender' # "signal" /\ sender # "signal"
      BY <1>0, <1>6 DEF ReleaseAfterFailure
    <3>4. UNCHANGED <<sent, request, requestConsume, listener, length, received>>
      BY <1>6 DEF ReleaseAfterFailure, listenerVars
    <3> QED
      BY <2>1, <3>1, <3>2, <3>3, <3>4 DEF RequestToken, RequestFlow, Exclusive
  <2> QED BY <1>6, <2>3, <2>4 DEF RequestInv, RequestWritten, ReleaseAfterFailure
<1>7. CASE SignalConsume
  <2>1. SenderHolds(si) /\ requestConsume[si] = 0
    BY <1>0, <1>7 DEF SignalConsume, RequestType, RequestToken, Exclusive, SenderHolds
  <2>2. requestConsume' \in [Ranks -> {0, 1}] /\ si' \in Ranks
    BY <1>0, <1>7, <2>1, NextIndex DEF SignalConsume, RequestType, Up
  <2>3. RequestType'
    BY <1>0, <1>7, <2>2 DEF RequestType, SignalConsume, listenerVars
  <2>4. ASSUME NEW r \in Ranks PROVE RequestToken(r)' /\ RequestFlow(r)'
    <3>1. requestConsume'[r] = IF r = si THEN 1 ELSE requestConsume[r]
      BY <1>0, <1>7, <2>1 DEF SignalConsume, RequestType, Up
    <3>2. SenderHolds(r)' <=> r # si /\ SenderHolds(r)
      BY <1>0, <1>7, NextIndex DEF SignalConsume, RequestType, SenderHolds
    <3>3. /\ RequestToken(r) /\ RequestFlow(r) /\ sender = "signal"
          /\ request.size = sent /\ request.body = sent
      BY <1>0, <1>7 DEF SignalConsume, RequestWritten
    <3>4. UNCHANGED <<sent, request, requestProduce, listener, length, received>>
      BY <1>7 DEF SignalConsume, listenerVars
    <3>5. SenderHolds(r)' => sender' = "signal"
      BY <1>7 DEF SignalConsume, SenderHolds
    <3> QED
      BY <2>1, <3>1, <3>2, <3>3, <3>4, <3>5 DEF RequestToken, RequestFlow, Exclusive
  <2> QED BY <1>0, <1>7, <2>3, <2>4 DEF RequestInv, RequestWritten, SignalConsume
<1> QED
  BY <1>1, <1>2, <1>3, <1>4, <1>5, <1>6, <1>7 DEF SendStep

LEMMA ListenStepInv ==
  ASSUME RequestInv, NEW s \in Ranks, ListenStep(s)
  PROVE  RequestInv'
<1> USE RanksType
<1>0. RequestType /\ RequestWritten /\ \A r \in Ranks : RequestToken(r) /\ RequestFlow(r)
  BY DEF RequestInv
<1>1. CASE AcquireRequest(s)
  <2>1. requestConsume[s] = 1
    BY <1>0, <1>1 DEF AcquireRequest, RequestType
  <2>2. RequestType'
    BY <1>0, <1>1, <2>1 DEF RequestType, AcquireRequest, senderVars, Down
  <2>3. ASSUME NEW r \in Ranks PROVE RequestToken(r)' /\ RequestFlow(r)'
    <3>1. /\ requestConsume'[r] = IF r = s THEN 0 ELSE requestConsume[r]
          /\ listener'[r] = IF r = s THEN "size" ELSE listener[r]
      BY <1>0, <1>1, <2>1 DEF AcquireRequest, RequestType, Down
    <3>2. RequestToken(r) /\ RequestFlow(r) /\ SenderHolds(r)' = SenderHolds(r)
      BY <1>0, <1>1 DEF AcquireRequest, senderVars, SenderHolds
    <3>3. UNCHANGED <<sender, sent, request, requestProduce, length, received>>
      BY <1>1 DEF AcquireRequest, senderVars
    <3> QED
      BY <1>1, <2>1, <3>1, <3>2, <3>3 DEF RequestToken, RequestFlow, Exclusive, AcquireRequest
  <2> QED BY <1>0, <1>1, <2>2, <2>3 DEF RequestInv, RequestWritten, AcquireRequest, senderVars
<1>2. CASE ReadSize(s)
  <2>1. RequestType'
    BY <1>0, <1>2 DEF RequestType, ReadSize, senderVars
  <2>2. ASSUME NEW r \in Ranks PROVE RequestToken(r)' /\ RequestFlow(r)'
    <3>1. /\ listener'[r] = IF r = s THEN "body" ELSE listener[r]
          /\ length'[r] = IF r = s THEN request.size ELSE length[r]
      BY <1>0, <1>2 DEF ReadSize, RequestType
    <3>2. RequestToken(r) /\ RequestFlow(r) /\ SenderHolds(r)' = SenderHolds(r)
      BY <1>0, <1>2 DEF ReadSize, senderVars, SenderHolds
    <3>3. UNCHANGED <<sender, sent, request, requestProduce, requestConsume, received>>
      BY <1>2 DEF ReadSize, senderVars
    <3> QED
      BY <1>2, <3>1, <3>2, <3>3 DEF RequestToken, RequestFlow, Exclusive, ReadSize
  <2> QED BY <1>0, <1>2, <2>1, <2>2 DEF RequestInv, RequestWritten, ReadSize, senderVars
<1>3. CASE ReadBody(s)
  <2> DEFINE m == [size |-> length[s], body |-> request.body]
  <2>1. /\ requestProduce[s] = 0 /\ ~ SenderHolds(s) /\ requestConsume[s] = 0
        /\ Len(received[s]) + 1 = sent /\ m = [size |-> sent, body |-> sent]
    BY <1>0, <1>3 DEF ReadBody, RequestToken, RequestFlow, Exclusive
  <2>2. m \in [size : Nat, body : Nat]
    BY <1>0, <2>1 DEF RequestType
  <2>3. received' = [received EXCEPT ![s] = Append(received[s], m)]
    BY <1>3 DEF ReadBody
  <2>4. received' \in [Ranks -> Seq([size : Nat, body : Nat])]
    BY <1>0, <2>2, <2>3 DEF RequestType
  <2>5. RequestType'
    BY <1>0, <1>3, <2>1, <2>4 DEF RequestType, ReadBody, senderVars, Up
  <2>6. /\ Len(received'[s]) = sent /\ Whole(received'[s])
        /\ \A r \in Ranks \ {s} : received'[r] = received[r]
    <3>1. /\ received[s] \in Seq([size : Nat, body : Nat])
          /\ received'[s] = Append(received[s], m) /\ Whole(received[s])
          /\ \A r \in Ranks \ {s} : received'[r] = received[r]
      BY <1>0, <2>3 DEF RequestType, RequestFlow
    <3>2. Len(received'[s]) = Len(received[s]) + 1
      BY <2>2, <3>1
    <3>3. ASSUME NEW i \in 1 .. Len(received'[s])
          PROVE  received'[s][i] = [size |-> i, body |-> i]
      BY <2>1, <2>2, <3>1, <3>2 DEF Whole
    <3> QED BY <2>1, <3>1, <3>2, <3>3 DEF Whole
  <2>7. ASSUME NEW r \in Ranks PROVE RequestToken(r)' /\ RequestFlow(r)'
    <3>1. /\ listener'[r] = IF r = s THEN "acquire" ELSE listener[r]
          /\ requestProduce'[r] = IF r = s THEN 1 ELSE requestProduce[r]
      BY <1>0, <1>3, <2>1 DEF ReadBody, RequestType, Up
    <3>2. RequestToken(r) /\ RequestFlow(r) /\ SenderHolds(r)' = SenderHolds(r)
      BY <1>0, <1>3 DEF ReadBody, senderVars, SenderHolds
    <3>3. UNCHANGED <<sender, sent, request, requestConsume, length>>
      BY <1>3 DEF ReadBody, senderVars
    <3> QED
      BY <2>1, <2>6, <3>1, <3>2, <3>3 DEF RequestToken, RequestFlow, Exclusive
  <2> QED BY <1>0, <1>3, <2>5, <2>7 DEF RequestInv, RequestWritten, ReadBody, senderVars
<1> QED
  BY <1>1, <1>2, <1>3 DEF ListenStep

LEMMA RequestStep ==
  ASSUME RequestInv, [Next]_vars
  PROVE  RequestInv'
<1>1. CASE StartSend \/ WriteFails \/ SendStep
  BY <1>1, SendStepInv
<1>2. CASE \E r \in Ranks : ListenStep(r)
  BY <1>2, ListenStepInv
<1>3. CASE ReceiveStep
  BY <1>3, RequestFrame
     DEF ReceiveStep, WaitOnConsume, Parse, SignalProduce, requestSide, senderVars, listenerVars
<1>4. CASE \E r \in Ranks : WorkStep(r)
  <2>1. PICK r \in Ranks : WorkStep(r)
    BY <1>4
  <2> QED
    BY <2>1, RequestFrame DEF WorkStep, Handle, AcquireResponse, WriteSize, WriteBody,
       ReleaseResponse, requestSide, senderVars, listenerVars
<1>5. CASE UNCHANGED vars
  BY <1>5, RequestFrame DEF vars, requestSide, senderVars, listenerVars
<1> QED
  BY <1>1, <1>2, <1>3, <1>4, <1>5 DEF Next
-----------------------------------------------------------------------------
(* The responses half, and its invariant: what each rank has answered, from *)
(* where its token is.                                                     *)
responseSide == <<receiverVars, receiveAllRank_, response, responseProduce, responseConsume,
                  workerVars>>

ResponseType ==
  /\ receiver \in {"wait", "parse", "signal"} /\ ri \in Ranks
  /\ collected \in Seq([msgs : SUBSET Nat, verdict : Verdicts])
  /\ receiveAllRank_ \in BOOLEAN
  /\ response \in [Ranks -> [size : Nat, body : Nat, verdict : Verdicts]]
  /\ responseProduce \in [Ranks -> {0, 1}] /\ responseConsume \in [Ranks -> {0, 1}]
  /\ handled \in [Ranks -> Nat]
  /\ outcome \in [Ranks -> Seq([msg : Nat, verdict : Verdicts])]
  /\ worker \in [Ranks -> {"idle", "acquire", "size", "body", "release"}]

ResponseToken(r) ==
  Exclusive(responseProduce[r], responseConsume[r], ReceiverHolds(r), WorkerHolds(r))

ResponseFlow(r) ==
  /\ Len(outcome[r]) <= handled[r]
  /\ worker[r] # "idle" => Len(outcome[r]) > 0
  /\ responseProduce[r] = 1 \/ WorkerHolds(r) => Answered(r) = Len(collected)
  /\ responseConsume[r] = 1 \/ (ReceiverHolds(r) /\ receiver # "signal") =>
       Answered(r) = Len(collected) + 1
  /\ ReceiverHolds(r) /\ receiver = "signal" => Answered(r) = Len(collected)

HandledReceived == \A r \in Ranks : handled[r] <= Len(received[r])

ResponseInv ==
  /\ ResponseType /\ (receiver = "parse" => ri = 0)
  /\ \A r \in Ranks : ResponseToken(r) /\ ResponseFlow(r)

LEMMA ResponseInit == Init => ResponseInv /\ HandledReceived
<1> SUFFICES ASSUME Init PROVE ResponseInv /\ HandledReceived
  OBVIOUS
<1>1. ResponseType
  BY RanksType DEF Init, ResponseType, Blank, Verdicts
<1>2. ASSUME NEW r \in Ranks
      PROVE  ResponseToken(r) /\ ResponseFlow(r)
  BY RanksType DEF Init, ResponseToken, ResponseFlow, Exclusive, ReceiverHolds, WorkerHolds, Answered
<1> QED
  BY <1>1, <1>2 DEF ResponseInv, Init, HandledReceived

LEMMA ResponseFrame ==
  ASSUME ResponseInv, UNCHANGED responseSide
  PROVE  ResponseInv'
  BY DEF ResponseInv, responseSide, receiverVars, workerVars, ResponseType, ResponseToken,
         ResponseFlow, ReceiverHolds, WorkerHolds, Answered

LEMMA ParseCollects ==
  ASSUME ResponseType, Parse
  PROVE  /\ collected' \in Seq([msgs : SUBSET Nat, verdict : Verdicts])
         /\ Len(collected') = Len(collected) + 1
<1> DEFINE slots == IF receiveAllRank_ THEN Ranks ELSE {0}
           answer == [msgs |-> UNION {{response[i].size, response[i].body} : i \in slots},
                      verdict |-> Aggregate(slots)]
<1>1. collected' = Append(collected, answer)
  BY DEF Parse
<1>2. answer.msgs \in SUBSET Nat
  <2>1. \A i \in slots : response[i].size \in Nat /\ response[i].body \in Nat
    BY RanksType DEF ResponseType
  <2> QED BY <2>1
<1>3. answer.verdict \in Verdicts
  BY DEF Aggregate, Verdicts
<1>4. answer \in [msgs : SUBSET Nat, verdict : Verdicts]
  BY <1>2, <1>3
<1> HIDE DEF answer
<1> QED
  BY <1>1, <1>4 DEF ResponseType

(* What Handle reads of a request it has received.                         *)
LEMMA HandleReads ==
  ASSUME RequestType, ResponseType, NEW s \in Ranks, NEW v \in Verdicts, Handle(s, v)
  PROVE  received[s][handled[s] + 1].body \in Nat
<1>1. received[s] \in Seq([size : Nat, body : Nat])
  BY DEF RequestType
<1>2. handled[s] \in Nat
  BY DEF ResponseType
<1>3. handled[s] < Len(received[s])
  BY DEF Handle
<1>4. handled[s] + 1 \in 1 .. Len(received[s])
  BY <1>1, <1>2, <1>3
<1>5. received[s][handled[s] + 1] \in [size : Nat, body : Nat]
  BY <1>1, <1>4, ElementOfSeq
<1> QED
  BY <1>5

LEMMA ReceiveStepInv ==
  ASSUME ResponseInv, ReceiveStep
  PROVE  ResponseInv'
<1> USE RanksType
<1>0. /\ ResponseType /\ (receiver = "parse" => ri = 0)
      /\ \A r \in Ranks : ResponseToken(r) /\ ResponseFlow(r)
  BY DEF ResponseInv
<1>1. CASE WaitOnConsume
  <2>1. responseConsume[ri] = 1
    BY <1>0, <1>1 DEF WaitOnConsume, ResponseType
  <2>2. responseConsume' \in [Ranks -> {0, 1}] /\ ri' \in Ranks
    BY <1>0, <1>1, <2>1, NextIndex DEF WaitOnConsume, ResponseType, Down
  <2>3. ResponseType'
    BY <1>0, <1>1, <2>2 DEF ResponseType, WaitOnConsume, workerVars
  <2>4. ASSUME NEW r \in Ranks PROVE ResponseToken(r)' /\ ResponseFlow(r)'
    <3>1. responseConsume'[r] = IF r = ri THEN 0 ELSE responseConsume[r]
      BY <1>0, <1>1, <2>1 DEF WaitOnConsume, ResponseType, Down
    <3>2. ReceiverHolds(r)' <=> r = ri \/ ReceiverHolds(r)
      BY <1>0, <1>1, NextIndex DEF WaitOnConsume, ResponseType, ReceiverHolds
    <3>3. ResponseToken(r) /\ ResponseFlow(r) /\ receiver' # "signal" /\ receiver # "signal"
      BY <1>0, <1>1 DEF WaitOnConsume
    <3>4. /\ UNCHANGED <<collected, responseProduce, outcome, handled, worker>>
          /\ WorkerHolds(r)' = WorkerHolds(r) /\ Answered(r)' = Answered(r)
      BY <1>1 DEF WaitOnConsume, workerVars, WorkerHolds, Answered
    <3> QED
      BY <2>1, <3>1, <3>2, <3>3, <3>4 DEF ResponseToken, ResponseFlow, Exclusive
  <2>5. receiver' = "parse" => ri' = 0
    BY <1>0, <1>1, NextIndex DEF WaitOnConsume, ResponseType
  <2> QED BY <2>3, <2>4, <2>5 DEF ResponseInv
<1>2. CASE Parse
  <2>5. /\ collected' \in Seq([msgs : SUBSET Nat, verdict : Verdicts])
        /\ Len(collected') = Len(collected) + 1 /\ Len(collected) \in Nat
    <3>1. Len(collected) \in Nat
      BY <1>0 DEF ResponseType
    <3> QED BY <1>0, <1>2, <3>1, ParseCollects
  <2>6. ResponseType'
    BY <1>0, <1>2, <2>5 DEF ResponseType, Parse, workerVars
  <2>7. ASSUME NEW r \in Ranks PROVE ResponseToken(r)' /\ ResponseFlow(r)'
    <3>1. ReceiverHolds(r) /\ ReceiverHolds(r)' /\ ResponseToken(r) /\ ResponseFlow(r)
      BY <1>0, <1>2 DEF Parse, ReceiverHolds, ResponseType
    <3>2. /\ UNCHANGED <<responseProduce, responseConsume, outcome, handled, worker>>
          /\ WorkerHolds(r)' = WorkerHolds(r) /\ Answered(r)' = Answered(r)
      BY <1>2 DEF Parse, workerVars, WorkerHolds, Answered
    <3>3. receiver = "parse" /\ receiver' = "signal"
      BY <1>2 DEF Parse
    <3> QED
      BY <2>5, <3>1, <3>2, <3>3 DEF ResponseToken, ResponseFlow, Exclusive
  <2> QED BY <1>2, <2>6, <2>7 DEF ResponseInv, Parse
<1>3. CASE SignalProduce
  <2>1. ReceiverHolds(ri) /\ responseProduce[ri] = 0
    BY <1>0, <1>3 DEF SignalProduce, ResponseType, ResponseToken, Exclusive, ReceiverHolds
  <2>2. responseProduce' \in [Ranks -> {0, 1}] /\ ri' \in Ranks
    BY <1>0, <1>3, <2>1, NextIndex DEF SignalProduce, ResponseType, Up
  <2>3. ResponseType'
    BY <1>0, <1>3, <2>2 DEF ResponseType, SignalProduce, workerVars
  <2>4. ASSUME NEW r \in Ranks PROVE ResponseToken(r)' /\ ResponseFlow(r)'
    <3>1. responseProduce'[r] = IF r = ri THEN 1 ELSE responseProduce[r]
      BY <1>0, <1>3, <2>1 DEF SignalProduce, ResponseType, Up
    <3>2. ReceiverHolds(r)' <=> r # ri /\ ReceiverHolds(r)
      <4>1. /\ ri' = IF ri + 1 = N THEN 0 ELSE ri + 1
            /\ receiver = "signal" /\ receiver' = IF ri + 1 = N THEN "wait" ELSE "signal"
        BY <1>0, <1>3, NextIndex DEF SignalProduce, ResponseType
      <4>2. ri \in 0 .. N - 1 /\ r \in 0 .. N - 1
        BY <1>0 DEF ResponseType
      <4> QED BY <4>1, <4>2 DEF ReceiverHolds
    <3>3. ResponseToken(r) /\ ResponseFlow(r) /\ receiver = "signal"
      BY <1>0, <1>3 DEF SignalProduce
    <3>4. /\ UNCHANGED <<collected, responseConsume, outcome, handled, worker>>
          /\ WorkerHolds(r)' = WorkerHolds(r) /\ Answered(r)' = Answered(r)
      BY <1>3 DEF SignalProduce, workerVars, WorkerHolds, Answered
    <3>5. ReceiverHolds(r)' => receiver' = "signal"
      BY <1>0, <1>3, NextIndex DEF SignalProduce, ReceiverHolds, ResponseType
    <3> QED
      BY <2>1, <3>1, <3>2, <3>3, <3>4, <3>5 DEF ResponseToken, ResponseFlow, Exclusive
  <2> QED BY <1>3, <2>3, <2>4 DEF ResponseInv, SignalProduce
<1> QED
  BY <1>1, <1>2, <1>3 DEF ReceiveStep

LEMMA WorkStepInv ==
  ASSUME RequestType, HandledReceived, ResponseInv, NEW s \in Ranks, WorkStep(s)
  PROVE  ResponseInv'
<1>0. /\ ResponseType /\ (receiver = "parse" => ri = 0)
      /\ \A r \in Ranks : ResponseToken(r) /\ ResponseFlow(r)
  BY DEF ResponseInv
<1>a. handled \in [Ranks -> Nat]
  BY <1>0 DEF ResponseType
<1>b. outcome \in [Ranks -> Seq([msg : Nat, verdict : Verdicts])]
  BY <1>0 DEF ResponseType
<1>c. worker \in [Ranks -> {"idle", "acquire", "size", "body", "release"}]
  BY <1>0 DEF ResponseType
<1>d. responseProduce \in [Ranks -> {0, 1}] /\ responseConsume \in [Ranks -> {0, 1}]
  BY <1>0 DEF ResponseType
<1>e. response \in [Ranks -> [size : Nat, body : Nat, verdict : Verdicts]]
  BY <1>0 DEF ResponseType
<1>1. ASSUME NEW v \in Verdicts, Handle(s, v)
      PROVE  ResponseInv'
  <2> DEFINE m == received[s][handled[s] + 1].body
  <2>1. m \in Nat
    BY <1>0, <1>1, HandleReads
  <2>2. handled' = [handled EXCEPT ![s] = handled[s] + 1] /\ handled' \in [Ranks -> Nat]
    BY <1>1, <1>a DEF Handle, Up
  <2>3. UNCHANGED <<receiverVars, receiveAllRank_, response, responseProduce, responseConsume>>
    BY <1>1 DEF Handle
  <2>4. CASE m \in Silent
    <3>1. UNCHANGED <<worker, outcome>>
      BY <1>1, <2>4 DEF Handle
    <3>2. ResponseType'
      BY <1>0, <2>2, <2>3, <3>1 DEF ResponseType, receiverVars
    <3>3. ASSUME NEW r \in Ranks PROVE ResponseToken(r)' /\ ResponseFlow(r)'
      <4>1. /\ handled'[r] \in Nat /\ handled[r] \in Nat /\ handled'[r] >= handled[r]
            /\ Len(outcome[r]) \in Nat
        BY <1>a, <1>b, <2>2
      <4>2. ResponseToken(r) /\ ResponseFlow(r)
        BY <1>0
      <4> QED
        <5>1. /\ ReceiverHolds(r)' = ReceiverHolds(r) /\ WorkerHolds(r)' = WorkerHolds(r)
              /\ Answered(r)' = Answered(r)
          BY <2>3, <3>1 DEF ReceiverHolds, WorkerHolds, Answered, receiverVars
        <5>2. ResponseToken(r)'
          BY <2>3, <4>2, <5>1 DEF ResponseToken
        <5>3. (Len(outcome[r]) <= handled[r])'
          BY <3>1, <4>1, <4>2 DEF ResponseFlow
        <5> QED
          BY <2>3, <3>1, <4>2, <5>1, <5>2, <5>3 DEF ResponseFlow, receiverVars
    <3> QED BY <1>0, <2>3, <3>2, <3>3 DEF ResponseInv, receiverVars
  <2>5. CASE m \notin Silent
    <3> DEFINE new == [msg |-> m, verdict |-> v]
    <3>1. /\ worker[s] = "idle" /\ worker' = [worker EXCEPT ![s] = "acquire"]
          /\ outcome' = [outcome EXCEPT ![s] = Append(outcome[s], new)]
      BY <1>1, <2>5 DEF Handle
    <3>2. new \in [msg : Nat, verdict : Verdicts]
      BY <2>1
    <3> HIDE DEF new
    <3>3. outcome' \in [Ranks -> Seq([msg : Nat, verdict : Verdicts])]
      <4>1. Append(outcome[s], new) \in Seq([msg : Nat, verdict : Verdicts])
        BY <1>b, <3>2, AppendProperties
      <4> QED BY <1>b, <3>1, <4>1
    <3>4. ResponseType'
      BY <1>0, <2>2, <2>3, <3>1, <3>3 DEF ResponseType, receiverVars
    <3>5. ASSUME NEW r \in Ranks PROVE ResponseToken(r)' /\ ResponseFlow(r)'
      <4>1. ResponseToken(r) /\ ResponseFlow(r)
        BY <1>0
      <4>2. outcome[r] \in Seq([msg : Nat, verdict : Verdicts]) /\ handled[r] \in Nat
        BY <1>0 DEF ResponseType
      <4>3. CASE r = s
        <5>1. worker'[r] = "acquire" /\ handled'[r] = handled[r] + 1
          BY <1>0, <2>2, <3>1, <4>3 DEF ResponseType
        <5>2. Len(outcome'[r]) = Len(outcome[r]) + 1 /\ Len(outcome[r]) \in Nat
          BY <1>0, <3>1, <3>2, <4>2, <4>3 DEF ResponseType
        <5>3. Answered(r)' = Answered(r) /\ ~WorkerHolds(r) /\ ~WorkerHolds(r)'
          BY <3>1, <4>3, <5>1, <5>2 DEF Answered, WorkerHolds
        <5> QED
          <6>1. ReceiverHolds(r)' = ReceiverHolds(r)
            BY <2>3 DEF ReceiverHolds, receiverVars
          <6>2. ResponseToken(r)'
            BY <2>3, <4>1, <5>3, <6>1 DEF ResponseToken, Exclusive
          <6> QED
            BY <2>3, <4>1, <4>2, <5>1, <5>2, <5>3, <6>1, <6>2 DEF ResponseFlow, receiverVars
      <4>4. CASE r # s
        <5>1. /\ worker'[r] = worker[r] /\ handled'[r] = handled[r] /\ outcome'[r] = outcome[r]
          BY <1>0, <2>2, <3>1, <4>4 DEF ResponseType
        <5> QED
          BY <2>3, <4>1, <5>1 DEF ResponseToken, ResponseFlow, ReceiverHolds, WorkerHolds,
             Answered, receiverVars
      <4> QED BY <4>3, <4>4
    <3> QED BY <1>0, <2>3, <3>4, <3>5 DEF ResponseInv, receiverVars
  <2> QED BY <2>4, <2>5
<1>2. ASSUME AcquireResponse(s)
      PROVE  ResponseInv'
  <2>1. responseProduce[s] = 1
    BY <1>2, <1>d DEF AcquireResponse
  <2>2. ResponseType'
    <3>1. responseProduce' \in [Ranks -> {0, 1}]
      BY <1>2, <1>d, <2>1 DEF AcquireResponse, Down
    <3>2. worker' \in [Ranks -> {"idle", "acquire", "size", "body", "release"}]
      BY <1>2, <1>c DEF AcquireResponse
    <3> QED BY <1>0, <1>2, <3>1, <3>2 DEF ResponseType, AcquireResponse, receiverVars
  <2>3. ASSUME NEW r \in Ranks PROVE ResponseToken(r)' /\ ResponseFlow(r)'
    <3>1. /\ responseProduce'[r] = IF r = s THEN 0 ELSE responseProduce[r]
          /\ WorkerHolds(r)' <=> r = s \/ WorkerHolds(r)
          /\ worker'[r] = "idle" <=> worker[r] = "idle"
      BY <1>2, <1>c, <1>d, <2>1 DEF AcquireResponse, Down, WorkerHolds
    <3>2. UNCHANGED <<receiver, ri, collected, responseConsume, handled, outcome>>
      BY <1>2 DEF AcquireResponse, receiverVars
    <3>3. ReceiverHolds(r)' = ReceiverHolds(r) /\ Answered(r)' = Answered(r)
      BY <3>1, <3>2 DEF ReceiverHolds, Answered
    <3> QED
      BY <1>0, <2>1, <3>1, <3>2, <3>3 DEF ResponseToken, ResponseFlow, Exclusive
  <2> QED BY <1>0, <1>2, <2>2, <2>3 DEF ResponseInv, AcquireResponse, receiverVars
<1>3. ASSUME WriteSize(s) \/ WriteBody(s)
      PROVE  ResponseInv'
  <2>1. Result(s) \in [msg : Nat, verdict : Verdicts]
    <3>1. Len(outcome[s]) > 0
      BY <1>0, <1>3 DEF WriteSize, WriteBody, ResponseFlow
    <3>2. outcome[s] \in Seq([msg : Nat, verdict : Verdicts])
      BY <1>b
    <3>3. Len(outcome[s]) \in 1 .. Len(outcome[s])
      BY <3>1, <3>2
    <3> QED BY <3>2, <3>3, ElementOfSeq DEF Result
  <2>2. Slot(s) \in Ranks
    BY RanksType DEF Slot
  <2>3. response' \in [Ranks -> [size : Nat, body : Nat, verdict : Verdicts]]
    <3>1. CASE WriteSize(s)
      <4>1. response' = [response EXCEPT ![Slot(s)].size = Result(s).msg]
        BY <3>1 DEF WriteSize
      <4>2. Result(s).msg \in Nat
        BY <2>1
      <4> QED BY <1>e, <2>2, <4>1, <4>2
    <3>2. CASE WriteBody(s)
      <4>1. response' = [response EXCEPT ![Slot(s)] =
                          [size |-> response[Slot(s)].size, body |-> Result(s).msg, verdict |-> Result(s).verdict]]
        BY <1>e, <2>2, <3>2 DEF WriteBody
      <4>2. [size |-> response[Slot(s)].size, body |-> Result(s).msg, verdict |-> Result(s).verdict]
              \in [size : Nat, body : Nat, verdict : Verdicts]
        BY <1>e, <2>1, <2>2
      <4> QED BY <1>e, <2>2, <4>1, <4>2
    <3> QED BY <1>3, <3>1, <3>2
  <2>4. ResponseType'
    <3>1. worker' \in [Ranks -> {"idle", "acquire", "size", "body", "release"}]
      BY <1>3, <1>c DEF WriteSize, WriteBody
    <3> QED BY <1>0, <1>3, <2>3, <3>1 DEF ResponseType, WriteSize, WriteBody, receiverVars
  <2>5. ASSUME NEW r \in Ranks PROVE ResponseToken(r)' /\ ResponseFlow(r)'
    <3>1. /\ WorkerHolds(r)' = WorkerHolds(r)
          /\ worker'[r] = "idle" <=> worker[r] = "idle"
      BY <1>3, <1>c DEF WriteSize, WriteBody, WorkerHolds
    <3>2. UNCHANGED <<receiver, ri, collected, responseProduce, responseConsume, handled, outcome>>
      BY <1>3 DEF WriteSize, WriteBody, receiverVars
    <3>3. ReceiverHolds(r)' = ReceiverHolds(r) /\ Answered(r)' = Answered(r)
      BY <3>1, <3>2 DEF ReceiverHolds, Answered
    <3> QED
      BY <1>0, <3>1, <3>2, <3>3 DEF ResponseToken, ResponseFlow
  <2> QED BY <1>0, <1>3, <2>4, <2>5 DEF ResponseInv, WriteSize, WriteBody, receiverVars
<1>4. ASSUME ReleaseResponse(s)
      PROVE  ResponseInv'
  <2>1. responseConsume[s] = 0 /\ WorkerHolds(s)
    BY <1>0, <1>4 DEF ReleaseResponse, ResponseToken, Exclusive, WorkerHolds
  <2>2. ResponseType'
    <3>1. responseConsume' \in [Ranks -> {0, 1}]
      BY <1>4, <1>d, <2>1 DEF ReleaseResponse, Up
    <3>2. worker' \in [Ranks -> {"idle", "acquire", "size", "body", "release"}]
      BY <1>4, <1>c DEF ReleaseResponse
    <3> QED BY <1>0, <1>4, <3>1, <3>2 DEF ResponseType, ReleaseResponse, receiverVars
  <2>3. ASSUME NEW r \in Ranks PROVE ResponseToken(r)' /\ ResponseFlow(r)'
    <3>1. /\ responseConsume'[r] = IF r = s THEN 1 ELSE responseConsume[r]
          /\ WorkerHolds(r)' <=> r # s /\ WorkerHolds(r)
          /\ worker'[r] = IF r = s THEN "idle" ELSE worker[r]
      BY <1>4, <1>c, <1>d, <2>1 DEF ReleaseResponse, Up, WorkerHolds
    <3>2. UNCHANGED <<receiver, ri, collected, responseProduce, handled, outcome>>
      BY <1>4 DEF ReleaseResponse, receiverVars
    <3>3. ReceiverHolds(r)' = ReceiverHolds(r)
      BY <3>2 DEF ReceiverHolds
    <3>4. Answered(r)' = IF r = s THEN Answered(r) + 1 ELSE Answered(r)
      <4>1. Len(outcome[r]) \in Nat
        BY <1>b
      <4>2. r = s => worker[r] = "release"
        BY <1>4 DEF ReleaseResponse
      <4> QED BY <3>1, <3>2, <4>1, <4>2 DEF Answered
    <3> QED
      BY <1>0, <2>1, <3>1, <3>2, <3>3, <3>4 DEF ResponseToken, ResponseFlow, Exclusive
  <2> QED BY <1>0, <1>4, <2>2, <2>3 DEF ResponseInv, ReleaseResponse, receiverVars
<1> QED
  BY <1>1, <1>2, <1>3, <1>4 DEF WorkStep

LEMMA ResponseStep ==
  ASSUME RequestInv, HandledReceived, ResponseInv, [Next]_vars
  PROVE  ResponseInv'
<1>1. CASE StartSend \/ WriteFails \/ SendStep
  BY <1>1, ResponseFrame DEF StartSend, WriteFails, SendStep, WaitOnProduce, WriteRequestSize,
     WriteRequestBody, ReleaseAfterFailure, SignalConsume, responseSide
<1>2. CASE \E r \in Ranks : ListenStep(r)
  <2>1. PICK r \in Ranks : ListenStep(r)
    BY <1>2
  <2> QED
    BY <2>1, ResponseFrame DEF ListenStep, AcquireRequest, ReadSize, ReadBody, responseSide
<1>3. CASE ReceiveStep
  BY <1>3, ReceiveStepInv
<1>4. CASE \E r \in Ranks : WorkStep(r)
  BY <1>4, WorkStepInv DEF RequestInv
<1>5. CASE UNCHANGED vars
  BY <1>5, ResponseFrame DEF vars, responseSide
<1> QED
  BY <1>1, <1>2, <1>3, <1>4, <1>5 DEF Next

LEMMA HandledStep ==
  ASSUME RequestInv, HandledReceived, ResponseInv, [Next]_vars
  PROVE  HandledReceived'
<1>0. /\ received \in [Ranks -> Seq([size : Nat, body : Nat])] /\ handled \in [Ranks -> Nat]
      /\ \A r \in Ranks : handled[r] \in Nat /\ Len(received[r]) \in Nat
  BY DEF RequestInv, ResponseInv, RequestType, ResponseType
<1>1. CASE UNCHANGED <<handled, received>>
  BY <1>1 DEF HandledReceived
<1>2. ASSUME NEW s \in Ranks, ReadBody(s)
      PROVE  HandledReceived'
  <2> DEFINE m == [size |-> length[s], body |-> request.body]
  <2>1. m \in [size : Nat, body : Nat]
    BY DEF RequestInv, RequestType
  <2>2. received' = [received EXCEPT ![s] = Append(received[s], m)] /\ handled' = handled
    BY <1>2 DEF ReadBody, workerVars
  <2> HIDE DEF m
  <2>3. \A r \in Ranks : Len(received'[r]) \in Nat /\ Len(received[r]) <= Len(received'[r])
    BY <1>0, <2>1, <2>2
  <2> QED
    BY <1>0, <2>2, <2>3 DEF HandledReceived
<1>3. ASSUME NEW s \in Ranks, NEW v \in Verdicts, Handle(s, v)
      PROVE  HandledReceived'
  <2>1. /\ handled' = [handled EXCEPT ![s] = handled[s] + 1] /\ received' = received
        /\ handled[s] < Len(received[s])
    BY <1>3 DEF Handle, Up, listenerVars
  <2> QED
    BY <1>0, <2>1 DEF HandledReceived
<1>4. CASE StartSend \/ WriteFails \/ SendStep \/ ReceiveStep \/ UNCHANGED vars
  BY <1>1, <1>4 DEF StartSend, WriteFails, SendStep, WaitOnProduce, WriteRequestSize,
     WriteRequestBody, ReleaseAfterFailure, SignalConsume, ReceiveStep, WaitOnConsume, Parse,
     SignalProduce, listenerVars, workerVars, vars
<1>5. ASSUME NEW s \in Ranks,
             \/ AcquireRequest(s) \/ ReadSize(s) \/ AcquireResponse(s) \/ WriteSize(s)
             \/ WriteBody(s) \/ ReleaseResponse(s)
      PROVE  HandledReceived'
  BY <1>1, <1>5 DEF AcquireRequest, ReadSize, AcquireResponse, WriteSize, WriteBody,
     ReleaseResponse, listenerVars, workerVars
<1> QED
  BY <1>2, <1>3, <1>4, <1>5 DEF Next, ListenStep, WorkStep

ChannelInv == RequestInv /\ HandledReceived /\ ResponseInv

LEMMA ChannelInvariant == SafeSpec => []ChannelInv
<1>1. Init => ChannelInv
  BY RequestInit, ResponseInit DEF ChannelInv
<1>2. ChannelInv /\ [Next]_vars => ChannelInv'
  BY RequestStep, ResponseStep, HandledStep DEF ChannelInv
<1> QED
  BY <1>1, <1>2, PTL DEF SafeSpec
-----------------------------------------------------------------------------
(* AnswersInOrder needs more: no more is sent than MaxRequests, what each  *)
(* rank's outcomes are about, and what is in the slots of the ranks whose  *)
(* answer counts, from where their token is.                               *)
SentBound == sent <= MaxRequests /\ (sender \in {"wait", "size", "body"} => sent < MaxRequests)

IsTurn(m, k) == m \in 1 .. MaxRequests /\ m \notin Silent /\ Turn(m) = k

OutcomesInOrder(r) ==
  /\ Len(outcome[r]) = Turn(handled[r])
  /\ \A k \in 1 .. Len(outcome[r]) : IsTurn(outcome[r][k].msg, k)

Holds(slot, answer) == slot.size = answer.msg /\ slot.body = answer.msg /\ slot.verdict = answer.verdict

(* The rank has put its next answer into its slot, and it is not collected. *)
HasWritten(r) ==
  \/ worker[r] = "release" \/ responseConsume[r] = 1
  \/ ReceiverHolds(r) /\ receiver # "signal"

SlotWritten(r) ==
  LET k == Len(collected) + 1 IN
  /\ worker[r] \in {"size", "body"} => Counts(r)
  /\ Counts(r) /\ worker[r] = "body" => response[r].size = outcome[r][k].msg
  /\ Counts(r) /\ HasWritten(r) => Holds(response[r], outcome[r][k])

CollectedAt(k) ==
  /\ collected[k].msgs = {Answerable(k)}
  /\ collected[k].verdict = "success" <=>
       \A r \in Ranks : Counts(r) => outcome[r][k].verdict = "success"
  /\ collected[k].verdict = "invalid" <=>
       \E r \in Ranks : Counts(r) /\ outcome[r][k].verdict = "invalid"

AnswerInv ==
  /\ SentBound
  /\ \A r \in Ranks : OutcomesInOrder(r) /\ SlotWritten(r)
  /\ \A k \in 1 .. Len(collected) : CollectedAt(k)

LEMMA TurnType ==
  ASSUME NEW m \in Nat
  PROVE  IsFiniteSet({i \in 1 .. m : i \notin Silent}) /\ Turn(m) \in Nat
<1>1. IsFiniteSet(1 .. m)
  BY FS_Interval
<1>2. IsFiniteSet({i \in 1 .. m : i \notin Silent})
  BY <1>1, FS_Subset
<1> QED BY <1>2, FS_CardinalityType DEF Turn

LEMMA TurnNext ==
  ASSUME NEW m \in Nat
  PROVE  Turn(m + 1) = IF m + 1 \in Silent THEN Turn(m) ELSE Turn(m) + 1
<1> DEFINE S == {i \in 1 .. m : i \notin Silent}
           T == {i \in 1 .. m + 1 : i \notin Silent}
<1>1. IsFiniteSet(S) /\ m + 1 \notin S
  BY TurnType
<1>2. T = IF m + 1 \in Silent THEN S ELSE S \cup {m + 1}
  OBVIOUS
<1> HIDE DEF S, T
<1>3. Cardinality(T) = IF m + 1 \in Silent THEN Cardinality(S) ELSE Cardinality(S) + 1
  BY <1>1, <1>2, FS_AddElement
<1> QED BY <1>3 DEF Turn, S, T

LEMMA TurnGrows ==
  ASSUME NEW m \in Nat, NEW n \in Nat, m < n, n \notin Silent
  PROVE  Turn(m) # Turn(n)
<1> DEFINE S == {i \in 1 .. m : i \notin Silent}
           T == {i \in 1 .. n : i \notin Silent}
<1>1. IsFiniteSet(T) /\ S \in SUBSET T /\ n \in T /\ n \notin S
  BY TurnType
<1> HIDE DEF S, T
<1>2. Cardinality(S) # Cardinality(T)
  BY <1>1, FS_Subset
<1> QED BY <1>2 DEF Turn, S, T

(* Answerable(k) is the k-th request that is answered, if there is one.    *)
LEMMA AnswerableIs ==
  ASSUME NEW m, NEW k, IsTurn(m, k)
  PROVE  Answerable(k) = m
<1>1. MaxRequests \in Nat
  BY ChannelAssumption
<1>2. \A i, j \in 1 .. MaxRequests : i \notin Silent /\ j \notin Silent /\ Turn(i) = Turn(j) => i = j
  <2> SUFFICES ASSUME NEW i \in 1 .. MaxRequests, NEW j \in 1 .. MaxRequests,
                      i \notin Silent, j \notin Silent, Turn(i) = Turn(j)
               PROVE  i = j
    OBVIOUS
  <2>1. i \in Nat /\ j \in Nat
    BY <1>1
  <2>2. ~ (i < j) /\ ~ (j < i)
    BY <2>1, TurnGrows
  <2> QED BY <2>1, <2>2
<1>3. m \in 1 .. MaxRequests /\ m \notin Silent /\ Turn(m) = k
  BY DEF IsTurn
<1> HIDE DEF Turn
<1> DEFINE a == Answerable(k)
<1>4. a \in 1 .. MaxRequests /\ a \notin Silent /\ Turn(a) = k
  BY <1>3, Zenon DEF Answerable
<1> QED BY <1>2, <1>3, <1>4

LEMMA SentBoundStep ==
  ASSUME RequestType, SentBound, [Next]_vars
  PROVE  SentBound'
<1>1. sent \in Nat /\ MaxRequests \in Nat
  BY ChannelAssumption DEF RequestType
<1>2. CASE StartSend \/ WriteFails \/ SendStep
  BY <1>1, <1>2 DEF StartSend, WriteFails, SendStep, WaitOnProduce, WriteRequestSize,
     WriteRequestBody, ReleaseAfterFailure, SignalConsume, SentBound
<1>3. CASE \/ ReceiveStep \/ \E r \in Ranks : ListenStep(r) \/ WorkStep(r)
           \/ UNCHANGED vars
  <2>1. UNCHANGED <<sent, sender>>
    BY <1>3 DEF ReceiveStep, WaitOnConsume, Parse, SignalProduce, ListenStep, AcquireRequest,
       ReadSize, ReadBody, WorkStep, Handle, AcquireResponse, WriteSize, WriteBody,
       ReleaseResponse, senderVars, vars
  <2> QED BY <2>1 DEF SentBound
<1> QED BY <1>2, <1>3 DEF Next

(* What Handle takes is the next request, and it is one that was sent.     *)
LEMMA HandlesNext ==
  ASSUME RequestInv, HandledReceived, ResponseInv, SentBound,
         NEW s \in Ranks, NEW v \in Verdicts, Handle(s, v)
  PROVE  /\ received[s][handled[s] + 1].body = handled[s] + 1
         /\ handled[s] \in Nat /\ handled[s] + 1 \in 1 .. MaxRequests
<1>1. /\ received[s] \in Seq([size : Nat, body : Nat]) /\ sent \in Nat
      /\ RequestFlow(s) /\ RequestToken(s)
  BY DEF RequestInv, RequestType
<1>2. handled[s] \in Nat /\ MaxRequests \in Nat
  BY ChannelAssumption DEF ResponseInv, ResponseType
<1>3. handled[s] < Len(received[s])
  BY DEF Handle
<1>4. handled[s] + 1 \in 1 .. Len(received[s])
  BY <1>1, <1>2, <1>3
<1>5. received[s][handled[s] + 1] = [size |-> handled[s] + 1, body |-> handled[s] + 1]
  BY <1>1, <1>4 DEF RequestFlow, Whole
<1>6. Len(received[s]) <= sent
  <2>1. Len(received[s]) \in Nat
    BY <1>1
  <2>2. Len(received[s]) \in {sent, sent - 1}
    BY <1>1 DEF RequestToken, RequestFlow, Exclusive
  <2> QED BY <1>1, <2>1, <2>2
<1>7. handled[s] + 1 <= MaxRequests
  <2>1. Len(received[s]) \in Nat /\ sent <= MaxRequests
    BY <1>1 DEF SentBound
  <2> QED BY <1>1, <1>2, <1>3, <1>6, <2>1
<1> QED BY <1>2, <1>5, <1>7

(* How a request that is answered extends the outcomes of its rank.        *)
LEMMA HandleAppends ==
  ASSUME RequestInv, HandledReceived, ResponseInv, SentBound,
         NEW s \in Ranks, NEW v \in Verdicts, Handle(s, v)
  PROVE  \/ UNCHANGED <<worker, outcome>> /\ handled[s] + 1 \in Silent
         \/ /\ worker[s] = "idle" /\ worker' = [worker EXCEPT ![s] = "acquire"]
            /\ handled[s] + 1 \notin Silent
            /\ Len(outcome'[s]) = Len(outcome[s]) + 1
            /\ outcome'[s][Len(outcome[s]) + 1].msg = handled[s] + 1
            /\ \A k \in 1 .. Len(outcome[s]) : outcome'[s][k] = outcome[s][k]
            /\ \A r \in Ranks : r # s => outcome'[r] = outcome[r]
<1> DEFINE m == received[s][handled[s] + 1].body
           new == [msg |-> m, verdict |-> v]
<1>1. m = handled[s] + 1 /\ m \in Nat
  BY HandlesNext
<1>2. CASE m \in Silent
  BY <1>1, <1>2 DEF Handle
<1>3. CASE m \notin Silent
  <2>1. /\ worker[s] = "idle" /\ worker' = [worker EXCEPT ![s] = "acquire"]
        /\ outcome' = [outcome EXCEPT ![s] = Append(outcome[s], new)]
    BY <1>3 DEF Handle
  <2>2. new \in [msg : Nat, verdict : Verdicts] /\ new.msg = handled[s] + 1
    BY <1>1
  <2>3. outcome \in [Ranks -> Seq([msg : Nat, verdict : Verdicts])]
    BY DEF ResponseInv, ResponseType
  <2> HIDE DEF new
  <2>4. outcome'[s] = Append(outcome[s], new) /\ \A r \in Ranks : r # s => outcome'[r] = outcome[r]
    BY <2>1, <2>3
  <2>5. /\ Len(outcome'[s]) = Len(outcome[s]) + 1
        /\ outcome'[s][Len(outcome[s]) + 1] = new
        /\ \A k \in 1 .. Len(outcome[s]) : outcome'[s][k] = outcome[s][k]
    <3>1. outcome[s] \in Seq([msg : Nat, verdict : Verdicts])
      BY <2>3
    <3> QED BY <2>2, <2>4, <3>1
  <2> QED BY <1>1, <1>3, <2>1, <2>2, <2>4, <2>5
<1> QED BY <1>2, <1>3

(* Every rank is done with what has been collected.                        *)
LEMMA CollectedIsDone ==
  ASSUME ResponseInv, NEW r \in Ranks
  PROVE  Len(collected) \in Nat /\ Len(outcome[r]) \in Nat /\ Len(collected) <= Len(outcome[r])
<1>1. Len(collected) \in Nat /\ Len(outcome[r]) \in Nat /\ ResponseToken(r) /\ ResponseFlow(r)
  BY DEF ResponseInv, ResponseType
<1>2. Answered(r) \in {Len(collected), Len(collected) + 1}
  BY <1>1 DEF ResponseToken, ResponseFlow, Exclusive
<1>3. Answered(r) \in {Len(outcome[r]), Len(outcome[r]) - 1}
  BY DEF Answered
<1> QED BY <1>1, <1>2, <1>3

LEMMA OutcomesStep ==
  ASSUME RequestInv, HandledReceived, ResponseInv, SentBound, [Next]_vars,
         NEW r \in Ranks, OutcomesInOrder(r)
  PROVE  OutcomesInOrder(r)'
<1>1. ASSUME NEW s \in Ranks, NEW v \in Verdicts, Handle(s, v)
      PROVE  OutcomesInOrder(r)'
  <2>1. handled \in [Ranks -> Nat] /\ handled' = [handled EXCEPT ![s] = handled[s] + 1]
    BY <1>1 DEF Handle, Up, ResponseInv, ResponseType
  <2>2. handled[s] \in Nat /\ handled[s] + 1 \in 1 .. MaxRequests
    BY <1>1, HandlesNext
  <2>3. handled'[s] = handled[s] + 1 /\ (r # s => handled'[r] = handled[r])
    BY <2>1
  <2>4. Turn(handled[s] + 1) = IF handled[s] + 1 \in Silent THEN Turn(handled[s]) ELSE Turn(handled[s]) + 1
    BY <2>2, TurnNext
  <2>5. CASE UNCHANGED <<worker, outcome>> /\ handled[s] + 1 \in Silent
    BY <2>3, <2>4, <2>5 DEF OutcomesInOrder
  <2>6. CASE /\ handled[s] + 1 \notin Silent
             /\ Len(outcome'[s]) = Len(outcome[s]) + 1
             /\ outcome'[s][Len(outcome[s]) + 1].msg = handled[s] + 1
             /\ \A k \in 1 .. Len(outcome[s]) : outcome'[s][k] = outcome[s][k]
             /\ \A q \in Ranks : q # s => outcome'[q] = outcome[q]
    <3>1. CASE r # s
      BY <2>3, <2>6, <3>1 DEF OutcomesInOrder
    <3>2. CASE r = s
      <4>1. Len(outcome[s]) \in Nat /\ Len(outcome[s]) = Turn(handled[s])
        BY <3>2, CollectedIsDone DEF OutcomesInOrder
      <4>2. Turn(handled'[s]) = Len(outcome'[s])
        BY <2>3, <2>4, <2>6, <4>1
      <4>3. IsTurn(handled[s] + 1, Len(outcome[s]) + 1)
        BY <2>2, <2>4, <2>6, <4>1 DEF IsTurn
      <4>4. ASSUME NEW k \in 1 .. Len(outcome'[s])
            PROVE  IsTurn(outcome'[s][k].msg, k)
        <5>1. CASE k \in 1 .. Len(outcome[s])
          BY <2>6, <3>2, <5>1 DEF OutcomesInOrder
        <5>2. CASE k = Len(outcome[s]) + 1
          BY <2>6, <4>3, <5>2
        <5> QED BY <2>6, <4>1, <5>1, <5>2
      <4> QED BY <3>2, <4>2, <4>4 DEF OutcomesInOrder, IsTurn, Turn
    <3> QED BY <3>1, <3>2
  <2> QED BY <1>1, <2>5, <2>6, HandleAppends
<1>2. CASE UNCHANGED <<handled, outcome>>
  BY <1>2 DEF OutcomesInOrder
<1>3. CASE StartSend \/ WriteFails \/ SendStep \/ ReceiveStep \/ UNCHANGED vars
  BY <1>2, <1>3 DEF StartSend, WriteFails, SendStep, WaitOnProduce, WriteRequestSize,
     WriteRequestBody, ReleaseAfterFailure, SignalConsume, ReceiveStep, WaitOnConsume, Parse,
     SignalProduce, workerVars, vars
<1>4. ASSUME NEW s \in Ranks,
             \/ ListenStep(s) \/ AcquireResponse(s) \/ WriteSize(s) \/ WriteBody(s)
             \/ ReleaseResponse(s)
      PROVE  OutcomesInOrder(r)'
  BY <1>2, <1>4 DEF ListenStep, AcquireRequest, ReadSize, ReadBody, AcquireResponse, WriteSize,
     WriteBody, ReleaseResponse, workerVars
<1> QED BY <1>1, <1>3, <1>4 DEF Next, WorkStep

(* What WriteSize and WriteBody write is the next answer.                  *)
LEMMA WritesNext ==
  ASSUME ResponseInv, NEW s \in Ranks, WorkerHolds(s)
  PROVE  /\ Len(outcome[s]) = Len(collected) + 1
         /\ responseConsume[s] = 0 /\ ~ ReceiverHolds(s)
<1>1. Len(collected) \in Nat /\ Len(outcome[s]) \in Nat /\ ResponseToken(s) /\ ResponseFlow(s)
  BY DEF ResponseInv, ResponseType
<1>2. Answered(s) = Len(collected) /\ Answered(s) = Len(outcome[s]) - 1
  BY <1>1 DEF ResponseFlow, Answered, WorkerHolds
<1> QED BY <1>1, <1>2 DEF ResponseToken, Exclusive

LEMMA CountingSlot ==
  ASSUME NEW s \in Ranks, Counts(s)
  PROVE  Slot(s) = s
  BY DEF Counts, Slot

(* Steps that touch neither the slot nor what is to be in it.              *)
LEMMA SlotKept ==
  ASSUME NEW r \in Ranks, SlotWritten(r),
         UNCHANGED <<collected, receiveAllRank_>>, response'[r] = response[r],
         outcome'[r][Len(collected) + 1] = outcome[r][Len(collected) + 1],
         worker'[r] \in {"size", "body"} => worker'[r] = worker[r],
         HasWritten(r)' => HasWritten(r)
  PROVE  SlotWritten(r)'
<1>1. Counts(r)' = Counts(r)
  BY DEF Counts
<1> QED BY <1>1 DEF SlotWritten, Holds

LEMMA ReceiveKeepsSlots ==
  ASSUME ResponseInv, ReceiveStep, NEW r \in Ranks, SlotWritten(r)
  PROVE  SlotWritten(r)'
<1> USE RanksType
<1>0. ResponseType /\ ResponseToken(r) /\ ResponseFlow(r)
  BY DEF ResponseInv
<1>1. CASE WaitOnConsume
  <2>1. responseConsume[ri] = 1
    BY <1>0, <1>1 DEF WaitOnConsume, ResponseType
  <2>2. responseConsume'[r] = IF r = ri THEN 0 ELSE responseConsume[r]
    BY <1>0, <1>1, <2>1 DEF WaitOnConsume, ResponseType, Down
  <2>3. ReceiverHolds(r)' <=> r = ri \/ ReceiverHolds(r)
    <3>1. /\ ri' = IF ri + 1 = N THEN 0 ELSE ri + 1
          /\ receiver = "wait" /\ receiver' = IF ri + 1 = N THEN "parse" ELSE "wait"
      BY <1>0, <1>1, NextIndex DEF WaitOnConsume, ResponseType
    <3>2. ri \in 0 .. N - 1 /\ r \in 0 .. N - 1
      BY <1>0 DEF ResponseType
    <3> QED BY <3>1, <3>2 DEF ReceiverHolds
  <2>4. UNCHANGED <<collected, receiveAllRank_, response, outcome, worker>> /\ receiver # "signal"
    BY <1>1 DEF WaitOnConsume, workerVars
  <2>5. HasWritten(r)' => HasWritten(r)
    BY <2>1, <2>2, <2>3, <2>4 DEF HasWritten
  <2> QED BY <2>4, <2>5, SlotKept
<1>2. CASE Parse
  <2>1. ReceiverHolds(r)
    BY <1>2 DEF Parse, ReceiverHolds
  <2>2. responseConsume[r] = 0 /\ ~ WorkerHolds(r)
    BY <1>0, <2>1 DEF ResponseToken, Exclusive
  <2>3. UNCHANGED <<responseConsume, worker>> /\ receiver' = "signal"
    BY <1>2 DEF Parse, workerVars
  <2>4. ~ HasWritten(r)' /\ worker'[r] \notin {"size", "body"}
    BY <2>2, <2>3 DEF HasWritten, WorkerHolds
  <2> QED BY <2>4 DEF SlotWritten
<1>3. CASE SignalProduce
  <2>1. ReceiverHolds(r)' => receiver' = "signal"
    BY <1>0, <1>3, NextIndex DEF SignalProduce, ReceiverHolds, ResponseType
  <2>2. UNCHANGED <<collected, receiveAllRank_, response, responseConsume, outcome, worker>>
    BY <1>3 DEF SignalProduce, workerVars
  <2>3. HasWritten(r)' => HasWritten(r)
    BY <2>1, <2>2 DEF HasWritten
  <2> QED BY <2>2, <2>3, SlotKept
<1> QED BY <1>1, <1>2, <1>3 DEF ReceiveStep

LEMMA WorkKeepsSlots ==
  ASSUME RequestInv, HandledReceived, ResponseInv, SentBound,
         NEW s \in Ranks, WorkStep(s), NEW r \in Ranks, SlotWritten(r), SlotWritten(s)
  PROVE  SlotWritten(r)'
<1>0. ResponseType /\ ResponseToken(r) /\ ResponseFlow(r)
  BY DEF ResponseInv
<1>1. worker \in [Ranks -> {"idle", "acquire", "size", "body", "release"}]
  BY <1>0 DEF ResponseType
<1>2. response \in [Ranks -> [size : Nat, body : Nat, verdict : Verdicts]]
  BY <1>0 DEF ResponseType
<1>3. Len(collected) \in Nat /\ Len(outcome[r]) \in Nat /\ Len(collected) <= Len(outcome[r])
  BY CollectedIsDone
<1>4. ASSUME NEW v \in Verdicts, Handle(s, v)
      PROVE  SlotWritten(r)'
  <2>1. UNCHANGED <<receiver, ri, collected, receiveAllRank_, response, responseConsume>>
    BY <1>4 DEF Handle, receiverVars
  <2>2. ReceiverHolds(r)' = ReceiverHolds(r)
    BY <2>1 DEF ReceiverHolds
  <2>3. CASE UNCHANGED <<worker, outcome>>
    BY <2>1, <2>2, <2>3, SlotKept DEF HasWritten
  <2>4. CASE /\ worker[s] = "idle" /\ worker' = [worker EXCEPT ![s] = "acquire"]
             /\ \A k \in 1 .. Len(outcome[s]) : outcome'[s][k] = outcome[s][k]
             /\ \A q \in Ranks : q # s => outcome'[q] = outcome[q]
    <3>1. CASE r # s
      <4>1. worker'[r] = worker[r] /\ outcome'[r] = outcome[r]
        BY <1>1, <2>4, <3>1
      <4> QED BY <2>1, <2>2, <4>1, SlotKept DEF HasWritten
    <3>2. CASE r = s
      <4>1. worker'[r] = "acquire" /\ worker[r] = "idle"
        BY <1>1, <2>4, <3>2
      <4>2. HasWritten(r)' => HasWritten(r) /\ (responseConsume[r] = 1 \/ (ReceiverHolds(r) /\ receiver # "signal"))
        BY <2>1, <2>2, <4>1 DEF HasWritten
      <4>3. CASE HasWritten(r)'
        <5>1. Len(outcome[r]) = Len(collected) + 1
          BY <1>0, <4>1, <4>2, <4>3 DEF ResponseFlow, Answered
        <5>2. outcome'[r][Len(collected) + 1] = outcome[r][Len(collected) + 1]
          BY <1>3, <2>4, <3>2, <5>1
        <5> QED BY <2>1, <4>1, <4>2, <5>2, SlotKept
      <4>4. CASE ~ HasWritten(r)'
        BY <4>1, <4>4 DEF SlotWritten
      <4> QED BY <4>3, <4>4
    <3> QED BY <3>1, <3>2
  <2> QED BY <1>4, <2>3, <2>4, HandleAppends
<1>5. ASSUME AcquireResponse(s)
      PROVE  SlotWritten(r)'
  <2>1. /\ UNCHANGED <<receiver, ri, collected, receiveAllRank_, response, responseConsume, outcome>>
        /\ responseProduce[s] > 0
        /\ worker' = [worker EXCEPT ![s] = IF Counts(s) THEN "size" ELSE "release"]
    BY <1>5 DEF AcquireResponse, receiverVars, Counts
  <2>2. ReceiverHolds(r)' = ReceiverHolds(r) /\ Counts(r)' = Counts(r)
    BY <2>1 DEF ReceiverHolds, Counts
  <2>3. CASE r # s
    <3>1. worker'[r] = worker[r]
      BY <1>1, <2>1, <2>3
    <3> QED BY <2>1, <2>2, <3>1, SlotKept DEF HasWritten
  <2>4. CASE r = s
    <3>1. worker'[r] = IF Counts(r) THEN "size" ELSE "release"
      BY <1>1, <2>1, <2>4
    <3>2. responseConsume[r] = 0 /\ ~ ReceiverHolds(r)
      BY <1>0, <2>1, <2>4 DEF ResponseToken, Exclusive
    <3>3. Counts(r) => ~ HasWritten(r)'
      BY <2>1, <2>2, <3>1, <3>2 DEF HasWritten
    <3> QED BY <2>2, <3>1, <3>3 DEF SlotWritten
  <2> QED BY <2>3, <2>4
<1>6. ASSUME WriteSize(s) \/ WriteBody(s)
      PROVE  SlotWritten(r)'
  <2>1. /\ UNCHANGED <<receiver, ri, collected, receiveAllRank_, responseConsume, outcome>>
        /\ worker[s] \in {"size", "body"} /\ WorkerHolds(s)
    BY <1>6 DEF WriteSize, WriteBody, receiverVars, WorkerHolds
  <2>2. ReceiverHolds(r)' = ReceiverHolds(r) /\ Counts(r)' = Counts(r)
    BY <2>1 DEF ReceiverHolds, Counts
  <2>3. Counts(s) /\ Slot(s) = s
    BY <2>1, CountingSlot DEF SlotWritten
  <2>4. CASE r # s
    <3>1. worker'[r] = worker[r]
      BY <1>1, <1>6, <2>4 DEF WriteSize, WriteBody
    <3>2. response'[r] = response[r]
      BY <1>2, <1>6, <2>3, <2>4 DEF WriteSize, WriteBody
    <3> QED BY <2>1, <2>2, <3>1, <3>2, SlotKept DEF HasWritten
  <2>5. CASE r = s
    <3>1. Len(outcome[r]) = Len(collected) + 1 /\ responseConsume[r] = 0 /\ ~ ReceiverHolds(r)
      BY <2>1, <2>5, WritesNext
    <3>2. Result(r) = outcome[r][Len(collected) + 1]
      BY <3>1 DEF Result
    <3>3. CASE WriteSize(s)
      <4>1. worker'[r] = "body" /\ response'[r].size = Result(r).msg
        BY <1>1, <1>2, <2>3, <2>5, <3>3 DEF WriteSize
      <4>2. ~ HasWritten(r)'
        BY <2>1, <2>2, <3>1, <4>1 DEF HasWritten
      <4>3. response'[r].size = outcome'[r][Len(collected') + 1].msg
        BY <2>1, <3>2, <4>1
      <4> QED BY <2>2, <2>3, <2>5, <4>1, <4>2, <4>3 DEF SlotWritten
    <3>4. CASE WriteBody(s)
      <4>1. /\ worker[r] = "body" /\ worker'[r] = "release"
            /\ response'[r] = [size |-> response[r].size, body |-> Result(r).msg, verdict |-> Result(r).verdict]
        BY <1>1, <1>2, <2>3, <2>5, <3>4 DEF WriteBody
      <4>2. response[r].size = outcome[r][Len(collected) + 1].msg
        BY <2>3, <2>5, <4>1 DEF SlotWritten
      <4>3. Holds(response'[r], outcome[r][Len(collected) + 1])
        BY <3>2, <4>1, <4>2 DEF Holds
      <4> QED BY <2>1, <2>2, <2>3, <2>5, <4>1, <4>3 DEF SlotWritten
    <3> QED BY <1>6, <3>3, <3>4
  <2> QED BY <2>4, <2>5
<1>7. ASSUME ReleaseResponse(s)
      PROVE  SlotWritten(r)'
  <2>1. /\ UNCHANGED <<receiver, ri, collected, receiveAllRank_, response, outcome>>
        /\ worker[s] = "release" /\ worker' = [worker EXCEPT ![s] = "idle"]
        /\ responseConsume' = [responseConsume EXCEPT ![s] = responseConsume[s] + 1]
    BY <1>7 DEF ReleaseResponse, receiverVars, Up
  <2>2. ReceiverHolds(r)' = ReceiverHolds(r)
    BY <2>1 DEF ReceiverHolds
  <2>3. r # s => worker'[r] = worker[r] /\ responseConsume'[r] = responseConsume[r]
    BY <1>0, <1>1, <2>1 DEF ResponseType
  <2>4. worker'[r] \in {"size", "body"} => worker'[r] = worker[r]
    BY <1>1, <2>1, <2>3
  <2>5. HasWritten(r)' => HasWritten(r)
    BY <2>1, <2>2, <2>3 DEF HasWritten
  <2> QED BY <2>1, <2>4, <2>5, SlotKept
<1> QED BY <1>4, <1>5, <1>6, <1>7 DEF WorkStep

LEMMA SlotStep ==
  ASSUME RequestInv, HandledReceived, ResponseInv, SentBound, [Next]_vars,
         NEW r \in Ranks, \A s \in Ranks : SlotWritten(s)
  PROVE  SlotWritten(r)'
<1>1. CASE UNCHANGED responseSide
  BY <1>1, SlotKept DEF responseSide, receiverVars, workerVars, HasWritten, ReceiverHolds
<1>2. CASE StartSend \/ WriteFails \/ SendStep \/ UNCHANGED vars
  BY <1>1, <1>2 DEF StartSend, WriteFails, SendStep, WaitOnProduce, WriteRequestSize,
     WriteRequestBody, ReleaseAfterFailure, SignalConsume, responseSide, vars
<1>3. ASSUME NEW s \in Ranks, ListenStep(s)
      PROVE  SlotWritten(r)'
  BY <1>1, <1>3 DEF ListenStep, AcquireRequest, ReadSize, ReadBody, responseSide
<1>4. CASE ReceiveStep
  BY <1>4, ReceiveKeepsSlots
<1>5. ASSUME NEW s \in Ranks, WorkStep(s)
      PROVE  SlotWritten(r)'
  BY <1>5, WorkKeepsSlots
<1> QED BY <1>2, <1>3, <1>4, <1>5 DEF Next

(* The answer that Parse puts together.                                    *)
LEMMA ParseAnswers ==
  ASSUME ResponseInv, Parse, \A r \in Ranks : OutcomesInOrder(r) /\ SlotWritten(r),
         NEW k, k = Len(collected) + 1
  PROVE  /\ Len(collected') = k
         /\ \A i \in 1 .. Len(collected) : collected'[i] = collected[i]
         /\ CollectedAt(k)'
<1> DEFINE slots == IF receiveAllRank_ THEN Ranks ELSE {0}
           answer == [msgs |-> UNION {{response[i].size, response[i].body} : i \in slots},
                      verdict |-> Aggregate(slots)]
<1>1. ResponseType /\ Len(collected) \in Nat
  <2>1. ResponseType
    BY DEF ResponseInv
  <2>2. collected \in Seq([msgs : SUBSET Nat, verdict : Verdicts])
    BY <2>1 DEF ResponseType
  <2> QED BY <2>1, <2>2, LenProperties
<1>2. slots \subseteq Ranks /\ 0 \in slots /\ \A r \in Ranks : r \in slots <=> Counts(r)
  BY RanksType DEF Counts
<1>3. collected' = Append(collected, answer)
  BY DEF Parse
<1>4. answer \in [msgs : SUBSET Nat, verdict : Verdicts]
  <2>1. answer.msgs \in SUBSET Nat
    <3>1. \A i \in slots : response[i].size \in Nat /\ response[i].body \in Nat
      BY <1>1, <1>2 DEF ResponseType
    <3> QED BY <3>1
  <2>2. answer.verdict \in Verdicts
    BY DEF Aggregate, Verdicts
  <2> QED BY <2>1, <2>2
<1>5. ASSUME NEW r \in slots
      PROVE  /\ response[r].size = Answerable(k) /\ response[r].body = Answerable(k)
             /\ response[r].verdict = outcome[r][k].verdict
  <2>1. r \in Ranks /\ Counts(r) /\ ReceiverHolds(r) /\ receiver = "parse"
    BY <1>2 DEF Parse, ReceiverHolds
  <2>2. Holds(response[r], outcome[r][k])
    BY <2>1 DEF SlotWritten, HasWritten
  <2>3. Answered(r) = k
    BY <2>1 DEF ResponseInv, ResponseFlow
  <2>4. k \in 1 .. Len(outcome[r])
    <3>1. Len(outcome[r]) \in Nat
      BY <2>1, CollectedIsDone
    <3> QED BY <1>1, <2>3, <3>1 DEF Answered
  <2>5. Answerable(k) = outcome[r][k].msg
    BY <2>1, <2>4, AnswerableIs DEF OutcomesInOrder
  <2> QED BY <2>2, <2>5 DEF Holds
<1>6. answer.msgs = {Answerable(k)}
  BY <1>2, <1>5
<1>7. /\ answer.verdict = "success" <=>
           \A r \in Ranks : Counts(r) => outcome[r][k].verdict = "success"
      /\ answer.verdict = "invalid" <=>
           \E r \in Ranks : Counts(r) /\ outcome[r][k].verdict = "invalid"
  <2>1. \A r \in slots : response[r].verdict \in {"success", "failure", "invalid"}
    BY <1>1, <1>2 DEF ResponseType, Verdicts
  <2>2. /\ answer.verdict = "success" <=> \A r \in slots : response[r].verdict = "success"
        /\ answer.verdict = "invalid" <=> \E r \in slots : response[r].verdict = "invalid"
    BY <2>1 DEF Aggregate
  <2> QED BY <1>2, <1>5, <2>2
<1> HIDE DEF answer
<1>8. /\ Len(collected') = Len(collected) + 1 /\ collected'[k] = answer
      /\ \A i \in 1 .. Len(collected) : collected'[i] = collected[i]
  <2>1. collected \in Seq([msgs : SUBSET Nat, verdict : Verdicts])
    BY <1>1 DEF ResponseType
  <2> QED BY <1>3, <1>4, <2>1
<1>9. UNCHANGED <<outcome, receiveAllRank_>>
  BY DEF Parse, workerVars
<1>10. \A r : Counts(r)' = Counts(r)
  BY <1>9 DEF Counts
<1>11. /\ collected'[k].verdict = "success" <=>
            \A r \in Ranks : Counts(r)' => outcome'[r][k].verdict = "success"
       /\ collected'[k].verdict = "invalid" <=>
            \E r \in Ranks : Counts(r)' /\ outcome'[r][k].verdict = "invalid"
  BY <1>7, <1>8, <1>9, <1>10
<1> QED BY <1>1, <1>6, <1>8, <1>11 DEF CollectedAt

LEMMA CollectedStep ==
  ASSUME RequestInv, HandledReceived, ResponseInv, AnswerInv, [Next]_vars
  PROVE  (\A k \in 1 .. Len(collected) : CollectedAt(k))'
<1>1. /\ SentBound /\ \A r \in Ranks : OutcomesInOrder(r) /\ SlotWritten(r)
      /\ \A k \in 1 .. Len(collected) : CollectedAt(k)
  BY DEF AnswerInv
<1>2. ASSUME receiveAllRank_' = receiveAllRank_, NEW k \in 1 .. Len(collected),
             collected'[k] = collected[k],
             \A r \in Ranks : outcome'[r][k] = outcome[r][k]
      PROVE  CollectedAt(k)'
  <2>1. \A r : Counts(r)' = Counts(r)
    BY <1>2 DEF Counts
  <2> QED BY <1>1, <1>2, <2>1 DEF CollectedAt
<1>3. CASE UNCHANGED <<collected, outcome, receiveAllRank_>>
  BY <1>2, <1>3
<1>4. CASE Parse
  <2>1. /\ Len(collected') = Len(collected) + 1 /\ Len(collected) \in Nat
        /\ \A k \in 1 .. Len(collected) : collected'[k] = collected[k]
        /\ \A k : k = Len(collected) + 1 => CollectedAt(k)'
    <3>1. Len(collected) \in Nat
      BY DEF ResponseInv, ResponseType
    <3> QED BY <1>1, <1>4, <3>1, ParseAnswers
  <2>2. UNCHANGED <<outcome, receiveAllRank_>>
    BY <1>4 DEF Parse, workerVars
  <2>3. ASSUME NEW k \in 1 .. Len(collected')
        PROVE  CollectedAt(k)'
    <3>1. CASE k \in 1 .. Len(collected)
      BY <1>2, <2>1, <2>2, <3>1
    <3>2. CASE k = Len(collected) + 1
      BY <2>1, <3>2
    <3> QED BY <2>1, <3>1, <3>2
  <2> QED BY <2>3
<1>5. ASSUME NEW s \in Ranks, NEW v \in Verdicts, Handle(s, v)
      PROVE  (\A k \in 1 .. Len(collected) : CollectedAt(k))'
  <2>1. UNCHANGED <<collected, receiveAllRank_>>
    BY <1>5 DEF Handle, receiverVars
  <2>2. ASSUME NEW k \in 1 .. Len(collected), NEW r \in Ranks
        PROVE  outcome'[r][k] = outcome[r][k]
    <3>1. k \in 1 .. Len(outcome[r])
      BY CollectedIsDone
    <3>2. \/ outcome' = outcome
          \/ /\ \A i \in 1 .. Len(outcome[s]) : outcome'[s][i] = outcome[s][i]
             /\ \A q \in Ranks : q # s => outcome'[q] = outcome[q]
      BY <1>1, <1>5, HandleAppends
    <3> QED BY <3>1, <3>2
  <2> QED BY <1>2, <2>1, <2>2
<1>6. CASE \/ StartSend \/ WriteFails \/ SendStep \/ WaitOnConsume \/ SignalProduce \/ UNCHANGED vars
  BY <1>3, <1>6 DEF StartSend, WriteFails, SendStep, WaitOnProduce, WriteRequestSize,
     WriteRequestBody, ReleaseAfterFailure, SignalConsume, WaitOnConsume, SignalProduce,
     receiverVars, workerVars, vars
<1>7. ASSUME NEW s \in Ranks,
             \/ ListenStep(s) \/ AcquireResponse(s) \/ WriteSize(s) \/ WriteBody(s)
             \/ ReleaseResponse(s)
      PROVE  (\A k \in 1 .. Len(collected) : CollectedAt(k))'
  BY <1>3, <1>7 DEF ListenStep, AcquireRequest, ReadSize, ReadBody, AcquireResponse, WriteSize,
     WriteBody, ReleaseResponse, receiverVars, workerVars
<1> QED BY <1>4, <1>5, <1>6, <1>7 DEF Next, ReceiveStep, WorkStep

LEMMA AnswerInit == Init => AnswerInv
<1> SUFFICES ASSUME Init PROVE AnswerInv
  OBVIOUS
<1>1. SentBound
  BY ChannelAssumption DEF Init, SentBound
<1>2. Turn(0) = 0
  <2>1. {i \in 1 .. 0 : i \notin Silent} = {}
    OBVIOUS
  <2> QED BY <2>1, FS_EmptySet DEF Turn
<1>3. ASSUME NEW r \in Ranks
      PROVE  OutcomesInOrder(r) /\ SlotWritten(r)
  <2>1. OutcomesInOrder(r)
    BY <1>2 DEF Init, OutcomesInOrder
  <2>2. SlotWritten(r)
    BY RanksType DEF Init, SlotWritten, HasWritten, ReceiverHolds
  <2> QED BY <2>1, <2>2
<1>4. Len(collected) = 0
  BY DEF Init
<1> QED BY <1>1, <1>3, <1>4 DEF AnswerInv

LEMMA AnswerStep ==
  ASSUME RequestInv, HandledReceived, ResponseInv, AnswerInv, [Next]_vars
  PROVE  AnswerInv'
<1>1. SentBound'
  BY SentBoundStep DEF AnswerInv, RequestInv
<1>2. ASSUME NEW r \in Ranks
      PROVE  OutcomesInOrder(r)' /\ SlotWritten(r)'
  BY OutcomesStep, SlotStep DEF AnswerInv
<1>3. (\A k \in 1 .. Len(collected) : CollectedAt(k))'
  BY CollectedStep
<1> QED BY <1>1, <1>2, <1>3 DEF AnswerInv
-----------------------------------------------------------------------------
(* The state of the channel stays well formed; in particular no semaphore  *)
(* is ever raised above one.                                               *)
THEOREM TypeCorrect == SafeSpec => []TypeOK
<1>1. ChannelInv => TypeOK
  BY DEF ChannelInv, RequestInv, ResponseInv, RequestType, ResponseType, TypeOK
<1> QED
  BY <1>1, ChannelInvariant, PTL

(* For any number of ranks, the semaphores of a buffer and the threads     *)
(* around it share one token per rank: WriteMessage never meets            *)
(* receive_message, nor send_response the executor's reading.              *)
THEOREM TokenIsUnique == SafeSpec => []OneToken
<1>1. ChannelInv => OneToken
  <2> SUFFICES ASSUME ChannelInv, NEW r \in Ranks
               PROVE  /\ requestProduce[r] + requestConsume[r] + (IF SenderHolds(r) THEN 1 ELSE 0)
                           + (IF listener[r] # "acquire" THEN 1 ELSE 0) = 1
                      /\ responseProduce[r] + responseConsume[r] + (IF ReceiverHolds(r) THEN 1 ELSE 0)
                           + (IF WorkerHolds(r) THEN 1 ELSE 0) = 1
    BY DEF OneToken
  <2>1. RequestToken(r) /\ requestProduce[r] \in {0, 1} /\ requestConsume[r] \in {0, 1}
    BY DEF ChannelInv, RequestInv, RequestType
  <2>2. ResponseToken(r) /\ responseProduce[r] \in {0, 1} /\ responseConsume[r] \in {0, 1}
    BY DEF ChannelInv, ResponseInv, ResponseType
  <2>3. /\ requestProduce[r] + requestConsume[r] + (IF SenderHolds(r) THEN 1 ELSE 0)
             + (IF listener[r] # "acquire" THEN 1 ELSE 0) = 1
    BY <2>1 DEF RequestToken, Exclusive
  <2>4. /\ responseProduce[r] + responseConsume[r] + (IF ReceiverHolds(r) THEN 1 ELSE 0)
             + (IF WorkerHolds(r) THEN 1 ELSE 0) = 1
    BY <2>2 DEF ResponseToken, Exclusive
  <2> QED
    BY <2>3, <2>4
<1> QED
  BY <1>1, ChannelInvariant, PTL

(* Every rank gets every request whole, once and in order, whatever the    *)
(* pace of the ranks and however many writes fail.                         *)
THEOREM RequestsArriveInOrder == SafeSpec => []RequestsInOrder
<1>1. ChannelInv => RequestsInOrder
  <2> SUFFICES ASSUME ChannelInv, NEW r \in Ranks
               PROVE  /\ received[r] = [i \in 1 .. Len(received[r]) |-> [size |-> i, body |-> i]]
                      /\ Len(received[r]) \in {sent, sent - 1}
    BY DEF RequestsInOrder
  <2>1. /\ RequestToken(r) /\ RequestFlow(r) /\ sent \in Nat
        /\ received[r] \in Seq([size : Nat, body : Nat])
    BY DEF ChannelInv, RequestInv, RequestType
  <2>2. received[r] = [i \in 1 .. Len(received[r]) |-> [size |-> i, body |-> i]]
    BY <2>1 DEF RequestFlow, Whole
  <2>3. Len(received[r]) \in {sent, sent - 1}
    BY <2>1 DEF RequestToken, RequestFlow, Exclusive
  <2> QED
    BY <2>2, <2>3
<1> QED
  BY <1>1, ChannelInvariant, PTL

(* The executor's k-th answer is whole, is about the k-th request that has *)
(* one, comes when every rank is done with it, is a success exactly if     *)
(* every rank whose answer counts succeeded and is discarded exactly if    *)
(* one of them sent what ParseResponse refuses, for any number of ranks,   *)
(* on both kinds of channel and with any requests left unanswered.         *)
THEOREM AnswersArriveInOrder == SafeSpec => []AnswersInOrder
<1>1. Init => AnswerInv
  BY AnswerInit
<1>2. ChannelInv /\ AnswerInv /\ [Next]_vars => AnswerInv'
  BY AnswerStep DEF ChannelInv
<1>3. ChannelInv /\ AnswerInv => AnswersInOrder
  <2> SUFFICES ASSUME ChannelInv, AnswerInv, NEW k \in 1 .. Len(collected)
               PROVE  /\ collected[k].msgs = {Answerable(k)}
                      /\ \A r \in Ranks : Len(outcome[r]) >= k /\ outcome[r][k].msg = Answerable(k)
                      /\ collected[k].verdict = "success" <=>
                           \A r \in Ranks : Counts(r) => outcome[r][k].verdict = "success"
                      /\ collected[k].verdict = "invalid" <=>
                           \E r \in Ranks : Counts(r) /\ outcome[r][k].verdict = "invalid"
    BY DEF AnswersInOrder
  <2>1. CollectedAt(k)
    BY DEF AnswerInv
  <2>2. ASSUME NEW r \in Ranks
        PROVE  Len(outcome[r]) >= k /\ outcome[r][k].msg = Answerable(k)
    <3>1. k \in 1 .. Len(outcome[r]) /\ Len(outcome[r]) >= k
      BY CollectedIsDone DEF ChannelInv
    <3> QED BY <3>1, AnswerableIs DEF AnswerInv, OutcomesInOrder
  <2> QED BY <2>1, <2>2 DEF CollectedAt
<1> QED
  BY <1>1, <1>2, <1>3, ChannelInvariant, PTL DEF SafeSpec

(* Every step of the executor's and the ranks' threads is a step of the    *)
(* broadcast they are used as, or changes nothing of it: a request is      *)
(* published only when every rank has taken the one before, and an answer  *)
(* is collected only when every rank has given its own.                    *)
THEOREM ImplementsBroadcast == SafeSpec => Abstract!SafeSpec
<1> DEFINE got == [r \in Ranks |-> Len(received[r])]
           answered == [r \in Ranks |-> Answered(r)]
           given == Len(collected)
<1>1. Init => Abstract!Init
  BY DEF Init, Abstract!Init, Answered
<1>2. ASSUME ChannelInv, [Next]_vars
      PROVE  [Abstract!Next]_(Abstract!vars)
  <2>1. CASE UNCHANGED <<sent, received, outcome, worker, collected>>
    BY <2>1 DEF Abstract!vars, Answered
  <2>2. CASE WriteRequestBody
    <3>1. \A r \in Ranks : got[r] = sent
      BY <1>2, <2>2 DEF ChannelInv, RequestInv, RequestFlow, SenderHolds, WriteRequestBody
    <3>2. sent' = sent + 1 /\ UNCHANGED <<received, outcome, worker, collected>>
      BY <2>2 DEF WriteRequestBody, receiverVars, listenerVars, workerVars
    <3>3. Abstract!Publish
      BY <3>1, <3>2 DEF Abstract!Publish, Answered
    <3> QED BY <3>3 DEF Abstract!Next
  <2>3. ASSUME NEW s \in Ranks, ReadBody(s)
        PROVE  [Abstract!Next]_(Abstract!vars)
    <3> DEFINE m == [size |-> length[s], body |-> request.body]
    <3>1. /\ Len(received[s]) + 1 = sent /\ Len(received[s]) < sent
          /\ m \in [size : Nat, body : Nat]
      BY <1>2, <2>3 DEF ChannelInv, RequestInv, RequestFlow, RequestType, ReadBody
    <3>2. /\ received' = [received EXCEPT ![s] = Append(received[s], m)]
          /\ UNCHANGED <<sent, outcome, worker, collected>>
      BY <2>3 DEF ReadBody, senderVars, receiverVars, workerVars
    <3>3. received \in [Ranks -> Seq([size : Nat, body : Nat])]
      BY <1>2 DEF ChannelInv, RequestInv, RequestType
    <3> HIDE DEF m
    <3>4. \A r \in Ranks : Len(received'[r]) = IF r = s THEN Len(received[r]) + 1 ELSE Len(received[r])
      BY <3>1, <3>2, <3>3
    <3>5. got' = [got EXCEPT ![s] = got[s] + 1]
      BY <3>4
    <3>6. Abstract!Take(s)
      BY <3>1, <3>2, <3>5 DEF Abstract!Take, Answered
    <3> QED BY <3>6 DEF Abstract!Next
  <2>4. ASSUME NEW s \in Ranks, NEW v \in Verdicts, Handle(s, v)
        PROVE  [Abstract!Next]_(Abstract!vars)
    <3>1. UNCHANGED <<sent, received, collected>>
      BY <2>4 DEF Handle, senderVars, receiverVars, listenerVars
    <3>2. outcome \in [Ranks -> Seq([msg : Nat, verdict : Verdicts])]
      BY <1>2 DEF ChannelInv, ResponseInv, ResponseType
    <3>3. worker \in [Ranks -> {"idle", "acquire", "size", "body", "release"}]
      BY <1>2 DEF ChannelInv, ResponseInv, ResponseType
    <3> DEFINE m == received[s][handled[s] + 1].body
    <3>4. \/ UNCHANGED <<outcome, worker>>
          \/ /\ worker[s] = "idle" /\ worker' = [worker EXCEPT ![s] = "acquire"]
             /\ outcome' = [outcome EXCEPT ![s] = Append(outcome[s], [msg |-> m, verdict |-> v])]
      BY <2>4 DEF Handle
    <3>5. m \in Nat
      BY <1>2, <2>4, HandleReads DEF ChannelInv, RequestInv, ResponseInv
    <3> HIDE DEF m
    <3>6. ASSUME NEW r \in Ranks
          PROVE  Answered(r)' = Answered(r)
      <4>1. CASE UNCHANGED <<outcome, worker>> \/ r # s
        <5>1. outcome'[r] = outcome[r] /\ worker'[r] = worker[r]
          BY <3>2, <3>3, <3>4, <4>1
        <5> QED BY <5>1 DEF Answered
      <4>2. CASE ~ UNCHANGED <<outcome, worker>> /\ r = s
        <5>1. worker[r] = "idle" /\ worker'[r] = "acquire"
          BY <3>3, <3>4, <4>2
        <5>2. [msg |-> m, verdict |-> v] \in [msg : Nat, verdict : Verdicts]
          BY <3>5
        <5>3. outcome'[r] = Append(outcome[r], [msg |-> m, verdict |-> v])
          BY <3>2, <3>4, <4>2
        <5>4. Len(outcome'[r]) = Len(outcome[r]) + 1 /\ Len(outcome[r]) \in Nat
          BY <3>2, <5>2, <5>3
        <5> QED BY <5>1, <5>4 DEF Answered
      <4> QED BY <4>1, <4>2
    <3> QED BY <3>1, <3>6 DEF Abstract!vars
  <2>5. ASSUME NEW s \in Ranks, AcquireResponse(s) \/ WriteSize(s) \/ WriteBody(s)
        PROVE  [Abstract!Next]_(Abstract!vars)
    <3>1. UNCHANGED <<sent, received, outcome, collected>>
      BY <2>5 DEF AcquireResponse, WriteSize, WriteBody, senderVars, receiverVars, listenerVars
    <3>2. worker \in [Ranks -> {"idle", "acquire", "size", "body", "release"}]
      BY <1>2 DEF ChannelInv, ResponseInv, ResponseType
    <3>3. \A r \in Ranks : worker'[r] = "idle" <=> worker[r] = "idle"
      BY <2>5, <3>2 DEF AcquireResponse, WriteSize, WriteBody
    <3>4. ASSUME NEW r \in Ranks
          PROVE  Answered(r)' = Answered(r)
      BY <3>1, <3>3 DEF Answered
    <3> QED BY <3>1, <3>4 DEF Abstract!vars
  <2>6. ASSUME NEW s \in Ranks, ReleaseResponse(s)
        PROVE  [Abstract!Next]_(Abstract!vars)
    <3>1. UNCHANGED <<sent, received, outcome, collected>>
      BY <2>6 DEF ReleaseResponse, senderVars, receiverVars, listenerVars
    <3>2. worker \in [Ranks -> {"idle", "acquire", "size", "body", "release"}]
      BY <1>2 DEF ChannelInv, ResponseInv, ResponseType
    <3>3. /\ worker[s] = "release" /\ WorkerHolds(s)
          /\ \A r \in Ranks : worker'[r] = IF r = s THEN "idle" ELSE worker[r]
      BY <2>6, <3>2 DEF ReleaseResponse, WorkerHolds
    <3>4. \A r \in Ranks : Len(outcome[r]) \in Nat /\ Len(received[r]) \in Nat /\ handled[r] \in Nat
      <4>1. received \in [Ranks -> Seq([size : Nat, body : Nat])]
        BY <1>2 DEF ChannelInv, RequestInv, RequestType
      <4>2. outcome \in [Ranks -> Seq([msg : Nat, verdict : Verdicts])] /\ handled \in [Ranks -> Nat]
        BY <1>2 DEF ChannelInv, ResponseInv, ResponseType
      <4> QED BY <4>1, <4>2
    <3>5. Answered(s) = given /\ Len(outcome[s]) <= handled[s] /\ handled[s] <= Len(received[s])
      BY <1>2, <3>3 DEF ChannelInv, ResponseInv, ResponseFlow, HandledReceived
    <3>6. Answered(s) = Len(outcome[s]) - 1
      BY <3>3 DEF Answered
    <3>7. ASSUME NEW r \in Ranks
          PROVE  Answered(r)' = IF r = s THEN Answered(r) + 1 ELSE Answered(r)
      BY <3>1, <3>3, <3>4 DEF Answered
    <3>8. answered' = [answered EXCEPT ![s] = answered[s] + 1]
      BY <3>7
    <3>9. answered[s] = given /\ answered[s] < got[s]
      BY <3>4, <3>5, <3>6
    <3>10. Abstract!Answer(s)
      BY <3>1, <3>8, <3>9 DEF Abstract!Answer
    <3> QED BY <3>10 DEF Abstract!Next
  <2>7. CASE Parse
    <3>1. UNCHANGED <<sent, received, outcome, worker>>
      BY <2>7 DEF Parse, senderVars, listenerVars, workerVars
    <3>2. collected \in Seq([msgs : SUBSET Nat, verdict : Verdicts])
      BY <1>2 DEF ChannelInv, ResponseInv, ResponseType
    <3>4. \A r \in Ranks : answered[r] = given + 1
      BY <1>2, <2>7 DEF ChannelInv, ResponseInv, ResponseFlow, ReceiverHolds, Parse
    <3>5. given' = given + 1
      BY <1>2, <2>7, ParseCollects DEF ChannelInv, ResponseInv
    <3>6. \A r \in Ranks : answered[r] > given
      BY <3>2, <3>4
    <3>7. Abstract!Collect
      BY <3>1, <3>5, <3>6 DEF Abstract!Collect, Answered
    <3> QED BY <3>7 DEF Abstract!Next
  <2>8. CASE \/ StartSend \/ WriteFails \/ WaitOnProduce \/ WriteRequestSize \/ ReleaseAfterFailure
             \/ SignalConsume \/ WaitOnConsume \/ SignalProduce
             \/ \E s \in Ranks : AcquireRequest(s) \/ ReadSize(s)
             \/ UNCHANGED vars
    BY <2>1, <2>8 DEF StartSend, WriteFails, WaitOnProduce, WriteRequestSize, ReleaseAfterFailure,
       SignalConsume, WaitOnConsume, SignalProduce, AcquireRequest, ReadSize, vars, senderVars,
       receiverVars, listenerVars, workerVars
  <2> QED
    BY <1>2, <2>2, <2>3, <2>4, <2>5, <2>6, <2>7, <2>8 DEF Next, SendStep, ReceiveStep, ListenStep, WorkStep
<1> QED
  BY <1>1, <1>2, ChannelInvariant, PTL DEF SafeSpec, Abstract!SafeSpec
=============================================================================
