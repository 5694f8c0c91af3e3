----------------------- MODULE SeparateDeployment_proofs -----------------------
(***************************************************************************)
(* Theorems about SeparateDeployment, for any peers, commands and window.  *)
(* The prover has no induction over data; where one is needed (what Drop   *)
(* returns) it is replaced by the least counterexample, which exists by    *)
(* LeastExists.                                                            *)
(***************************************************************************)
EXTENDS SeparateDeployment, SequenceTheorems, WellFoundedInduction, TLAPS

(* A nonempty set of naturals has a least element, and Least finds it.     *)
LEMMA LeastExists ==
  ASSUME NEW I \in SUBSET Nat, I # {}
  PROVE  Least(I) \in I /\ \A j \in I : Least(I) <= j
<1> DEFINE R == {ss \in Nat \X Nat : ss[1] < ss[2]}
<1>1. IsWellFoundedOn(R, Nat)
  BY NatLessThanWellFounded, Zenon DEF OpToRel
<1>2. \A x, y \in Nat : y < x => <<y, x>> \in R
  OBVIOUS
<1> HIDE DEF R
<1>3. I \subseteq Nat
  OBVIOUS
<1>4. \E x \in I : \A y \in I : ~(<<y, x>> \in R)
  BY <1>1, <1>3, WFMin, Zenon
<1>5. PICK x \in I : \A y \in I : ~(<<y, x>> \in R)
  BY <1>4
<1>6. ASSUME NEW y \in I
      PROVE  x <= y
  <2>1. ~(y < x)
    BY <1>2, <1>3, <1>5
  <2> QED BY <2>1, <1>3
<1> QED
  BY <1>5, <1>6 DEF Least

(* One step of Drop.                                                       *)
DropStep(s, S, i, q) == IF s[i] \in S THEN q ELSE Append(q, s[i])

LEMMA DropStepType ==
  ASSUME NEW C, NEW S, NEW s \in Seq(C), NEW i \in 1..Len(s), NEW q \in Seq(C)
  PROVE  DropStep(s, S, i, q) \in Seq(C)
<1>1. s[i] \in C
  OBVIOUS
<1>2. Append(q, s[i]) \in Seq(C)
  BY <1>1
<1> QED
  BY <1>2 DEF DropStep

(* What Drop returns has its members from where its argument has them.     *)
LEMMA DropType ==
  ASSUME NEW C, NEW S, NEW s \in Seq(C)
  PROVE  Drop(s, S) \in Seq(C)
<1> DEFINE n == Len(s)
           Def(f) == [i \in 0..n |-> IF i = 0 THEN <<>> ELSE DropStep(s, S, i, f[i - 1])]
           Upto(f, k) == f[0] = <<>> /\ \A i \in 1..k : f[i] = DropStep(s, S, i, f[i - 1])
           P(k) == \E f \in [0..n -> Seq(C)] : Upto(f, k)
           Bad == {k \in 0..n : ~ P(k)}
<1>1. n \in Nat
  OBVIOUS
<1>2. \A i \in 1..n, q \in Seq(C) : DropStep(s, S, i, q) \in Seq(C)
  BY DropStepType
<1> HIDE DEF n
<1>3. P(0)
  <2>1. [i \in 0..n |-> <<>>] \in [0..n -> Seq(C)] /\ Upto([i \in 0..n |-> <<>>], 0)
    BY <1>1
  <2> QED BY <2>1
<1>4. ASSUME NEW k \in 1..n, P(k - 1)
      PROVE  P(k)
  <2>1. PICK f \in [0..n -> Seq(C)] : Upto(f, k - 1)
    BY <1>4
  <2> DEFINE x == DropStep(s, S, k, f[k - 1])
             g == [f EXCEPT ![k] = x]
  <2>2. k \in Nat /\ k # 0 /\ k \in 0..n /\ k - 1 \in 0..n /\ 0 \in 0..n
    BY <1>1
  <2>3. x \in Seq(C)
    BY <1>2, <2>2
  <2> HIDE DEF x
  <2>4. g \in [0..n -> Seq(C)] /\ g[k] = x /\ \A i \in 0..n : i # k => g[i] = f[i]
    BY <2>2, <2>3
  <2> HIDE DEF g
  <2>5. g[0] = <<>>
    BY <2>1, <2>2, <2>4
  <2>6. ASSUME NEW i \in 1..k
        PROVE  g[i] = DropStep(s, S, i, g[i - 1])
    <3>1. i - 1 \in 0..n /\ i - 1 # k /\ i \in 0..n
      BY <1>1, <2>2
    <3>2. g[i - 1] = f[i - 1]
      BY <3>1, <2>4
    <3>3. CASE i = k
      BY <3>2, <3>3, <2>4 DEF x
    <3>4. CASE i # k
      <4>1. i \in 1..(k - 1)
        BY <3>4, <2>2
      <4>2. g[i] = f[i]
        BY <3>1, <3>4, <2>4
      <4> QED BY <4>1, <4>2, <3>2, <2>1
    <3> QED BY <3>3, <3>4
  <2> QED
    BY <2>4, <2>5, <2>6
<1> HIDE DEF P
<1>5. Bad = {}
  <2> SUFFICES ASSUME Bad # {} PROVE FALSE
    OBVIOUS
  <2> DEFINE k == Least(Bad)
  <2>1. Bad \in SUBSET Nat
    BY <1>1
  <2>2. k \in Bad /\ \A j \in Bad : k <= j
    BY <2>1, LeastExists
  <2> HIDE DEF k
  <2>3. k \in 1..n
    BY <1>1, <1>3, <2>2
  <2>4. k - 1 \in 0..n /\ k - 1 \notin Bad
    BY <1>1, <2>2, <2>3
  <2>5. P(k - 1) /\ ~ P(k)
    BY <2>2, <2>4
  <2> QED
    BY <1>4, <2>3, <2>5
<1>6. P(n)
  BY <1>1, <1>5
<1>7. PICK f \in [0..n -> Seq(C)] : Upto(f, n)
  BY <1>6 DEF P
<1>8. f = Def(f)
  <2>1. ASSUME NEW i \in 0..n
        PROVE  f[i] = Def(f)[i]
    <3>1. CASE i = 0
      BY <3>1, <1>7
    <3>2. CASE i # 0
      <4>1. i \in 1..n
        BY <3>2, <1>1
      <4> QED BY <4>1, <3>2, <1>7
    <3> QED BY <3>1, <3>2
  <2> QED BY <2>1
<1> DEFINE F == CHOOSE h : h = Def(h)
<1>9. F = Def(F)
  BY <1>8
<1> HIDE DEF F
<1> DEFINE Out == {k \in 0..n : F[k] \notin Seq(C)}
<1>10. Out = {}
  <2> SUFFICES ASSUME Out # {} PROVE FALSE
    OBVIOUS
  <2> DEFINE k == Least(Out)
  <2>1. Out \in SUBSET Nat
    BY <1>1
  <2>2. k \in Out /\ \A j \in Out : k <= j
    BY <2>1, LeastExists
  <2> HIDE DEF k
  <2>3. F[k] = IF k = 0 THEN <<>> ELSE DropStep(s, S, k, F[k - 1])
    BY <1>9, <2>2
  <2>4. <<>> \in Seq(C)
    OBVIOUS
  <2>5. k # 0
    BY <2>2, <2>3, <2>4
  <2>6. k - 1 \in 0..n /\ k - 1 \notin Out /\ k \in 1..n
    BY <2>2, <2>5, <1>1
  <2>7. F[k - 1] \in Seq(C)
    BY <2>6
  <2>8. DropStep(s, S, k, F[k - 1]) \in Seq(C)
    BY <2>6, <2>7, <1>2
  <2> QED
    BY <2>2, <2>3, <2>5, <2>8
<1>11. F[n] \in Seq(C)
  BY <1>1, <1>10
<1> QED
  BY <1>11, Zenon DEF Drop, DropStep, F, n

LEMMA DeleteAtType ==
  ASSUME NEW C, NEW s \in Seq(C), NEW i \in 1..Len(s)
  PROVE  DeleteAt(s, i) \in Seq(C) /\ Len(DeleteAt(s, i)) = Len(s) - 1
<1>1. SubSeq(s, 1, i - 1) \in Seq(C) /\ Len(SubSeq(s, 1, i - 1)) = i - 1
  OBVIOUS
<1>2. SubSeq(s, i + 1, Len(s)) \in Seq(C) /\ Len(SubSeq(s, i + 1, Len(s))) = Len(s) - i
  OBVIOUS
<1> DEFINE a == SubSeq(s, 1, i - 1)
           b == SubSeq(s, i + 1, Len(s))
<1>3. a \in Seq(C) /\ b \in Seq(C)
  BY <1>1, <1>2
<1>4. Len(a) = i - 1 /\ Len(b) = Len(s) - i /\ i \in Nat /\ Len(s) \in Nat
  BY <1>1, <1>2
<1> HIDE DEF a, b
<1>5. a \o b \in Seq(C) /\ Len(a \o b) = Len(a) + Len(b)
  BY <1>3, ConcatProperties
<1>6. Len(a \o b) = Len(s) - 1
  BY <1>4, <1>5
<1> QED
  BY <1>5, <1>6 DEF DeleteAt, a, b

LEMMA LeastInQueue ==
  ASSUME NEW c, link_queue \in Seq(Clusters), InQueue(c) # {}
  PROVE  Least(InQueue(c)) \in 1..Len(link_queue)
<1>1. InQueue(c) \in SUBSET Nat
  BY DEF InQueue
<1> QED
  BY <1>1, LeastExists DEF InQueue

LEMMA LeastInWindow ==
  ASSUME NEW c, window \in Seq([cluster : Clusters, comm : Nat]), InWindow(c) # {}
  PROVE  Least(InWindow(c)) \in 1..Len(window)
<1>1. InWindow(c) \in SUBSET Nat
  BY DEF InWindow
<1> QED
  BY <1>1, LeastExists DEF InWindow
-----------------------------------------------------------------------------
(* Every step, one case per action; the lemmas on invariants cite it.      *)
Steps ==
  \/ \E cmd \in PdCommands : PdRole(cmd)
  \/ \E c \in Clusters : UnlinkRemaining(c)
  \/ Link
  \/ \E t \in Callers : UnlinkFromWindow(t) \/ UnlinkFromMap(t) \/ EngineUnlink(t)
  \/ FillPop \/ TryCreateLink \/ RecordComm \/ FillWindow
  \/ ProcessPop \/ QueryMemStatus \/ RecordDeviceIp \/ ProcessUnlink \/ Settle
  \/ \E c \in Clusters : MemSettles(c)

LEMMA NextSteps == Next => Steps
  BY DEF Next, Steps, PdThread, FillThread, ProcessThread, Unlink, Callers

LEMMA TypeInit == Init => TypeOK
  BY LinkAssumption DEF Init, TypeOK, Items, At, NoComm, Callers

LEMMA TypeStep ==
  ASSUME TypeOK, [Next]_vars
  PROVE  TypeOK'
<1> USE DEF TypeOK, Items, At, Callers
<1>1. ASSUME NEW cmd \in PdCommands, PdRole(cmd)
      PROVE  TypeOK'
  <2>1. cmd.unlink \in SUBSET Clusters /\ cmd.link \in Seq(Clusters)
    BY LinkAssumption
  <2>2. link_queue' \in Seq(Clusters)
    BY <1>1, DropType DEF PdRole
  <2>3. commands' \in 0..MaxCommands
    BY <1>1, LinkAssumption DEF PdRole
  <2>4. pd' \in [busy : BOOLEAN, todo : SUBSET Clusters, link : Seq(Clusters)]
    BY <1>1, <2>1 DEF PdRole
  <2> QED
    BY <1>1, <2>1, <2>2, <2>3, <2>4 DEF PdRole, engineVars
<1>2. ASSUME NEW c \in Clusters, UnlinkRemaining(c)
      PROVE  TypeOK'
  BY <1>2 DEF UnlinkRemaining, engineVars
<1>3. CASE Link
  <2>1. link_queue' \in Seq(Clusters)
    BY <1>3, ConcatProperties DEF Link
  <2>2. pd' \in [busy : BOOLEAN, todo : SUBSET Clusters, link : Seq(Clusters)]
    BY <1>3 DEF Link
  <2> QED
    BY <1>3, <2>1, <2>2 DEF Link, engineVars
<1>4. ASSUME NEW t \in Callers, UnlinkFromWindow(t)
      PROVE  TypeOK'
  <2>1. window' \in Seq([cluster : Clusters, comm : Nat])
    <3>1. CASE InWindow(unlinking[t].cluster) = {}
      BY <1>4, <3>1 DEF UnlinkFromWindow
    <3>2. CASE InWindow(unlinking[t].cluster) # {}
      <4>1. window' = DeleteAt(window, Least(InWindow(unlinking[t].cluster)))
        BY <1>4, <3>2 DEF UnlinkFromWindow
      <4> QED BY <4>1, <3>2, LeastInWindow, DeleteAtType
    <3> QED BY <3>1, <3>2
  <2> QED
    BY <1>4, <2>1 DEF UnlinkFromWindow, engineVars
<1>5. ASSUME NEW t \in Callers, UnlinkFromMap(t)
      PROVE  TypeOK'
  <2>1. unlinking[t].cluster \in Clusters /\ cluster_comm_map[unlinking[t].cluster] \in Nat
    BY <1>5 DEF UnlinkFromMap
  <2>2. CASE cluster_comm_map[unlinking[t].cluster] = 0
    <3>1. unlinking' = [unlinking EXCEPT ![t] = At("no")]
      BY <1>5, <2>2 DEF UnlinkFromMap
    <3>2. unlinking' \in [Callers -> Items({"no", "window", "map", "engine"})]
      BY <3>1
    <3>3. \A u \in Callers : unlinking'[u].at # "no" => unlinking'[u].cluster \in Clusters
      BY <3>1
    <3> QED
      BY <1>5, <2>2, <3>2, <3>3 DEF UnlinkFromMap, engineVars
  <2>3. CASE cluster_comm_map[unlinking[t].cluster] # 0
    <3> DEFINE c == unlinking[t].cluster
               held == [at |-> "engine", cluster |-> c, comm |-> cluster_comm_map[c]]
    <3>1. unlinking' = [unlinking EXCEPT ![t] = held]
      BY <1>5, <2>3 DEF UnlinkFromMap
    <3>2. held \in Items({"no", "window", "map", "engine"}) /\ held.cluster \in Clusters
      BY <2>1
    <3>3. unlinking' \in [Callers -> Items({"no", "window", "map", "engine"})]
      BY <3>1, <3>2
    <3>4. \A u \in Callers : unlinking'[u].at # "no" => unlinking'[u].cluster \in Clusters
      BY <3>1, <3>2
    <3>5. /\ cluster_comm_map' = [cluster_comm_map EXCEPT ![c] = 0]
          /\ cluster_device_ip_map' = cluster_device_ip_map \ {c}
          /\ link_result' = [link_result EXCEPT
               ![c] = IF c \in cluster_device_ip_map THEN "none" ELSE @]
      BY <1>5, <2>3 DEF UnlinkFromMap
    <3>6. cluster_comm_map' \in [Clusters -> Nat] /\ cluster_device_ip_map' \in SUBSET Clusters
      BY <3>5
    <3>7. link_result' \in [Clusters -> {"none", "waiting", "running", "success", "failed"}]
      BY <3>5
    <3> QED
      BY <1>5, <3>3, <3>4, <3>6, <3>7 DEF UnlinkFromMap, engineVars
  <2> QED
    BY <2>2, <2>3
<1>6. ASSUME NEW t \in Callers, EngineUnlink(t)
      PROVE  TypeOK'
  <2>1. unlinking' \in [Callers -> Items({"no", "window", "map", "engine"})]
    BY <1>6 DEF EngineUnlink
  <2>2. ASSUME NEW u \in Callers, unlinking'[u].at # "no"
        PROVE  unlinking'[u].cluster \in Clusters
    BY <1>6, <2>2 DEF EngineUnlink
  <2>3. engine' \in [Clusters -> [comm : Nat, mem : {"pending", "ok", "failed"}]]
    <3>1. NoComm \in [comm : Nat, mem : {"pending", "ok", "failed"}]
      BY DEF NoComm
    <3> QED BY <1>6, <3>1 DEF EngineUnlink
  <2>4. unlinking[t].cluster \in Clusters
    BY <1>6 DEF EngineUnlink
  <2>5. stranded' \in SUBSET Clusters
    BY <1>6, <2>4 DEF EngineUnlink
  <2> QED
    BY <1>6, <2>1, <2>2, <2>3, <2>5 DEF EngineUnlink
<1>7. CASE FillPop
  <2>1. Head(link_queue) \in Clusters /\ Tail(link_queue) \in Seq(Clusters)
    BY <1>7, HeadTailProperties DEF FillPop
  <2>2. fill' \in Items({"pop", "create", "record", "append", "failed"}) /\ fill'.cluster \in Clusters
    BY <1>7, <2>1 DEF FillPop
  <2> QED
    BY <1>7, <2>1, <2>2 DEF FillPop, engineVars
<1>8. CASE TryCreateLink
  <2>1. fill.cluster \in Clusters
    BY <1>8 DEF TryCreateLink
  <2>2. CASE /\ fill' = [fill EXCEPT !.at = "failed"]
             /\ UNCHANGED <<engine, last_comm>>
    <3>1. fill' \in Items({"pop", "create", "record", "append", "failed"}) /\ fill'.cluster \in Clusters
      BY <2>1, <2>2
    <3> QED
      BY <1>8, <2>2, <3>1 DEF TryCreateLink
  <2> DEFINE new == [comm |-> last_comm + 1, mem |-> "pending"]
  <2>3. CASE /\ last_comm' = last_comm + 1
             /\ engine' = [engine EXCEPT ![fill.cluster] = new]
             /\ fill' = [at |-> "record", cluster |-> fill.cluster, comm |-> last_comm + 1]
    <3>1. last_comm' \in Nat /\ new \in [comm : Nat, mem : {"pending", "ok", "failed"}]
      BY <2>3
    <3>2. engine' \in [Clusters -> [comm : Nat, mem : {"pending", "ok", "failed"}]]
      BY <2>3, <3>1
    <3>3. fill' \in Items({"pop", "create", "record", "append", "failed"}) /\ fill'.cluster \in Clusters
      BY <2>1, <2>3, <3>1
    <3> QED
      BY <1>8, <3>1, <3>2, <3>3 DEF TryCreateLink
  <2> QED
    BY <1>8, <2>2, <2>3 DEF TryCreateLink
<1>9. CASE RecordComm
  <2>1. fill.cluster \in Clusters /\ fill.comm \in Nat
    BY <1>9 DEF RecordComm
  <2>2. cluster_comm_map' \in [Clusters -> Nat]
    BY <1>9, <2>1 DEF RecordComm
  <2>3. /\ fill' \in Items({"pop", "create", "record", "append", "failed"})
        /\ fill'.cluster \in Clusters
    BY <1>9, <2>1 DEF RecordComm
  <2> QED
    BY <1>9, <2>2, <2>3 DEF RecordComm, engineVars
<1>10. CASE FillWindow
  <2>1. fill.cluster \in Clusters
    BY <1>10 DEF FillWindow
  <2>2. Append(window, [cluster |-> fill.cluster, comm |-> fill.comm])
          \in Seq([cluster : Clusters, comm : Nat])
    BY <2>1
  <2>3. window' \in Seq([cluster : Clusters, comm : Nat])
    BY <1>10, <2>2 DEF FillWindow
  <2>4. link_result' \in [Clusters -> {"none", "waiting", "running", "success", "failed"}]
    BY <1>10 DEF FillWindow
  <2>5. fill' \in Items({"pop", "create", "record", "append", "failed"}) /\ fill'.at = "pop"
    BY <1>10 DEF FillWindow
  <2> QED
    BY <1>10, <2>3, <2>4, <2>5 DEF FillWindow, engineVars
<1>11. CASE ProcessPop
  <2>1. Head(window) \in [cluster : Clusters, comm : Nat]
    BY <1>11, HeadTailProperties DEF ProcessPop
  <2>2. Tail(window) \in Seq([cluster : Clusters, comm : Nat])
    BY <1>11, HeadTailProperties DEF ProcessPop
  <2>3. /\ process' \in Items({"pop", "query", "ok", "retry", "unlink", "success", "failed"})
        /\ process'.cluster \in Clusters
    BY <1>11, <2>1 DEF ProcessPop
  <2> QED
    BY <1>11, <2>2, <2>3 DEF ProcessPop, engineVars
<1>12. CASE QueryMemStatus
  <2>1. process.cluster \in Clusters
    BY <1>12 DEF QueryMemStatus
  <2>2. PICK at \in {"ok", "retry", "unlink"} : process' = [process EXCEPT !.at = at]
    BY <1>12 DEF QueryMemStatus
  <2>3. /\ process' \in Items({"pop", "query", "ok", "retry", "unlink", "success", "failed"})
        /\ process'.cluster \in Clusters
    BY <2>1, <2>2
  <2> QED
    BY <1>12, <2>3 DEF QueryMemStatus, engineVars
<1>13. CASE RecordDeviceIp
  <2>1. process.cluster \in Clusters
    BY <1>13 DEF RecordDeviceIp
  <2>2. /\ process' \in Items({"pop", "query", "ok", "retry", "unlink", "success", "failed"})
        /\ process'.cluster \in Clusters
    BY <1>13, <2>1 DEF RecordDeviceIp
  <2> QED
    BY <1>13, <2>1, <2>2 DEF RecordDeviceIp, engineVars
<1>14. CASE ProcessUnlink
  <2> DEFINE c == process.cluster
  <2>1. c \in Clusters
    BY <1>14 DEF ProcessUnlink
  <2>2. link_queue' \in Seq(Clusters)
    <3>1. CASE InQueue(c) = {}
      BY <1>14, <3>1 DEF ProcessUnlink
    <3>2. CASE InQueue(c) # {}
      <4>1. link_queue' = DeleteAt(link_queue, Least(InQueue(c)))
        BY <1>14, <3>2 DEF ProcessUnlink
      <4> QED BY <4>1, <3>2, LeastInQueue, DeleteAtType
    <3> QED BY <3>1, <3>2
  <2>3. unlinking' \in [Callers -> Items({"no", "window", "map", "engine"})]
    <3> DEFINE todo == [at |-> "window", cluster |-> c, comm |-> 0]
    <3>1. todo \in Items({"no", "window", "map", "engine"})
      BY <2>1
    <3>2. unlinking' \in {unlinking, [unlinking EXCEPT !["process"] = todo]}
      BY <1>14 DEF ProcessUnlink
    <3> HIDE DEF todo
    <3> QED BY <3>1, <3>2
  <2>4. ASSUME NEW u \in Callers, unlinking'[u].at # "no"
        PROVE  unlinking'[u].cluster \in Clusters
    BY <1>14, <2>1, <2>4 DEF ProcessUnlink
  <2>5. link_result' \in [Clusters -> {"none", "waiting", "running", "success", "failed"}]
    BY <1>14 DEF ProcessUnlink
  <2>6. /\ process' \in Items({"pop", "query", "ok", "retry", "unlink", "success", "failed"})
        /\ process'.cluster \in Clusters
    BY <1>14, <2>1 DEF ProcessUnlink
  <2> QED
    BY <1>14, <2>2, <2>3, <2>4, <2>5, <2>6 DEF ProcessUnlink, engineVars
<1>15. CASE Settle
  <2>1. process.cluster \in Clusters
    BY <1>15 DEF Settle
  <2>2. Append(window, [cluster |-> process.cluster, comm |-> process.comm])
          \in Seq([cluster : Clusters, comm : Nat])
    BY <2>1
  <2>3. window' \in Seq([cluster : Clusters, comm : Nat])
    BY <1>15, <2>2 DEF Settle
  <2>4. link_result' \in [Clusters -> {"none", "waiting", "running", "success", "failed"}]
    BY <1>15 DEF Settle
  <2>5. /\ process' \in Items({"pop", "query", "ok", "retry", "unlink", "success", "failed"})
        /\ process'.at = "pop"
    BY <1>15 DEF Settle
  <2> QED
    BY <1>15, <2>3, <2>4, <2>5 DEF Settle, engineVars
<1>16. ASSUME NEW c \in Clusters, MemSettles(c)
       PROVE  TypeOK'
  <2>1. PICK mem \in {"ok", "failed"} : engine' = [engine EXCEPT ![c].mem = mem]
    BY <1>16 DEF MemSettles
  <2>2. engine[c] \in [comm : Nat, mem : {"pending", "ok", "failed"}]
    OBVIOUS
  <2>3. \A r \in [comm : Nat, mem : {"pending", "ok", "failed"}] :
          [r EXCEPT !.mem = mem] \in [comm : Nat, mem : {"pending", "ok", "failed"}]
    OBVIOUS
  <2>4. engine' \in [Clusters -> [comm : Nat, mem : {"pending", "ok", "failed"}]]
    BY <2>1, <2>2, <2>3
  <2> QED
    BY <1>16, <2>4 DEF MemSettles
<1>17. CASE UNCHANGED vars
  BY <1>17 DEF vars, engineVars
<1> QED
  BY <1>1, <1>2, <1>3, <1>4, <1>5, <1>6, <1>7, <1>8, <1>9, <1>10, <1>11, <1>12, <1>13, <1>14,
     <1>15, <1>16, <1>17, NextSteps DEF Steps
-----------------------------------------------------------------------------
(* CommTracked, keeper by keeper.  A keeper's id is not 0, so a peer       *)
(* without a communicator has no keeper.                                   *)
InMap(c) == cluster_comm_map[c] # 0
AtFill(c) == fill.at = "record" /\ fill.cluster = c
AtUnlink(t, c) == unlinking[t].at = "engine" /\ unlinking[t].cluster = c

TrackedAt(c) ==
  /\ InMap(c) => cluster_comm_map[c] = engine[c].comm /\ ~ AtFill(c)
  /\ AtFill(c) => fill.comm = engine[c].comm /\ fill.comm # 0
  /\ \A t \in Callers : AtUnlink(t, c) =>
       /\ unlinking[t].comm = engine[c].comm /\ unlinking[t].comm # 0
       /\ ~ InMap(c) /\ ~ AtFill(c)
       /\ \A u \in Callers : AtUnlink(u, c) => u = t
  /\ engine[c].comm # 0 /\ c \notin stranded =>
       InMap(c) \/ AtFill(c) \/ \E t \in Callers : AtUnlink(t, c)

Tracked == \A c \in Clusters : TrackedAt(c)

(* The process thread is in unlink only while it is about to report a      *)
(* failure.                                                                *)
UnlinksWhenFailed == process.at # "failed" => unlinking["process"].at = "no"

LEMMA UnlinksWhenFailedStep ==
  ASSUME TypeOK, UnlinksWhenFailed, [Next]_vars
  PROVE  UnlinksWhenFailed'
<1> USE DEF UnlinksWhenFailed, TypeOK, Callers
<1>1. ASSUME NEW t \in Callers, UnlinkFromWindow(t) \/ UnlinkFromMap(t) \/ EngineUnlink(t)
      PROVE  UnlinksWhenFailed'
  <2>1. process' = process /\ unlinking[t].at # "no" /\ \A u \in Callers : u # t => unlinking'[u] = unlinking[u]
    BY <1>1 DEF UnlinkFromWindow, UnlinkFromMap, EngineUnlink
  <2> QED BY <2>1
<1>2. CASE \E c \in Clusters : UnlinkRemaining(c)
  BY <1>2 DEF UnlinkRemaining
<1>3. CASE ProcessPop \/ QueryMemStatus \/ RecordDeviceIp
  BY <1>3 DEF ProcessPop, QueryMemStatus, RecordDeviceIp, Items
<1>4. CASE ProcessUnlink
  BY <1>4 DEF ProcessUnlink, Items
<1>5. CASE Settle
  BY <1>5 DEF Settle
<1>6. CASE \/ \E cmd \in PdCommands : PdRole(cmd)
           \/ Link \/ FillPop \/ TryCreateLink \/ RecordComm \/ FillWindow
           \/ \E c \in Clusters : MemSettles(c)
           \/ UNCHANGED vars
  <2>1. UNCHANGED <<process, unlinking>>
    BY <1>6 DEF PdRole, Link, FillPop, TryCreateLink, RecordComm, FillWindow, MemSettles, vars
  <2> QED BY <2>1
<1> QED
  BY <1>1, <1>2, <1>3, <1>4, <1>5, <1>6, NextSteps DEF Steps

LEMMA TrackedInit == Init => Tracked
<1> SUFFICES ASSUME Init, NEW c \in Clusters PROVE TrackedAt(c)
  BY DEF Tracked
<1>1. cluster_comm_map[c] = 0 /\ engine[c].comm = 0
  BY DEF Init, NoComm
<1>2. fill.at = "pop" /\ \A t \in Callers : unlinking[t].at = "no"
  BY DEF Init, At
<1> QED
  BY <1>1, <1>2 DEF TrackedAt, InMap, AtFill, AtUnlink

(* A step that leaves the map, the engine and the three threads' part in   *)
(* it alone.                                                               *)
LEMMA TrackedFrame ==
  ASSUME TypeOK, Tracked, UNCHANGED <<cluster_comm_map, engine, stranded>>,
         \A c \in Clusters : (AtFill(c))' <=> AtFill(c),
         (\E c \in Clusters : AtFill(c)) => fill'.comm = fill.comm,
         \A c \in Clusters, t \in Callers : (AtUnlink(t, c))' <=> AtUnlink(t, c),
         \A c \in Clusters, t \in Callers : AtUnlink(t, c) => unlinking'[t].comm = unlinking[t].comm
  PROVE  Tracked'
<1> SUFFICES ASSUME NEW c \in Clusters PROVE (TrackedAt(c))'
  BY DEF Tracked
<1>1. TrackedAt(c)
  BY DEF Tracked
<1>2. (InMap(c))' <=> InMap(c)
  BY DEF InMap
<1> QED
  BY <1>1, <1>2 DEF TrackedAt

LEMMA TrackedStep ==
  ASSUME TypeOK, UnlinksWhenFailed, Tracked, [Next]_vars
  PROVE  Tracked'
<1> USE DEF Callers
<1>1. ASSUME NEW cmd \in PdCommands, PdRole(cmd)
      PROVE  Tracked'
  BY <1>1, TrackedFrame DEF PdRole, engineVars, AtFill, AtUnlink
<1>2. ASSUME NEW c \in Clusters, UnlinkRemaining(c)
      PROVE  Tracked'
  BY <1>2, TrackedFrame DEF UnlinkRemaining, engineVars, AtFill, AtUnlink, TypeOK
<1>3. CASE Link
  BY <1>3, TrackedFrame DEF Link, engineVars, AtFill, AtUnlink
<1>4. ASSUME NEW t \in Callers, UnlinkFromWindow(t)
      PROVE  Tracked'
  BY <1>4, TrackedFrame DEF UnlinkFromWindow, engineVars, AtFill, AtUnlink, TypeOK, Items
<1>5. ASSUME NEW t \in Callers, UnlinkFromMap(t)
      PROVE  Tracked'
  <2> DEFINE d == unlinking[t].cluster
  <2>1. CASE cluster_comm_map[d] = 0
    <3>1. unlinking' = [unlinking EXCEPT ![t] = At("no")] /\ unlinking[t].at = "map"
      BY <1>5, <2>1 DEF UnlinkFromMap
    <3>2. unlinking'[t].at = "no" /\ \A u \in Callers : u # t => unlinking'[u] = unlinking[u]
      BY <3>1 DEF TypeOK, At
    <3>3. UNCHANGED <<fill, cluster_comm_map, engine, stranded>>
      BY <1>5, <2>1 DEF UnlinkFromMap, engineVars
    <3> QED
      BY <3>1, <3>2, <3>3, TrackedFrame DEF AtFill, AtUnlink
  <2>2. CASE cluster_comm_map[d] # 0
    <3>1. /\ unlinking' = [unlinking EXCEPT ![t] =
               [at |-> "engine", cluster |-> d, comm |-> cluster_comm_map[d]]]
          /\ cluster_comm_map' = [cluster_comm_map EXCEPT ![d] = 0]
          /\ UNCHANGED <<fill, engine, stranded>>
      BY <1>5, <2>2 DEF UnlinkFromMap, engineVars
    <3>2. d \in Clusters /\ unlinking[t].at = "map"
      BY <1>5 DEF UnlinkFromMap, TypeOK
    <3>3. ASSUME NEW c \in Clusters
          PROVE  (TrackedAt(c))'
      <4>1. TrackedAt(c)
        BY DEF Tracked
      <4>2. \A u \in Callers : u # t => unlinking'[u] = unlinking[u]
        BY <3>1 DEF TypeOK
      <4>3. unlinking'[t] = [at |-> "engine", cluster |-> d, comm |-> cluster_comm_map[d]]
        BY <3>1 DEF TypeOK
      <4>4. CASE c # d
        <5>1. cluster_comm_map'[c] = cluster_comm_map[c]
          BY <3>1, <3>2, <4>4 DEF TypeOK
        <5>2. \A u \in Callers : (AtUnlink(u, c))' <=> AtUnlink(u, c)
          BY <4>2, <4>3, <4>4, <3>2 DEF AtUnlink
        <5>3. \A u \in Callers : AtUnlink(u, c) => unlinking'[u].comm = unlinking[u].comm
          BY <4>2, <3>2 DEF AtUnlink
        <5>4. ((InMap(c))' <=> InMap(c)) /\ ((AtFill(c))' <=> AtFill(c))
          BY <3>1, <5>1 DEF InMap, AtFill
        <5> QED
          BY <4>1, <5>1, <5>2, <5>3, <5>4, <3>1 DEF TrackedAt
      <4>5. CASE c = d
        <5>1. InMap(c) /\ ~ AtFill(c) /\ \A u \in Callers : ~ AtUnlink(u, c)
          BY <4>1, <4>5, <2>2 DEF InMap, TrackedAt
        <5>2. ~ (InMap(c))' /\ ~ (AtFill(c))'
          BY <3>1, <3>2, <4>5, <5>1 DEF InMap, AtFill, TypeOK
        <5>3. (AtUnlink(t, c))' /\ \A u \in Callers : (AtUnlink(u, c))' => u = t
          BY <4>2, <4>3, <4>5, <5>1 DEF AtUnlink
        <5>4. unlinking'[t].comm = engine'[c].comm /\ unlinking'[t].comm # 0
          BY <4>1, <4>3, <4>5, <5>1, <3>1, <2>2 DEF TrackedAt
        <5> QED
          BY <5>2, <5>3, <5>4 DEF TrackedAt
      <4> QED BY <4>4, <4>5
    <3> QED BY <3>3 DEF Tracked
  <2> QED BY <2>1, <2>2
<1>6. ASSUME NEW t \in Callers, EngineUnlink(t)
      PROVE  Tracked'
  <2> DEFINE d == unlinking[t].cluster
  <2>1. /\ unlinking' = [unlinking EXCEPT ![t] = At("no")]
        /\ UNCHANGED <<fill, cluster_comm_map>>
        /\ \/ engine' = [engine EXCEPT ![d] = NoComm] /\ stranded' = stranded
           \/ stranded' = stranded \cup {d} /\ engine' = engine
    BY <1>6 DEF EngineUnlink
  <2>2. d \in Clusters /\ AtUnlink(t, d)
    BY <1>6 DEF EngineUnlink, TypeOK, AtUnlink
  <2>3. unlinking'[t].at = "no" /\ \A u \in Callers : u # t => unlinking'[u] = unlinking[u]
    BY <2>1 DEF TypeOK, At
  <2>4. ASSUME NEW c \in Clusters
        PROVE  (TrackedAt(c))'
    <3>1. TrackedAt(c) /\ TrackedAt(d)
      BY <2>2 DEF Tracked
    <3>2. ((InMap(c))' <=> InMap(c)) /\ ((AtFill(c))' <=> AtFill(c))
      BY <2>1 DEF InMap, AtFill
    <3>3. CASE c # d
      <4>1. engine'[c] = engine[c] /\ (c \in stranded' <=> c \in stranded)
        BY <2>1, <2>2, <3>3 DEF TypeOK
      <4>2. \A u \in Callers : (AtUnlink(u, c))' <=> AtUnlink(u, c)
        BY <2>3, <2>2, <3>3 DEF AtUnlink
      <4>3. \A u \in Callers : AtUnlink(u, c) => unlinking'[u].comm = unlinking[u].comm
        BY <2>3, <3>3 DEF AtUnlink
      <4> QED
        BY <3>1, <3>2, <4>1, <4>2, <4>3, <2>1 DEF TrackedAt
    <3>4. CASE c = d
      <4>1. ~ InMap(c) /\ ~ AtFill(c) /\ \A u \in Callers : AtUnlink(u, c) => u = t
        BY <3>1, <3>4, <2>2 DEF TrackedAt
      <4>2. \A u \in Callers : ~ (AtUnlink(u, c))'
        BY <4>1, <2>3 DEF AtUnlink
      <4>3. engine'[c].comm = 0 \/ c \in stranded'
        BY <2>1, <2>2, <3>4 DEF NoComm, TypeOK
      <4> QED
        BY <3>2, <4>1, <4>2, <4>3 DEF TrackedAt
    <3> QED BY <3>3, <3>4
  <2> QED BY <2>4 DEF Tracked
<1>7. CASE FillPop
  BY <1>7, TrackedFrame DEF FillPop, engineVars, AtFill, AtUnlink
<1>8. CASE TryCreateLink
  <2> DEFINE d == fill.cluster
             new == [comm |-> last_comm + 1, mem |-> "pending"]
  <2>1. CASE fill' = [fill EXCEPT !.at = "failed"] /\ UNCHANGED <<engine, last_comm>>
    BY <1>8, <2>1, TrackedFrame DEF TryCreateLink, AtFill, AtUnlink, TypeOK, Items
  <2>2. CASE /\ engine[d].comm = 0
             /\ engine' = [engine EXCEPT ![d] = new]
             /\ fill' = [at |-> "record", cluster |-> d, comm |-> last_comm + 1]
    <3>1. d \in Clusters /\ fill.at = "create" /\ UNCHANGED <<unlinking, cluster_comm_map, stranded>>
      BY <1>8 DEF TryCreateLink, TypeOK
    <3>2. ASSUME NEW c \in Clusters
          PROVE  (TrackedAt(c))'
      <4>1. TrackedAt(c)
        BY DEF Tracked
      <4>2. ((InMap(c))' <=> InMap(c)) /\ \A u \in Callers : (AtUnlink(u, c))' <=> AtUnlink(u, c)
        BY <3>1 DEF InMap, AtUnlink
      <4>3. ~ AtFill(c) /\ ((AtFill(c))' <=> c = d)
        BY <2>2, <3>1 DEF AtFill
      <4>4. CASE c # d
        <5>1. engine'[c] = engine[c]
          BY <2>2, <3>1, <4>4 DEF TypeOK
        <5> QED
          BY <4>1, <4>2, <4>3, <4>4, <5>1, <3>1 DEF TrackedAt
      <4>5. CASE c = d
        <5>1. ~ InMap(c) /\ \A u \in Callers : ~ AtUnlink(u, c)
          BY <4>1, <4>5, <2>2 DEF TrackedAt, InMap
        <5>2. engine'[c] = new
          BY <2>2, <3>1, <4>5 DEF TypeOK
        <5>3. fill'.comm = engine'[c].comm /\ fill'.comm # 0
          BY <5>2, <2>2 DEF TypeOK
        <5> QED
          BY <4>2, <4>3, <4>5, <5>1, <5>3 DEF TrackedAt
      <4> QED BY <4>4, <4>5
    <3> QED BY <3>2 DEF Tracked
  <2> QED
    BY <1>8, <2>1, <2>2 DEF TryCreateLink
<1>9. CASE RecordComm
  <2> DEFINE d == fill.cluster
  <2>1. /\ d \in Clusters /\ AtFill(d)
        /\ fill' = [fill EXCEPT !.at = "append"]
        /\ cluster_comm_map' = [cluster_comm_map EXCEPT ![d] = fill.comm]
        /\ UNCHANGED <<unlinking, engine, stranded>>
    BY <1>9 DEF RecordComm, engineVars, TypeOK, AtFill
  <2>2. ASSUME NEW c \in Clusters
        PROVE  (TrackedAt(c))'
    <3>1. TrackedAt(c)
      BY DEF Tracked
    <3>2. \A u \in Callers : (AtUnlink(u, c))' <=> AtUnlink(u, c)
      BY <2>1 DEF AtUnlink
    <3>3. ~ (AtFill(c))' /\ (AtFill(c) <=> c = d)
      BY <2>1 DEF AtFill, TypeOK, Items
    <3>4. CASE c # d
      <4>1. cluster_comm_map'[c] = cluster_comm_map[c]
        BY <2>1, <3>4 DEF TypeOK
      <4> QED
        BY <3>1, <3>2, <3>3, <3>4, <4>1, <2>1 DEF TrackedAt, InMap
    <3>5. CASE c = d
      <4>1. cluster_comm_map'[c] = fill.comm
        BY <2>1, <3>5 DEF TypeOK
      <4> QED
        BY <3>1, <3>2, <3>3, <3>5, <4>1, <2>1 DEF TrackedAt, InMap
    <3> QED BY <3>4, <3>5
  <2> QED BY <2>2 DEF Tracked
<1>10. CASE FillWindow
  BY <1>10, TrackedFrame DEF FillWindow, engineVars, AtFill, AtUnlink, At
<1>11. CASE ProcessPop
  BY <1>11, TrackedFrame DEF ProcessPop, engineVars, AtFill, AtUnlink
<1>12. CASE QueryMemStatus
  BY <1>12, TrackedFrame DEF QueryMemStatus, engineVars, AtFill, AtUnlink
<1>13. CASE RecordDeviceIp
  BY <1>13, TrackedFrame DEF RecordDeviceIp, engineVars, AtFill, AtUnlink
<1>14. CASE ProcessUnlink
  <2>1. unlinking["process"].at = "no"
    BY <1>14 DEF ProcessUnlink, UnlinksWhenFailed
  <2>2. unlinking'["pd"] = unlinking["pd"] /\ unlinking'["process"].at \in {"no", "window"}
    BY <1>14, <2>1 DEF ProcessUnlink, TypeOK
  <2>3. UNCHANGED <<fill, cluster_comm_map, engine, stranded>>
    BY <1>14 DEF ProcessUnlink, engineVars
  <2> QED
    BY <2>1, <2>2, <2>3, TrackedFrame DEF AtFill, AtUnlink
<1>15. CASE Settle
  BY <1>15, TrackedFrame DEF Settle, engineVars, AtFill, AtUnlink
<1>16. ASSUME NEW c \in Clusters, MemSettles(c)
       PROVE  Tracked'
  <2>1. \A e \in Clusters : engine'[e].comm = engine[e].comm
    BY <1>16 DEF MemSettles, TypeOK
  <2> QED
    BY <1>16, <2>1 DEF MemSettles, Tracked, TrackedAt, InMap, AtFill, AtUnlink
<1>17. CASE UNCHANGED vars
  BY <1>17, TrackedFrame DEF vars, engineVars, AtFill, AtUnlink
<1> QED
  BY <1>1, <1>2, <1>3, <1>4, <1>5, <1>6, <1>7, <1>8, <1>9, <1>10, <1>11, <1>12, <1>13, <1>14,
     <1>15, <1>16, <1>17, NextSteps DEF Steps

LEMMA TrackedImplies == TypeOK /\ Tracked => CommTracked
<1> SUFFICES ASSUME TypeOK, Tracked, NEW c \in Clusters
             PROVE  /\ engine[c].comm # 0 /\ c \notin stranded => Keepers(c) # {}
                    /\ \A k \in Keepers(c) : Keepers(c) = {k} /\ CommOf(k, c) = engine[c].comm
  BY DEF CommTracked
<1>1. TrackedAt(c)
  BY DEF Tracked
<1>2. \A k : k \in Keepers(c) <=> \/ k \in Callers /\ AtUnlink(k, c)
                                  \/ k = "fill" /\ AtFill(c)
                                  \/ k = "map" /\ InMap(c)
  BY DEF Keepers, AtUnlink, AtFill, InMap
<1>3. "fill" \notin Callers /\ "map" \notin Callers
  BY DEF Callers
<1>4. engine[c].comm # 0 /\ c \notin stranded => Keepers(c) # {}
  BY <1>1, <1>2 DEF TrackedAt
<1>5. ASSUME NEW k \in Keepers(c)
      PROVE  Keepers(c) = {k}
  <2>1. \A j \in Keepers(c) : j = k
    BY <1>1, <1>2, <1>5 DEF TrackedAt
  <2> QED BY <2>1, <1>5
<1>6. ASSUME NEW k \in Keepers(c)
      PROVE  CommOf(k, c) = engine[c].comm
  BY <1>1, <1>2, <1>3, <1>6 DEF TrackedAt, CommOf, Callers
<1> QED
  BY <1>4, <1>5, <1>6
-----------------------------------------------------------------------------
LEMMA BoundedInit == Init => WindowBounded
  BY LinkAssumption DEF Init, WindowBounded, Held, At

(* The links under way outside the window, as the two workers hold them.   *)
HeldByFill == Held(fill, {"create", "record", "append"})
HeldByProcess == Held(process, {"query", "ok", "retry"})

LEMMA BoundedArithmetic ==
  ASSUME NEW l \in Nat, NEW f \in {0, 1}, NEW p \in {0, 1}, NEW w \in Nat, l + f + p <= w + 1,
         NEW m \in Nat, NEW g \in {0, 1}, NEW q \in {0, 1},
         \/ m <= l /\ g <= f /\ q <= p
         \/ m = l /\ l < w
         \/ m = l + 1 /\ f = 1 /\ g = 0 /\ q = p
         \/ m = l + 1 /\ p = 1 /\ q = 0 /\ g = f
         \/ m = l - 1 /\ p = 0 /\ g = f
  PROVE  m + g + q <= w + 1
  OBVIOUS

LEMMA BoundedStep ==
  ASSUME TypeOK, WindowBounded, [Next]_vars
  PROVE  WindowBounded'
<1> SUFFICES \/ Len(window') <= Len(window) /\ HeldByFill' <= HeldByFill
                /\ HeldByProcess' <= HeldByProcess
             \/ Len(window') = Len(window) /\ Len(window) < window_size
             \/ Len(window') = Len(window) + 1 /\ HeldByFill = 1 /\ HeldByFill' = 0
                /\ HeldByProcess' = HeldByProcess
             \/ Len(window') = Len(window) + 1 /\ HeldByProcess = 1 /\ HeldByProcess' = 0
                /\ HeldByFill' = HeldByFill
             \/ Len(window') = Len(window) - 1 /\ HeldByProcess = 0 /\ HeldByFill' = HeldByFill
  <2>1. window_size \in Nat /\ Len(window) \in Nat
    BY LinkAssumption DEF TypeOK
  <2>2. Len(window') \in Nat
    BY TypeStep DEF TypeOK
  <2>3. /\ HeldByFill \in {0, 1} /\ HeldByProcess \in {0, 1}
        /\ HeldByFill' \in {0, 1} /\ HeldByProcess' \in {0, 1}
    BY DEF HeldByFill, HeldByProcess, Held
  <2>4. Len(window) + HeldByFill + HeldByProcess <= window_size + 1
    BY DEF WindowBounded, HeldByFill, HeldByProcess
  <2>5. Len(window') + HeldByFill' + HeldByProcess' <= window_size + 1
    BY <2>1, <2>2, <2>3, <2>4, BoundedArithmetic
  <2> QED
    BY <2>5 DEF WindowBounded, HeldByFill, HeldByProcess
<1>1. Len(window) \in Nat /\ HeldByFill \in {0, 1} /\ HeldByProcess \in {0, 1}
  BY DEF TypeOK, HeldByFill, HeldByProcess, Held
<1>2. ASSUME UNCHANGED <<window, fill, process>>
      PROVE  /\ Len(window') <= Len(window) /\ HeldByFill' <= HeldByFill
             /\ HeldByProcess' <= HeldByProcess
  BY <1>1, <1>2 DEF HeldByFill, HeldByProcess
<1>3. ASSUME NEW t \in Callers, UnlinkFromWindow(t)
      PROVE  /\ Len(window') <= Len(window) /\ HeldByFill' <= HeldByFill
             /\ HeldByProcess' <= HeldByProcess
  <2>1. HeldByFill' = HeldByFill /\ HeldByProcess' = HeldByProcess
    BY <1>3 DEF UnlinkFromWindow, HeldByFill, HeldByProcess
  <2>2. window' = window \/ Len(window') = Len(window) - 1
    <3> DEFINE c == unlinking[t].cluster
    <3>1. CASE InWindow(c) = {}
      BY <1>3, <3>1 DEF UnlinkFromWindow
    <3>2. CASE InWindow(c) # {}
      <4>1. window' = DeleteAt(window, Least(InWindow(c)))
        BY <1>3, <3>2 DEF UnlinkFromWindow
      <4> QED BY <4>1, <3>2, LeastInWindow, DeleteAtType DEF TypeOK
    <3> QED BY <3>1, <3>2
  <2> QED
    BY <1>1, <2>1, <2>2
<1>4. CASE FillPop
  BY <1>4 DEF FillPop
<1>5. CASE TryCreateLink \/ RecordComm
  <2>1. window' = window /\ HeldByProcess' = HeldByProcess
    BY <1>5 DEF TryCreateLink, RecordComm, HeldByProcess
  <2>2. fill.at \in {"create", "record"}
    BY <1>5 DEF TryCreateLink, RecordComm
  <2>3. HeldByFill' <= HeldByFill
    BY <2>2 DEF HeldByFill, Held
  <2> QED
    BY <1>1, <2>1, <2>3
<1>6. CASE FillWindow
  <2>1. process' = process /\ fill'.at = "pop"
    BY <1>6 DEF FillWindow, At
  <2>2. HeldByProcess' = HeldByProcess /\ HeldByFill' = 0
    BY <2>1 DEF HeldByFill, HeldByProcess, Held
  <2>3. \/ fill.at = "append" /\ Len(window') = Len(window) + 1
        \/ window' = window
    BY <1>6 DEF FillWindow, TypeOK
  <2>4. fill.at = "append" => HeldByFill = 1
    BY DEF HeldByFill, Held
  <2> QED
    BY <1>1, <2>2, <2>3, <2>4
<1>7. CASE ProcessPop
  <2>1. fill' = fill /\ process.at = "pop" /\ Len(window') = Len(window) - 1
    BY <1>7, HeadTailProperties DEF ProcessPop, TypeOK
  <2>2. HeldByFill' = HeldByFill /\ HeldByProcess = 0
    BY <2>1 DEF HeldByFill, HeldByProcess, Held
  <2> QED
    BY <2>1, <2>2
<1>8. CASE QueryMemStatus \/ RecordDeviceIp \/ ProcessUnlink
  <2>1. window' = window /\ HeldByFill' = HeldByFill
    BY <1>8 DEF QueryMemStatus, RecordDeviceIp, ProcessUnlink, HeldByFill
  <2>2. \/ process.at \in {"query", "ok"}
        \/ process.at = "unlink" /\ process'.at = "failed"
    BY <1>8 DEF QueryMemStatus, RecordDeviceIp, ProcessUnlink, TypeOK, Items
  <2>3. HeldByProcess' <= HeldByProcess
    BY <2>2 DEF HeldByProcess, Held
  <2> QED
    BY <1>1, <2>1, <2>3
<1>9. CASE Settle
  <2>1. fill' = fill /\ process'.at = "pop"
    BY <1>9 DEF Settle, At
  <2>2. HeldByFill' = HeldByFill /\ HeldByProcess' = 0
    BY <2>1 DEF HeldByFill, HeldByProcess, Held
  <2>3. \/ process.at = "retry" /\ Len(window') = Len(window) + 1
        \/ window' = window
    BY <1>9 DEF Settle, TypeOK
  <2>4. process.at = "retry" => HeldByProcess = 1
    BY DEF HeldByProcess, Held
  <2> QED
    BY <1>1, <2>2, <2>3, <2>4
<1>10. ASSUME NEW t \in Callers, UnlinkFromMap(t) \/ EngineUnlink(t)
       PROVE  UNCHANGED <<window, fill, process>>
  BY <1>10 DEF UnlinkFromMap, EngineUnlink
<1>11. CASE \/ \E cmd \in PdCommands : PdRole(cmd)
            \/ \E c \in Clusters : UnlinkRemaining(c) \/ MemSettles(c)
            \/ Link \/ UNCHANGED vars
  BY <1>2, <1>11 DEF PdRole, UnlinkRemaining, MemSettles, Link, vars
<1> QED
  BY <1>2, <1>3, <1>4, <1>5, <1>6, <1>7, <1>8, <1>9, <1>10, <1>11, NextSteps DEF Steps
-----------------------------------------------------------------------------
(* Who is still at work on a link for c: the fill thread that has created  *)
(* it, the window, or the process thread, its tear-down included.          *)
FillHas(c) == fill.at \in {"record", "append"} /\ fill.cluster = c
WindowHas(c) == \E i \in 1..Len(window) : window[i].cluster = c
Judging(c) == process.cluster = c /\ process.at \in {"query", "ok", "retry", "unlink", "success"}
TearingDown(c) == unlinking["process"].at # "no" /\ unlinking["process"].cluster = c
ProcessHas(c) == Judging(c) \/ TearingDown(c)

(* The pd thread unlinks only what a command has asked for, and the        *)
(* process thread only the link it has judged.                             *)
UnlinksAsked ==
  /\ pd.todo \subseteq unlinked
  /\ unlinking["pd"].at # "no" => unlinking["pd"].cluster \in unlinked
  /\ unlinking["process"].at # "no" => unlinking["process"].cluster = process.cluster

(* Of a peer that no command has asked to unlink, one link is established  *)
(* at a time, in one place, and only while the peer is not listed as       *)
(* success; its communicator is in the map from RecordComm until a         *)
(* tear-down.                                                              *)
OneLink(c) ==
  /\ ~ (FillHas(c) /\ WindowHas(c)) /\ ~ (FillHas(c) /\ ProcessHas(c)) /\ ~ (WindowHas(c) /\ ProcessHas(c))
  /\ \A i, j \in 1..Len(window) : window[i].cluster = c /\ window[j].cluster = c => i = j
  /\ FillHas(c) \/ WindowHas(c) \/ ProcessHas(c) => engine[c].comm # 0 /\ link_result[c] # "success"

Known(c) ==
  /\ (FillHas(c) /\ fill.at = "append") \/ WindowHas(c) \/ Judging(c) => InMap(c)
  /\ process.cluster = c /\ process.at \in {"ok", "success"} => engine[c].mem = "ok"
  /\ process.cluster = c /\ process.at = "success" => c \in cluster_device_ip_map
  /\ link_result[c] = "success" => InMap(c) /\ engine[c].mem = "ok" /\ c \in cluster_device_ip_map

Undisturbed == \A c \in Clusters \ unlinked : OneLink(c) /\ Known(c)

LEMMA DeleteAtElements ==
  ASSUME NEW C, NEW s \in Seq(C), NEW i \in 1..Len(s), NEW j \in 1..(Len(s) - 1)
  PROVE  DeleteAt(s, i)[j] = IF j < i THEN s[j] ELSE s[j + 1]
<1> DEFINE a == SubSeq(s, 1, i - 1)
           b == SubSeq(s, i + 1, Len(s))
<1>1. a \in Seq(C) /\ Len(a) = i - 1 /\ \A k \in 1..(i - 1) : a[k] = s[k]
  OBVIOUS
<1>2. b \in Seq(C) /\ Len(b) = Len(s) - i /\ \A k \in 1..(Len(s) - i) : b[k] = s[i + k]
  OBVIOUS
<1>3. Len(s) \in Nat /\ i \in Nat /\ j \in Nat
  OBVIOUS
<1> HIDE DEF a, b
<1>4. \A k \in 1..(Len(a) + Len(b)) : (a \o b)[k] = IF k <= Len(a) THEN a[k] ELSE b[k - Len(a)]
  BY <1>1, <1>2, ConcatProperties
<1>5. j \in 1..(Len(a) + Len(b))
  BY <1>1, <1>2, <1>3
<1>6. (a \o b)[j] = IF j <= i - 1 THEN a[j] ELSE b[j - (i - 1)]
  BY <1>1, <1>4, <1>5
<1>7. CASE j < i
  BY <1>1, <1>3, <1>6, <1>7 DEF DeleteAt, a, b
<1>8. CASE ~ (j < i)
  <2>1. j - (i - 1) \in 1..(Len(s) - i) /\ i + (j - (i - 1)) = j + 1
    BY <1>3, <1>8
  <2>2. (a \o b)[j] = s[j + 1]
    BY <1>2, <1>3, <1>6, <1>8, <2>1
  <2> QED BY <2>2, <1>8 DEF DeleteAt, a, b
<1> QED BY <1>7, <1>8

LEMMA UnlinksAskedInit == Init => UnlinksAsked
  BY DEF Init, UnlinksAsked, At, Callers

LEMMA UnlinksAskedStep ==
  ASSUME TypeOK, UnlinksWhenFailed, UnlinksAsked, [Next]_vars
  PROVE  UnlinksAsked'
<1> USE DEF UnlinksAsked
<1>1. ASSUME NEW cmd \in PdCommands, PdRole(cmd)
      PROVE  UnlinksAsked'
  BY <1>1 DEF PdRole
<1>2. ASSUME NEW c \in Clusters, UnlinkRemaining(c)
      PROVE  UnlinksAsked'
  BY <1>2 DEF UnlinkRemaining, TypeOK, Callers
<1>3. ASSUME NEW t \in Callers, UnlinkFromWindow(t) \/ UnlinkFromMap(t) \/ EngineUnlink(t)
      PROVE  UnlinksAsked'
  <2>1. UNCHANGED <<pd, unlinked, process>>
    BY <1>3 DEF UnlinkFromWindow, UnlinkFromMap, EngineUnlink
  <2>2. \A u \in Callers : u # t => unlinking'[u] = unlinking[u]
    BY <1>3 DEF UnlinkFromWindow, UnlinkFromMap, EngineUnlink, TypeOK
  <2>3. unlinking'[t].at # "no" => unlinking[t].at # "no" /\ unlinking'[t].cluster = unlinking[t].cluster
    <3>1. CASE UnlinkFromWindow(t)
      BY <3>1 DEF UnlinkFromWindow, TypeOK, Items
    <3>2. CASE UnlinkFromMap(t)
      BY <3>2 DEF UnlinkFromMap, TypeOK, Items, At
    <3>3. CASE EngineUnlink(t)
      BY <3>3 DEF EngineUnlink, TypeOK, At
    <3> QED BY <1>3, <3>1, <3>2, <3>3
  <2> QED BY <2>1, <2>2, <2>3 DEF Callers
<1>4. CASE ProcessPop \/ QueryMemStatus \/ RecordDeviceIp \/ Settle
  <2>1. UNCHANGED <<pd, unlinked, unlinking>>
    BY <1>4 DEF ProcessPop, QueryMemStatus, RecordDeviceIp, Settle
  <2>2. unlinking["process"].at = "no"
    BY <1>4 DEF ProcessPop, QueryMemStatus, RecordDeviceIp, Settle, UnlinksWhenFailed
  <2> QED BY <2>1, <2>2
<1>5. CASE ProcessUnlink
  <2>1. /\ UNCHANGED <<pd, unlinked>> /\ unlinking["process"].at = "no"
        /\ process'.cluster = process.cluster
    BY <1>5 DEF ProcessUnlink, UnlinksWhenFailed, TypeOK, Items
  <2>2. \/ unlinking' = unlinking
        \/ unlinking' = [unlinking EXCEPT !["process"] =
                           [at |-> "window", cluster |-> process.cluster, comm |-> 0]]
    BY <1>5 DEF ProcessUnlink
  <2>3. /\ unlinking'["pd"] = unlinking["pd"]
        /\ unlinking'["process"].at # "no" => unlinking'["process"].cluster = process.cluster
    BY <2>1, <2>2 DEF TypeOK, Callers
  <2> QED BY <2>1, <2>3
<1>6. CASE \/ Link \/ FillPop \/ TryCreateLink \/ RecordComm \/ FillWindow
           \/ \E c \in Clusters : MemSettles(c)
           \/ UNCHANGED vars
  <2>1. UNCHANGED <<process, unlinking, unlinked>> /\ pd'.todo \subseteq pd.todo
    BY <1>6 DEF Link, FillPop, TryCreateLink, RecordComm, FillWindow, MemSettles, vars
  <2> QED BY <2>1
<1> QED
  BY <1>1, <1>2, <1>3, <1>4, <1>5, <1>6, NextSteps DEF Steps

(* Steps that are about another peer, or that only drop what c has.        *)
LEMMA LeftAlone ==
  ASSUME NEW c, OneLink(c), Known(c),
         FillHas(c)' => FillHas(c) /\ fill' = fill,
         UNCHANGED <<window, process>>,
         TearingDown(c)' => TearingDown(c),
         engine'[c] = engine[c], cluster_comm_map'[c] = cluster_comm_map[c],
         c \in cluster_device_ip_map => c \in cluster_device_ip_map',
         link_result'[c] = "success" => link_result[c] = "success"
  PROVE  (OneLink(c) /\ Known(c))'
<1>1. /\ WindowHas(c)' <=> WindowHas(c)
      /\ Judging(c)' <=> Judging(c)
      /\ ProcessHas(c)' => ProcessHas(c)
      /\ InMap(c)' <=> InMap(c)
  BY DEF WindowHas, Judging, ProcessHas, InMap
<1>2. OneLink(c)'
  BY <1>1 DEF OneLink
<1>3. Known(c)'
  BY <1>1 DEF Known
<1> QED BY <1>2, <1>3

LEMMA UndisturbedInit == Init => Undisturbed
<1> SUFFICES ASSUME Init, NEW c \in Clusters \ unlinked
             PROVE  OneLink(c) /\ Known(c)
  BY DEF Undisturbed
<1>1. ~ FillHas(c) /\ ~ WindowHas(c) /\ ~ ProcessHas(c) /\ link_result[c] = "none"
  BY DEF Init, FillHas, WindowHas, ProcessHas, Judging, TearingDown, At, Callers
<1> QED
  BY <1>1 DEF OneLink, Known, Init, Judging, ProcessHas, At, WindowHas

LEMMA UndisturbedStep ==
  ASSUME TypeOK, UnlinksWhenFailed, UnlinksAsked, Tracked, Undisturbed, [Next]_vars
  PROVE  Undisturbed'
<1>1. unlinked \subseteq unlinked'
  BY NextSteps DEF Steps, PdRole, UnlinkRemaining, Link, UnlinkFromWindow, UnlinkFromMap,
     EngineUnlink, FillPop, TryCreateLink, RecordComm, FillWindow, ProcessPop, QueryMemStatus,
     RecordDeviceIp, ProcessUnlink, Settle, MemSettles, vars
<1> SUFFICES ASSUME NEW c \in Clusters \ unlinked'
             PROVE  (OneLink(c) /\ Known(c))'
  BY DEF Undisturbed
<1>2. c \in Clusters /\ c \notin unlinked /\ OneLink(c) /\ Known(c) /\ TrackedAt(c)
  BY <1>1 DEF Undisturbed, Tracked
<1>3. ASSUME NEW cmd \in PdCommands, PdRole(cmd)
      PROVE  (OneLink(c) /\ Known(c))'
  <2>1. UNCHANGED <<fill, window, process, unlinking, engine, cluster_comm_map, cluster_device_ip_map>>
    BY <1>3 DEF PdRole, engineVars
  <2>2. link_result'[c] = "success" => link_result[c] = "success"
    BY <1>2, <1>3 DEF PdRole
  <2> QED BY <1>2, <2>1, <2>2, LeftAlone DEF FillHas, TearingDown
<1>4. ASSUME NEW d \in Clusters, UnlinkRemaining(d)
      PROVE  (OneLink(c) /\ Known(c))'
  <2>1. /\ UNCHANGED <<fill, window, process, engine, cluster_comm_map, cluster_device_ip_map, link_result>>
        /\ unlinking'["process"] = unlinking["process"]
    BY <1>4 DEF UnlinkRemaining, engineVars, TypeOK, Callers
  <2> QED BY <1>2, <2>1, LeftAlone DEF FillHas, TearingDown
<1>5. CASE Link
  <2>1. UNCHANGED <<fill, window, process, unlinking, engine, cluster_comm_map, cluster_device_ip_map>>
    BY <1>5 DEF Link, engineVars
  <2>2. link_result'[c] = "success" => link_result[c] = "success"
    BY <1>2, <1>5 DEF Link
  <2> QED BY <1>2, <2>1, <2>2, LeftAlone DEF FillHas, TearingDown
<1>6. ASSUME NEW t \in Callers, UnlinkFromWindow(t)
      PROVE  (OneLink(c) /\ Known(c))'
  <2> DEFINE d == unlinking[t].cluster
             k == Least(InWindow(d))
  <2>1. /\ UNCHANGED <<fill, process, engine, cluster_comm_map, cluster_device_ip_map>>
        /\ \A u \in Callers : /\ unlinking'[u].cluster = unlinking[u].cluster
                              /\ unlinking'[u].at # "no" => unlinking[u].at # "no"
    BY <1>6 DEF UnlinkFromWindow, engineVars, TypeOK, Items
  <2>2. TearingDown(c)' => TearingDown(c)
    BY <2>1 DEF TearingDown, Callers
  <2>3. CASE UNCHANGED <<window, link_result>>
    BY <1>2, <2>1, <2>2, <2>3, LeftAlone DEF FillHas
  <2>4. CASE /\ InWindow(d) # {} /\ window' = DeleteAt(window, k)
             /\ link_result' = [link_result EXCEPT ![d] = "none"]
    <3>1. window \in Seq([cluster : Clusters, comm : Nat]) /\ Len(window) \in Nat
      BY DEF TypeOK
    <3>2. k \in 1..Len(window)
      BY <2>4, <3>1, LeastInWindow
    <3> HIDE DEF k
    <3>3. Len(window') = Len(window) - 1
      BY <2>4, <3>1, <3>2, DeleteAtType
    <3> DEFINE Old(j) == IF j < k THEN j ELSE j + 1
    <3>4. \A j \in 1..Len(window') : Old(j) \in 1..Len(window) /\ window'[j] = window[Old(j)]
      BY <2>4, <3>1, <3>2, <3>3, DeleteAtElements
    <3>5. \A i, j \in 1..Len(window') : Old(i) = Old(j) => i = j
      BY <3>1, <3>2, <3>3
    <3> HIDE DEF Old
    <3>6. WindowHas(c)' => WindowHas(c)
      BY <3>4 DEF WindowHas
    <3>7. (\A i, j \in 1..Len(window) : window[i].cluster = c /\ window[j].cluster = c => i = j)'
      BY <1>2, <3>4, <3>5 DEF OneLink
    <3>8. link_result'[c] = "success" => link_result[c] = "success"
      BY <1>2, <2>4 DEF TypeOK
    <3>9. /\ (FillHas(c)' <=> FillHas(c)) /\ (Judging(c)' <=> Judging(c)) /\ (ProcessHas(c)' => ProcessHas(c))
          /\ (InMap(c)' <=> InMap(c))
      BY <2>1, <2>2 DEF FillHas, Judging, ProcessHas, InMap
    <3>10. OneLink(c)'
      BY <1>2, <2>1, <3>6, <3>7, <3>8, <3>9 DEF OneLink
    <3>11. Known(c)'
      BY <1>2, <2>1, <3>6, <3>8, <3>9 DEF Known
    <3> QED BY <3>10, <3>11
  <2> QED BY <1>6, <2>3, <2>4 DEF UnlinkFromWindow
<1>7. ASSUME NEW t \in Callers, UnlinkFromMap(t) \/ EngineUnlink(t)
      PROVE  (OneLink(c) /\ Known(c))'
  <2> DEFINE d == unlinking[t].cluster
  <2>1. /\ d \in Clusters /\ unlinking[t].at # "no"
        /\ UNCHANGED <<fill, window, process>>
    BY <1>7 DEF UnlinkFromMap, EngineUnlink, TypeOK
  <2>2. TearingDown(c)' => TearingDown(c)
    <3>1. CASE UnlinkFromMap(t)
      BY <3>1 DEF UnlinkFromMap, TearingDown, TypeOK, Callers, Items, At
    <3>2. CASE EngineUnlink(t)
      BY <3>2 DEF EngineUnlink, TearingDown, TypeOK, Callers, At
    <3> QED BY <1>7, <3>1, <3>2
  <2>3. CASE c # d
    <3>1. /\ engine'[c] = engine[c] /\ cluster_comm_map'[c] = cluster_comm_map[c]
          /\ c \in cluster_device_ip_map => c \in cluster_device_ip_map'
          /\ link_result'[c] = link_result[c]
      <4>1. CASE UnlinkFromMap(t)
        BY <1>2, <2>1, <2>3, <4>1 DEF UnlinkFromMap, engineVars, TypeOK
      <4>2. CASE EngineUnlink(t)
        BY <1>2, <2>1, <2>3, <4>2 DEF EngineUnlink, TypeOK
      <4> QED BY <1>7, <4>1, <4>2
    <3> QED BY <1>2, <2>1, <2>2, <3>1, LeftAlone DEF FillHas
  <2>4. CASE c = d
    <3>1. t = "process"
      BY <1>2, <2>1, <2>4 DEF UnlinksAsked, Callers
    <3>2. TearingDown(c) /\ process.at = "failed"
      BY <2>1, <2>4, <3>1 DEF TearingDown, UnlinksWhenFailed
    <3>3. ~ FillHas(c) /\ ~ WindowHas(c) /\ ~ Judging(c) /\ link_result[c] # "success"
      BY <1>2, <3>2 DEF OneLink, ProcessHas, Judging
    <3>4. ~ FillHas(c)' /\ ~ WindowHas(c)' /\ ~ Judging(c)'
      BY <2>1, <3>3 DEF FillHas, WindowHas, Judging
    <3>5. link_result'[c] # "success"
      <4>1. CASE UnlinkFromMap(t)
        BY <1>2, <2>1, <3>3, <4>1 DEF UnlinkFromMap, TypeOK
      <4>2. CASE EngineUnlink(t)
        BY <3>3, <4>2 DEF EngineUnlink
      <4> QED BY <1>7, <4>1, <4>2
    <3>6. TearingDown(c)' => engine'[c].comm # 0
      <4>1. CASE UnlinkFromMap(t)
        BY <1>2, <2>2, <4>1 DEF UnlinkFromMap, engineVars, OneLink, ProcessHas
      <4>2. CASE EngineUnlink(t)
        BY <3>1, <4>2 DEF EngineUnlink, TearingDown, TypeOK, Callers, At
      <4> QED BY <1>7, <4>1, <4>2
    <3>7. OneLink(c)'
      <4>1. \A i, j \in 1..Len(window') : window'[i].cluster = c /\ window'[j].cluster = c => i = j
        BY <1>2, <2>1 DEF OneLink
      <4> QED BY <3>4, <3>5, <3>6, <4>1 DEF OneLink, ProcessHas
    <3>8. Known(c)'
      BY <2>1, <3>2, <3>4, <3>5 DEF Known
    <3> QED BY <3>7, <3>8
  <2> QED BY <2>3, <2>4
<1>8. CASE FillPop
  <2>1. /\ UNCHANGED <<window, process, unlinking, engine, cluster_comm_map, cluster_device_ip_map, link_result>>
        /\ ~ FillHas(c)'
    BY <1>8 DEF FillPop, engineVars, FillHas
  <2> QED BY <1>2, <2>1, LeftAlone DEF TearingDown
<1>9. CASE TryCreateLink
  <2> DEFINE d == fill.cluster
             new == [comm |-> last_comm + 1, mem |-> "pending"]
  <2>1. UNCHANGED <<window, process, unlinking, cluster_comm_map, cluster_device_ip_map, link_result>>
    BY <1>9 DEF TryCreateLink
  <2>2. CASE fill' = [fill EXCEPT !.at = "failed"] /\ UNCHANGED <<engine, last_comm>>
    <3>1. ~ FillHas(c)'
      BY <2>2 DEF FillHas, TypeOK, Items
    <3> QED BY <1>2, <2>1, <2>2, <3>1, LeftAlone DEF TearingDown
  <2>3. CASE /\ engine[d].comm = 0
             /\ engine' = [engine EXCEPT ![d] = new]
             /\ fill' = [at |-> "record", cluster |-> d, comm |-> last_comm + 1]
    <3>1. d \in Clusters
      BY <1>9 DEF TryCreateLink, TypeOK
    <3>2. CASE c # d
      <4>1. engine'[c] = engine[c] /\ ~ FillHas(c)'
        BY <1>2, <2>3, <3>1, <3>2 DEF TypeOK, FillHas
      <4> QED BY <1>2, <2>1, <4>1, LeftAlone DEF TearingDown
    <3>3. CASE c = d
      <4>1. ~ WindowHas(c) /\ ~ ProcessHas(c) /\ ~ InMap(c)
        BY <1>2, <2>3, <3>3 DEF OneLink, TrackedAt, InMap
      <4>2. link_result[c] # "success"
        BY <1>2, <4>1 DEF Known
      <4>3. ~ WindowHas(c)' /\ ~ ProcessHas(c)' /\ ~ Judging(c)'
        BY <2>1, <4>1 DEF WindowHas, ProcessHas, Judging, TearingDown
      <4>4. fill'.at = "record" /\ engine'[c].comm # 0
        BY <2>3, <3>1, <3>3 DEF TypeOK
      <4>5. OneLink(c)'
        <5>1. \A i, j \in 1..Len(window') : window'[i].cluster = c /\ window'[j].cluster = c => i = j
          BY <1>2, <2>1 DEF OneLink
        <5> QED BY <2>1, <4>2, <4>3, <4>4, <5>1 DEF OneLink
      <4>6. Known(c)'
        BY <2>1, <4>2, <4>3, <4>4 DEF Known, Judging
      <4> QED BY <4>5, <4>6
    <3> QED BY <3>2, <3>3
  <2> QED BY <1>9, <2>2, <2>3 DEF TryCreateLink
<1>10. CASE RecordComm
  <2> DEFINE d == fill.cluster
  <2>1. /\ UNCHANGED <<window, process, unlinking, engine, cluster_device_ip_map, link_result>>
        /\ d \in Clusters /\ fill.at = "record"
        /\ fill' = [fill EXCEPT !.at = "append"]
        /\ cluster_comm_map' = [cluster_comm_map EXCEPT ![d] = fill.comm]
    BY <1>10 DEF RecordComm, engineVars, TypeOK
  <2>2. fill'.at = "append" /\ fill'.cluster = d
    BY <2>1 DEF TypeOK, Items
  <2>3. CASE c # d
    <3>1. cluster_comm_map'[c] = cluster_comm_map[c] /\ ~ FillHas(c)'
      BY <1>2, <2>1, <2>2, <2>3 DEF TypeOK, FillHas
    <3> QED BY <1>2, <2>1, <3>1, LeftAlone DEF TearingDown
  <2>4. CASE c = d
    <3>1. AtFill(c) /\ FillHas(c) /\ FillHas(c)'
      BY <2>1, <2>2, <2>4 DEF AtFill, FillHas
    <3>2. InMap(c)'
      BY <1>2, <2>1, <2>4, <3>1 DEF TrackedAt, InMap, TypeOK
    <3>3. /\ ~ WindowHas(c) /\ ~ ProcessHas(c) /\ engine[c].comm # 0 /\ link_result[c] # "success"
      BY <1>2, <3>1 DEF OneLink
    <3>4. ~ WindowHas(c)' /\ ~ ProcessHas(c)'
      BY <2>1, <3>3 DEF WindowHas, ProcessHas, Judging, TearingDown
    <3>5. OneLink(c)'
      <4>1. \A i, j \in 1..Len(window') : window'[i].cluster = c /\ window'[j].cluster = c => i = j
        BY <1>2, <2>1 DEF OneLink
      <4> QED BY <2>1, <3>3, <3>4, <4>1 DEF OneLink
    <3>6. Known(c)'
      <4>1. process'.cluster = c => process'.at \notin {"ok", "success"}
        BY <3>4 DEF ProcessHas, Judging
      <4> QED BY <2>1, <3>2, <3>3, <4>1 DEF Known
    <3> QED BY <3>5, <3>6
  <2> QED BY <2>3, <2>4
<1>11. CASE FillWindow
  <2> DEFINE d == fill.cluster
             new == [cluster |-> d, comm |-> fill.comm]
  <2>1. /\ UNCHANGED <<process, unlinking, engine, cluster_comm_map, cluster_device_ip_map>>
        /\ d \in Clusters /\ fill'.at = "pop"
    BY <1>11 DEF FillWindow, engineVars, TypeOK, At
  <2>2. ~ FillHas(c)'
    BY <2>1 DEF FillHas
  <2>3. link_result'[c] = "success" => link_result[c] = "success"
    BY <1>2, <1>11 DEF FillWindow, TypeOK
  <2>4. CASE fill.at = "failed"
    <3>1. window' = window
      BY <1>11, <2>4 DEF FillWindow
    <3> QED BY <1>2, <2>1, <2>2, <2>3, <3>1, LeftAlone DEF TearingDown
  <2>5. CASE fill.at = "append" /\ window' = Append(window, new)
    <3>1. window \in Seq([cluster : Clusters, comm : Nat]) /\ new \in [cluster : Clusters, comm : Nat]
      BY <2>1 DEF TypeOK, Items
    <3>2. new.cluster = d
      OBVIOUS
    <3> HIDE DEF new
    <3>3. /\ Len(window') = Len(window) + 1 /\ Len(window) \in Nat /\ window'[Len(window) + 1] = new
          /\ \A i \in 1..Len(window) : window'[i] = window[i]
      BY <2>5, <3>1
    <3>4. \A i \in 1..Len(window') : i \in 1..Len(window) \/ i = Len(window) + 1
      BY <3>3
    <3>5. (Judging(c)' <=> Judging(c)) /\ (ProcessHas(c)' <=> ProcessHas(c)) /\ (InMap(c)' <=> InMap(c))
      BY <2>1 DEF Judging, ProcessHas, TearingDown, InMap
    <3>6. CASE c # d
      <4>1. \A i \in 1..Len(window') : window'[i].cluster = c => i \in 1..Len(window) /\ window[i].cluster = c
        BY <3>2, <3>3, <3>4, <3>6
      <4>2. WindowHas(c)' => WindowHas(c)
        BY <4>1 DEF WindowHas
      <4>3. (\A i, j \in 1..Len(window) : window[i].cluster = c /\ window[j].cluster = c => i = j)'
        BY <1>2, <4>1 DEF OneLink
      <4>4. OneLink(c)'
        BY <1>2, <2>1, <2>2, <2>3, <3>5, <4>2, <4>3 DEF OneLink
      <4>5. Known(c)'
        BY <1>2, <2>1, <2>2, <2>3, <3>5, <4>2 DEF Known
      <4> QED BY <4>4, <4>5
    <3>7. CASE c = d
      <4>1. FillHas(c)
        BY <2>5, <3>7 DEF FillHas
      <4>2. /\ ~ WindowHas(c) /\ ~ ProcessHas(c) /\ engine[c].comm # 0 /\ link_result[c] # "success"
            /\ InMap(c)
        BY <1>2, <2>5, <4>1 DEF OneLink, Known
      <4>3. \A i \in 1..Len(window') : window'[i].cluster = c => i = Len(window) + 1
        BY <3>3, <3>4, <4>2 DEF WindowHas
      <4>4. (\A i, j \in 1..Len(window) : window[i].cluster = c /\ window[j].cluster = c => i = j)'
        BY <4>3
      <4>5. OneLink(c)'
        BY <2>1, <2>2, <2>3, <3>5, <4>2, <4>4 DEF OneLink
      <4>6. Known(c)'
        BY <1>2, <2>1, <2>2, <2>3, <3>5, <4>2 DEF Known
      <4> QED BY <4>5, <4>6
    <3> QED BY <3>6, <3>7
  <2> QED BY <1>11, <2>4, <2>5 DEF FillWindow
<1>12. CASE ProcessPop
  <2>1. /\ UNCHANGED <<fill, unlinking, engine, cluster_comm_map, cluster_device_ip_map, link_result>>
        /\ window # <<>> /\ window' = Tail(window) /\ process.at = "pop"
        /\ process' = [at |-> "query", cluster |-> window[1].cluster, comm |-> window[1].comm]
    BY <1>12 DEF ProcessPop, engineVars, TypeOK
  <2>2. unlinking["process"].at = "no"
    BY <2>1 DEF UnlinksWhenFailed
  <2>3. window \in Seq([cluster : Clusters, comm : Nat]) /\ 1 \in 1..Len(window) /\ Len(window) \in Nat
    BY <2>1 DEF TypeOK
  <2>4. Len(window') = Len(window) - 1 /\ \A i \in 1..Len(window') : window'[i] = window[i + 1]
    BY <2>1, <2>3
  <2>5. \A i \in 1..Len(window') : i + 1 \in 1..Len(window) /\ i + 1 # 1 /\ i \in Nat
    BY <2>3, <2>4
  <2>6. WindowHas(c)' => WindowHas(c)
    BY <2>4, <2>5 DEF WindowHas
  <2>7. (\A i, j \in 1..Len(window) : window[i].cluster = c /\ window[j].cluster = c => i = j)'
    <3> SUFFICES ASSUME NEW i \in 1..Len(window'), NEW j \in 1..Len(window'),
                        window'[i].cluster = c, window'[j].cluster = c
                 PROVE  i = j
      OBVIOUS
    <3>1. i + 1 = j + 1
      BY <1>2, <2>4, <2>5 DEF OneLink
    <3> QED BY <3>1, <2>5
  <2>8. process'.at = "query" /\ process'.cluster = window[1].cluster
    BY <2>1
  <2>9. /\ (FillHas(c)' <=> FillHas(c)) /\ (InMap(c)' <=> InMap(c)) /\ ~ TearingDown(c)'
        /\ (Judging(c)' <=> window[1].cluster = c)
    BY <2>1, <2>2, <2>8 DEF FillHas, InMap, TearingDown, Judging
  <2>10. Judging(c)' => WindowHas(c) /\ ~ WindowHas(c)'
    <3>1. ASSUME window[1].cluster = c, NEW i \in 1..Len(window'), window'[i].cluster = c
          PROVE  FALSE
      <4>1. window[i + 1].cluster = c /\ i + 1 \in 1..Len(window) /\ i + 1 # 1
        BY <2>4, <2>5, <3>1
      <4> QED BY <1>2, <2>3, <3>1, <4>1 DEF OneLink
    <3> QED BY <2>3, <2>9, <3>1 DEF WindowHas
  <2>11. OneLink(c)'
    BY <1>2, <2>1, <2>6, <2>7, <2>9, <2>10 DEF OneLink, ProcessHas
  <2>12. Known(c)'
    BY <1>2, <2>1, <2>6, <2>8, <2>9, <2>10 DEF Known
  <2> QED BY <2>11, <2>12
<1>13. CASE QueryMemStatus
  <2>1. /\ UNCHANGED <<fill, window, unlinking, engine, cluster_comm_map, cluster_device_ip_map, link_result>>
        /\ process.at = "query" /\ process'.cluster = process.cluster
        /\ process'.at \in {"ok", "retry", "unlink"}
    BY <1>13 DEF QueryMemStatus, engineVars, TypeOK, Items
  <2>2. process'.at = "ok" => engine[process.cluster].mem = "ok"
    <3>1. PICK status \in MemStatus(process) :
            process' = [process EXCEPT !.at = CASE status = "ok" -> "ok"
                                                [] status = "pending" -> "retry"
                                                [] OTHER -> "unlink"]
      BY <1>13 DEF QueryMemStatus
    <3>2. process'.at = "ok" => status = "ok"
      BY <3>1 DEF TypeOK, Items
    <3>3. status = "ok" => engine[process.cluster].mem = "ok"
      BY DEF MemStatus
    <3> QED BY <3>2, <3>3
  <2>3. /\ (FillHas(c)' <=> FillHas(c)) /\ (WindowHas(c)' <=> WindowHas(c)) /\ (InMap(c)' <=> InMap(c))
        /\ (TearingDown(c)' <=> TearingDown(c)) /\ (Judging(c)' <=> Judging(c))
    BY <2>1 DEF FillHas, WindowHas, InMap, TearingDown, Judging
  <2>4. OneLink(c)'
    BY <1>2, <2>1, <2>3 DEF OneLink, ProcessHas
  <2>5. Known(c)'
    BY <1>2, <2>1, <2>2, <2>3 DEF Known
  <2> QED BY <2>4, <2>5
<1>14. CASE RecordDeviceIp
  <2>1. /\ UNCHANGED <<fill, window, unlinking, engine, cluster_comm_map, link_result>>
        /\ process.at = "ok" /\ process'.cluster = process.cluster /\ process'.at = "success"
        /\ cluster_device_ip_map' = cluster_device_ip_map \cup {process.cluster}
    BY <1>14 DEF RecordDeviceIp, engineVars, TypeOK, Items
  <2>2. /\ (FillHas(c)' <=> FillHas(c)) /\ (WindowHas(c)' <=> WindowHas(c)) /\ (InMap(c)' <=> InMap(c))
        /\ (TearingDown(c)' <=> TearingDown(c)) /\ (Judging(c)' <=> Judging(c))
    BY <2>1 DEF FillHas, WindowHas, InMap, TearingDown, Judging
  <2>3. OneLink(c)'
    BY <1>2, <2>1, <2>2 DEF OneLink, ProcessHas
  <2>4. Known(c)'
    BY <1>2, <2>1, <2>2 DEF Known
  <2> QED BY <2>3, <2>4
<1>15. CASE ProcessUnlink
  <2> DEFINE d == process.cluster
             todo == [at |-> "window", cluster |-> d, comm |-> 0]
  <2>1. /\ UNCHANGED <<fill, window, engine, cluster_comm_map, cluster_device_ip_map>>
        /\ process.at = "unlink" /\ process'.cluster = d /\ process'.at = "failed"
        /\ unlinking' \in {unlinking, [unlinking EXCEPT !["process"] = todo]}
        /\ link_result' \in {link_result, [link_result EXCEPT ![d] = "none"]}
    BY <1>15 DEF ProcessUnlink, engineVars, TypeOK, Items
  <2>2. /\ (FillHas(c)' <=> FillHas(c)) /\ (WindowHas(c)' <=> WindowHas(c)) /\ (InMap(c)' <=> InMap(c))
        /\ ~ Judging(c)'
    BY <2>1 DEF FillHas, WindowHas, InMap, Judging
  <2>3. TearingDown(c)' => Judging(c)
    <3>1. unlinking["process"].at = "no"
      BY <2>1 DEF UnlinksWhenFailed
    <3>2. unlinking'["process"].at # "no" => unlinking'["process"].cluster = d
      BY <2>1, <3>1 DEF TypeOK, Callers
    <3> QED BY <2>1, <3>2 DEF TearingDown, Judging
  <2>4. link_result'[c] = "success" => link_result[c] = "success"
    BY <1>2, <2>1 DEF TypeOK
  <2>5. OneLink(c)'
    BY <1>2, <2>1, <2>2, <2>3, <2>4 DEF OneLink, ProcessHas
  <2>6. Known(c)'
    BY <1>2, <2>1, <2>2, <2>4 DEF Known
  <2> QED BY <2>5, <2>6
<1>16. CASE Settle
  <2> DEFINE d == process.cluster
             item == [cluster |-> d, comm |-> process.comm]
  <2>1. /\ UNCHANGED <<fill, unlinking, engine, cluster_comm_map, cluster_device_ip_map>>
        /\ d \in Clusters /\ process'.at = "pop" /\ unlinking["process"].at = "no"
    BY <1>16 DEF Settle, engineVars, TypeOK, At, UnlinksWhenFailed
  <2>2. /\ (FillHas(c)' <=> FillHas(c)) /\ (InMap(c)' <=> InMap(c)) /\ ~ Judging(c)' /\ ~ TearingDown(c)'
    BY <2>1 DEF FillHas, InMap, Judging, TearingDown
  <2>3. CASE process.at = "retry"
    <3>1. window' = Append(window, item) /\ link_result' = link_result
      BY <1>16, <2>3 DEF Settle
    <3>2. window \in Seq([cluster : Clusters, comm : Nat]) /\ item \in [cluster : Clusters, comm : Nat]
      BY <2>1 DEF TypeOK, Items
    <3>3. item.cluster = d
      OBVIOUS
    <3> HIDE DEF item
    <3>4. /\ Len(window') = Len(window) + 1 /\ Len(window) \in Nat /\ window'[Len(window) + 1] = item
          /\ \A i \in 1..Len(window) : window'[i] = window[i]
      BY <3>1, <3>2
    <3>5. \A i \in 1..Len(window') : i \in 1..Len(window) \/ i = Len(window) + 1
      BY <3>4
    <3>6. CASE c # d
      <4>1. \A i \in 1..Len(window') : window'[i].cluster = c => i \in 1..Len(window) /\ window[i].cluster = c
        BY <3>3, <3>4, <3>5, <3>6
      <4>2. WindowHas(c)' => WindowHas(c)
        BY <4>1 DEF WindowHas
      <4>3. (\A i, j \in 1..Len(window) : window[i].cluster = c /\ window[j].cluster = c => i = j)'
        BY <1>2, <4>1 DEF OneLink
      <4>4. OneLink(c)'
        BY <1>2, <2>1, <2>2, <3>1, <4>2, <4>3 DEF OneLink, ProcessHas
      <4>5. Known(c)'
        BY <1>2, <2>1, <2>2, <3>1, <4>2 DEF Known
      <4> QED BY <4>4, <4>5
    <3>7. CASE c = d
      <4>1. Judging(c)
        BY <2>3, <3>7 DEF Judging
      <4>2. /\ ~ WindowHas(c) /\ ~ FillHas(c) /\ engine[c].comm # 0 /\ link_result[c] # "success"
            /\ InMap(c)
        BY <1>2, <4>1 DEF OneLink, Known, ProcessHas
      <4>3. \A i \in 1..Len(window') : window'[i].cluster = c => i = Len(window) + 1
        BY <3>4, <3>5, <4>2 DEF WindowHas
      <4>4. (\A i, j \in 1..Len(window) : window[i].cluster = c /\ window[j].cluster = c => i = j)'
        BY <4>3
      <4>5. OneLink(c)'
        BY <2>1, <2>2, <3>1, <4>2, <4>4 DEF OneLink, ProcessHas
      <4>6. Known(c)'
        BY <2>1, <2>2, <3>1, <4>2 DEF Known
      <4> QED BY <4>5, <4>6
    <3> QED BY <3>6, <3>7
  <2>4. CASE /\ process.at \in {"success", "failed"} /\ window' = window
             /\ link_result' = [link_result EXCEPT ![d] = process.at]
    <3>1. WindowHas(c)' <=> WindowHas(c)
      BY <2>4 DEF WindowHas
    <3>2. (\A i, j \in 1..Len(window) : window[i].cluster = c /\ window[j].cluster = c => i = j)'
      BY <1>2, <2>4 DEF OneLink
    <3>3. CASE c = d /\ process.at = "success"
      <4>1. Judging(c)
        BY <3>3 DEF Judging
      <4>2. ~ WindowHas(c) /\ ~ FillHas(c)
        BY <1>2, <4>1 DEF OneLink, ProcessHas
      <4>3. InMap(c) /\ engine[c].mem = "ok" /\ c \in cluster_device_ip_map
        BY <1>2, <3>3, <4>1 DEF Known
      <4>4. OneLink(c)'
        BY <2>2, <3>1, <3>2, <4>2 DEF OneLink, ProcessHas
      <4>5. Known(c)'
        BY <2>1, <2>2, <3>1, <4>2, <4>3 DEF Known
      <4> QED BY <4>4, <4>5
    <3>4. CASE c # d \/ process.at # "success"
      <4>1. link_result'[c] = "success" => link_result[c] = "success"
        BY <1>2, <2>1, <2>4, <3>4 DEF TypeOK
      <4>2. OneLink(c)'
        BY <1>2, <2>1, <2>2, <3>1, <3>2, <4>1 DEF OneLink, ProcessHas
      <4>3. Known(c)'
        BY <1>2, <2>1, <2>2, <3>1, <4>1 DEF Known
      <4> QED BY <4>2, <4>3
    <3> QED BY <3>3, <3>4
  <2> QED BY <1>16, <2>3, <2>4 DEF Settle
<1>17. ASSUME NEW d \in Clusters, MemSettles(d)
       PROVE  (OneLink(c) /\ Known(c))'
  <2>1. /\ UNCHANGED <<fill, window, process, unlinking, cluster_comm_map, cluster_device_ip_map, link_result>>
        /\ engine[d].mem = "pending"
    BY <1>17 DEF MemSettles
  <2>2. PICK mem \in {"ok", "failed"} : engine' = [engine EXCEPT ![d].mem = mem]
    BY <1>17 DEF MemSettles
  <2>3. engine'[c].comm = engine[c].comm /\ (engine[c].mem = "ok" => engine'[c].mem = "ok")
    BY <1>2, <2>1, <2>2 DEF TypeOK
  <2>4. /\ (FillHas(c)' <=> FillHas(c)) /\ (WindowHas(c)' <=> WindowHas(c)) /\ (InMap(c)' <=> InMap(c))
        /\ (TearingDown(c)' <=> TearingDown(c)) /\ (Judging(c)' <=> Judging(c))
    BY <2>1 DEF FillHas, WindowHas, InMap, TearingDown, Judging
  <2>5. OneLink(c)'
    BY <1>2, <2>1, <2>3, <2>4 DEF OneLink, ProcessHas
  <2>6. Known(c)'
    BY <1>2, <2>1, <2>3, <2>4 DEF Known
  <2> QED BY <2>5, <2>6
<1>18. CASE UNCHANGED vars
  BY <1>2, <1>18, LeftAlone DEF vars, engineVars, FillHas, TearingDown
<1> QED
  BY <1>3, <1>4, <1>5, <1>6, <1>7, <1>8, <1>9, <1>10, <1>11, <1>12, <1>13, <1>14, <1>15, <1>16,
     <1>17, <1>18, NextSteps DEF Steps
-----------------------------------------------------------------------------
(* The state of the worker stays well formed, and a thread at work holds a *)
(* peer, whatever links and unlinks overlap.                               *)
THEOREM TypeCorrect == Spec => []TypeOK
<1>1. TypeOK /\ [Next]_vars => TypeOK'
  BY TypeStep
<1> QED
  BY <1>1, TypeInit, PTL DEF Spec

(* No communicator is lost or destroyed twice, for any number of peers and *)
(* commands: _try_create_link, unlink_batch and unlink hand each from one  *)
(* keeper to the next.                                                     *)
THEOREM CommsTracked == Spec => []CommTracked
<1> DEFINE IInv == TypeOK /\ UnlinksWhenFailed /\ Tracked
<1>1. Init => IInv
  BY TypeInit, TrackedInit DEF UnlinksWhenFailed, Init, At, Callers
<1>2. IInv /\ [Next]_vars => IInv'
  BY TypeStep, UnlinksWhenFailedStep, TrackedStep
<1>3. IInv => CommTracked
  BY TrackedImplies
<1> QED
  BY <1>1, <1>2, <1>3, PTL DEF Spec

(* _fill_window_worker lets at most window_size + 1 links be under way,    *)
(* for any window_size.                                                    *)
THEOREM WindowIsBounded == Spec => []WindowBounded
<1>1. TypeOK /\ WindowBounded /\ [Next]_vars => TypeOK' /\ WindowBounded'
  BY TypeStep, BoundedStep
<1> QED
  BY <1>1, TypeInit, BoundedInit, PTL DEF Spec

(* A peer that no command has asked to unlink and that is listed as        *)
(* success is up, for any peers and commands and however often it is asked *)
(* for again: _process_window_worker reports what is still so, since one   *)
(* link of the peer is established at a time and none while it is listed.  *)
THEOREM SuccessfulIsUp == Spec => []SuccessIsUp
<1> DEFINE IInv == TypeOK /\ UnlinksWhenFailed /\ UnlinksAsked /\ Tracked /\ Undisturbed
<1>1. Init => IInv
  BY TypeInit, TrackedInit, UnlinksAskedInit, UndisturbedInit DEF UnlinksWhenFailed, Init, At, Callers
<1>2. IInv /\ [Next]_vars => IInv'
  BY TypeStep, UnlinksWhenFailedStep, UnlinksAskedStep, TrackedStep, UndisturbedStep
<1>3. IInv => SuccessIsUp
  BY DEF SuccessIsUp, Undisturbed, Known, InMap, Tracked, TrackedAt
<1> QED
  BY <1>1, <1>2, <1>3, PTL DEF Spec
=============================================================================
