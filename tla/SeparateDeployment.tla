-------------------------- MODULE SeparateDeployment --------------------------
(***************************************************************************)
(* SeparateDeploymentWorker: the links over which a prefill or decode      *)
(* instance pulls KV caches from its peers.  Three threads share it: the   *)
(* router's PD-link thread (pd_role: unlink_batch, then link), and two of  *)
(* its own, one that takes requests from link_queue and creates links, and *)
(* one that waits in the window until a link's memory is registered.       *)
(*                                                                         *)
(* A step is one critical section (link_queue_cond, window_cond or         *)
(* cluster_map_lock) or one call of the transfer engine, LLMDataDist,      *)
(* which is external.  A peer has one device, so a cluster id stands for   *)
(* its device ip too, and LinkResult's four lists are one function: an ip  *)
(* is always taken out of its list before it is put into another.  Taking  *)
(* it out (remove_from_current_list: a test, then list.remove) is part of  *)
(* the step of its caller, although an unlink does so without LinkResult's *)
(* own lock.                                                               *)
(***************************************************************************)
EXTENDS Naturals, Sequences

CONSTANTS
  Clusters,      \* remote cluster ids
  NoCluster,     \* held by a thread that holds nothing
  PdCommands,    \* commands: peers to unlink, and list of peers to link
  window_size,   \* links that may wait for their memory at a time (16)
  MaxCommands    \* bound: PD_LINK commands

ASSUME LinkAssumption ==
  /\ NoCluster \notin Clusters
  /\ \A cmd \in PdCommands : cmd.unlink \in SUBSET Clusters /\ cmd.link \in Seq(Clusters)
  /\ window_size \in Nat \ {0} /\ MaxCommands \in Nat

VARIABLES
  commands,               \* commands received
  pd,                     \* pd_role: clusters still to unlink, list to link
  unlinking,              \* _unlink_after_queue_cleanup, per calling thread
  link_queue, window,
  cluster_comm_map,       \* 0: not a key
  cluster_device_ip_map,  \* its keys
  link_result,            \* the list a peer is in
  fill, process,          \* where the two workers are, and the item they hold
  engine, last_comm,      \* the engine's communicators (0: none), last id given
  stranded,               \* history: peers whose engine.unlink failed
  unlinked                \* history: peers some command asked to unlink

engineVars == <<engine, last_comm, stranded>>
vars == <<commands, pd, unlinking, link_queue, window, cluster_comm_map, cluster_device_ip_map,
          link_result, fill, process, engineVars, unlinked>>

Callers == {"pd", "process"}
NoComm == [comm |-> 0, mem |-> "pending"]
At(pc) == [at |-> pc, cluster |-> NoCluster, comm |-> 0]

Init ==
  /\ commands = 0 /\ unlinked = {} /\ stranded = {} /\ last_comm = 0
  /\ pd = [busy |-> FALSE, todo |-> {}, link |-> <<>>]
  /\ unlinking = [t \in Callers |-> At("no")]
  /\ link_queue = <<>> /\ window = <<>>
  /\ cluster_comm_map = [c \in Clusters |-> 0] /\ cluster_device_ip_map = {}
  /\ link_result = [c \in Clusters |-> "none"]
  /\ fill = At("pop") /\ process = At("pop")
  /\ engine = [c \in Clusters |-> NoComm]

(* Sequences: the members of S dropped, one position dropped, and the      *)
(* least of a set of positions.                                            *)
Drop(s, S) ==
  LET F[i \in 0..Len(s)] ==
        IF i = 0 THEN <<>> ELSE IF s[i] \in S THEN F[i - 1] ELSE Append(F[i - 1], s[i])
  IN  F[Len(s)]
DeleteAt(s, i) == SubSeq(s, 1, i - 1) \o SubSeq(s, i + 1, Len(s))
Least(I) == CHOOSE i \in I : \A j \in I : i <= j

InQueue(c) == {i \in 1..Len(link_queue) : link_queue[i] = c}
InWindow(c) == {i \in 1..Len(window) : window[i].cluster = c}
-----------------------------------------------------------------------------
(* The PD-link thread.  dmi_role.cpp sends the peers to unlink, which may  *)
(* still be linking, and those to link, which may be linking already.  The *)
(* switch of the role between the two is an assignment that no link        *)
(* depends on.  unlink_batch catches what the engine raises, so that the   *)
(* early return of pd_role on an exception of it is left out.              *)

(* unlink_batch, its first critical section: what still waits is dropped.  *)
PdRole(cmd) ==
  /\ ~ pd.busy /\ commands < MaxCommands
  /\ commands' = commands + 1
  /\ LET removed == {c \in cmd.unlink : InQueue(c) # {}}
     IN  /\ link_queue' = Drop(link_queue, cmd.unlink)
         /\ link_result' = [c \in Clusters |-> IF c \in removed THEN "none" ELSE link_result[c]]
         /\ pd' = [busy |-> TRUE, todo |-> cmd.unlink \ removed, link |-> cmd.link]
  /\ unlinked' = unlinked \cup cmd.unlink
  /\ UNCHANGED <<unlinking, window, cluster_comm_map, cluster_device_ip_map, fill, process,
                 engineVars>>

UnlinkRemaining(c) ==
  /\ pd.busy /\ c \in pd.todo /\ unlinking["pd"].at = "no"
  /\ pd' = [pd EXCEPT !.todo = @ \ {c}]
  /\ unlinking' = [unlinking EXCEPT !["pd"] = [at |-> "window", cluster |-> c, comm |-> 0]]
  /\ UNCHANGED <<commands, link_queue, window, cluster_comm_map, cluster_device_ip_map,
                 link_result, fill, process, engineVars, unlinked>>

Link ==
  /\ pd.busy /\ pd.todo = {} /\ unlinking["pd"].at = "no"
  /\ link_queue' = link_queue \o pd.link
  /\ link_result' = [c \in Clusters |->
       IF \E i \in 1..Len(pd.link) : pd.link[i] = c THEN "waiting" ELSE link_result[c]]
  /\ pd' = [busy |-> FALSE, todo |-> {}, link |-> <<>>]
  /\ UNCHANGED <<commands, unlinking, window, cluster_comm_map, cluster_device_ip_map, fill,
                 process, engineVars, unlinked>>
-----------------------------------------------------------------------------
(* _unlink_after_queue_cleanup, in three critical sections.                *)

UnlinkFromWindow(t) ==
  LET c == unlinking[t].cluster
  IN  /\ unlinking[t].at = "window"
      /\ IF InWindow(c) # {}
         THEN /\ window' = DeleteAt(window, Least(InWindow(c)))
              /\ link_result' = [link_result EXCEPT ![c] = "none"]
         ELSE UNCHANGED <<window, link_result>>
      /\ unlinking' = [unlinking EXCEPT ![t].at = "map"]
      /\ UNCHANGED <<commands, pd, link_queue, cluster_comm_map, cluster_device_ip_map, fill,
                     process, engineVars, unlinked>>

(* Mutant: the id is looked up and not popped.                             *)
UnlinkFromMapKeepsEntry(t) ==
  LET c == unlinking[t].cluster
      comm == cluster_comm_map[c]
  IN  /\ unlinking[t].at = "map"
      /\ unlinking' = [unlinking EXCEPT ![t] =
           IF comm = 0 THEN At("no") ELSE [at |-> "engine", cluster |-> c, comm |-> comm]]
      /\ cluster_device_ip_map' = cluster_device_ip_map \ {c}
      /\ UNCHANGED <<commands, pd, link_queue, window, cluster_comm_map, link_result, fill,
                     process, engineVars, unlinked>>

(* The map is asked; a peer that is not in it is "not linked", an error    *)
(* the callers only log.                                                   *)
UnlinkFromMap(t) ==
  LET c == unlinking[t].cluster
      comm == cluster_comm_map[c]
  IN  /\ unlinking[t].at = "map"
      /\ \/ /\ comm = 0
            /\ unlinking' = [unlinking EXCEPT ![t] = At("no")]
            /\ UNCHANGED <<cluster_comm_map, cluster_device_ip_map, link_result>>
         \/ /\ comm # 0
            /\ unlinking' = [unlinking EXCEPT ![t] = [at |-> "engine", cluster |-> c, comm |-> comm]]
            /\ cluster_comm_map' = [cluster_comm_map EXCEPT ![c] = 0]
            /\ cluster_device_ip_map' = cluster_device_ip_map \ {c}
            /\ link_result' = [link_result EXCEPT
                 ![c] = IF c \in cluster_device_ip_map THEN "none" ELSE @]
      /\ UNCHANGED <<commands, pd, link_queue, window, fill, process, engineVars, unlinked>>

(* engine.unlink; an LLMException leaves the communicator as it is.        *)
EngineUnlink(t) ==
  LET c == unlinking[t].cluster
  IN  /\ unlinking[t].at = "engine"
      /\ \/ engine' = [engine EXCEPT ![c] = NoComm] /\ UNCHANGED stranded
         \/ stranded' = stranded \cup {c} /\ UNCHANGED engine
      /\ unlinking' = [unlinking EXCEPT ![t] = At("no")]
      /\ UNCHANGED <<commands, pd, link_queue, window, cluster_comm_map, cluster_device_ip_map,
                     link_result, fill, process, last_comm, unlinked>>
-----------------------------------------------------------------------------
(* _fill_window_worker.                                                    *)

(* Mutant: the window's limit is not asked.                                *)
FillPopUnlimited ==
  /\ fill.at = "pop" /\ link_queue # <<>>
  /\ fill' = [at |-> "create", cluster |-> Head(link_queue), comm |-> 0]
  /\ link_queue' = Tail(link_queue)
  /\ UNCHANGED <<commands, pd, unlinking, window, cluster_comm_map, cluster_device_ip_map,
                 link_result, process, engineVars, unlinked>>

FillPop ==
  /\ fill.at = "pop" /\ link_queue # <<>> /\ Len(window) < window_size
  /\ fill' = [at |-> "create", cluster |-> Head(link_queue), comm |-> 0]
  /\ link_queue' = Tail(link_queue)
  /\ UNCHANGED <<commands, pd, unlinking, window, cluster_comm_map, cluster_device_ip_map,
                 link_result, process, engineVars, unlinked>>

(* _try_create_link up to engine.link, which refuses a peer it has a       *)
(* communicator for (LLM_ALREADY_LINK) and may fail otherwise.             *)
TryCreateLink ==
  /\ fill.at = "create"
  /\ \/ /\ engine[fill.cluster].comm = 0
        /\ last_comm' = last_comm + 1
        /\ engine' = [engine EXCEPT ![fill.cluster] = [comm |-> last_comm + 1, mem |-> "pending"]]
        /\ fill' = [at |-> "record", cluster |-> fill.cluster, comm |-> last_comm + 1]
     \/ /\ fill' = [fill EXCEPT !.at = "failed"]
        /\ UNCHANGED <<engine, last_comm>>
  /\ UNCHANGED <<commands, pd, unlinking, link_queue, window, cluster_comm_map,
                 cluster_device_ip_map, link_result, process, stranded, unlinked>>

RecordComm ==
  /\ fill.at = "record"
  /\ fill' = [fill EXCEPT !.at = "append"]
  /\ cluster_comm_map' = [cluster_comm_map EXCEPT ![fill.cluster] = fill.comm]
  /\ UNCHANGED <<commands, pd, unlinking, link_queue, window, cluster_device_ip_map, link_result,
                 process, engineVars, unlinked>>

FillWindow ==
  /\ \/ /\ fill.at = "append"
        /\ window' = Append(window, [cluster |-> fill.cluster, comm |-> fill.comm])
        /\ link_result' = [link_result EXCEPT ![fill.cluster] = "running"]
     \/ /\ fill.at = "failed"
        /\ link_result' = [link_result EXCEPT ![fill.cluster] = "failed"]
        /\ UNCHANGED window
  /\ fill' = At("pop")
  /\ UNCHANGED <<commands, pd, unlinking, link_queue, cluster_comm_map, cluster_device_ip_map,
                 process, engineVars, unlinked>>
-----------------------------------------------------------------------------
(* _process_window_worker.                                                 *)

ProcessPop ==
  /\ process.at = "pop" /\ window # <<>>
  /\ process' = [at |-> "query", cluster |-> Head(window).cluster, comm |-> Head(window).comm]
  /\ window' = Tail(window)
  /\ UNCHANGED <<commands, pd, unlinking, link_queue, cluster_comm_map, cluster_device_ip_map,
                 link_result, fill, engineVars, unlinked>>

(* What the engine knows of the link's memory.  A query may raise; one for *)
(* a communicator that has been destroyed does.                            *)
MemStatus(item) ==
  {"raised"} \cup IF engine[item.cluster].comm = item.comm THEN {engine[item.cluster].mem} ELSE {}

(* Mutant: a link that is still pending after the queries counts as up.    *)
QueryOnce ==
  /\ process.at = "query"
  /\ \E status \in MemStatus(process) :
       process' = [process EXCEPT !.at = IF status \in {"ok", "pending"} THEN "ok" ELSE "unlink"]
  /\ UNCHANGED <<commands, pd, unlinking, link_queue, window, cluster_comm_map,
                 cluster_device_ip_map, link_result, fill, engineVars, unlinked>>

(* _query_mem_status: three queries at most, which change nothing.         *)
QueryMemStatus ==
  /\ process.at = "query"
  /\ \E status \in MemStatus(process) :
       process' = [process EXCEPT !.at = CASE status = "ok" -> "ok"
                                           [] status = "pending" -> "retry"
                                           [] OTHER -> "unlink"]
  /\ UNCHANGED <<commands, pd, unlinking, link_queue, window, cluster_comm_map,
                 cluster_device_ip_map, link_result, fill, engineVars, unlinked>>

RecordDeviceIp ==
  /\ process.at = "ok"
  /\ process' = [process EXCEPT !.at = "success"]
  /\ cluster_device_ip_map' = cluster_device_ip_map \cup {process.cluster}
  /\ UNCHANGED <<commands, pd, unlinking, link_queue, window, cluster_comm_map, link_result, fill,
                 engineVars, unlinked>>

(* A link that cannot be used is torn down with unlink, which looks for    *)
(* the peer in the queue first.                                            *)
ProcessUnlink ==
  LET c == process.cluster
  IN  /\ process.at = "unlink"
      /\ process' = [process EXCEPT !.at = "failed"]
      /\ \/ /\ InQueue(c) # {}
            /\ link_queue' = DeleteAt(link_queue, Least(InQueue(c)))
            /\ link_result' = [link_result EXCEPT ![c] = "none"]
            /\ UNCHANGED unlinking
         \/ /\ InQueue(c) = {}
            /\ unlinking' = [unlinking EXCEPT
                 !["process"] = [at |-> "window", cluster |-> c, comm |-> 0]]
            /\ UNCHANGED <<link_queue, link_result>>
      /\ UNCHANGED <<commands, pd, window, cluster_comm_map, cluster_device_ip_map, fill,
                     engineVars, unlinked>>

(* Mutant: a link that is still pending is not put back.                   *)
SettleWithoutRequeue ==
  /\ process.at \in {"success", "retry", "failed"} /\ unlinking["process"].at = "no"
  /\ link_result' = [link_result EXCEPT ![process.cluster] =
       IF process.at = "retry" THEN @ ELSE process.at]
  /\ process' = At("pop")
  /\ UNCHANGED <<commands, pd, unlinking, link_queue, window, cluster_comm_map,
                 cluster_device_ip_map, fill, engineVars, unlinked>>

Settle ==
  /\ \/ /\ process.at = "retry"
        /\ window' = Append(window, [cluster |-> process.cluster, comm |-> process.comm])
        /\ UNCHANGED link_result
     \/ /\ process.at \in {"success", "failed"} /\ unlinking["process"].at = "no"
        /\ link_result' = [link_result EXCEPT ![process.cluster] = process.at]
        /\ UNCHANGED window
  /\ process' = At("pop")
  /\ UNCHANGED <<commands, pd, unlinking, link_queue, cluster_comm_map, cluster_device_ip_map,
                 fill, engineVars, unlinked>>

(* The engine: the registration of a link's memory ends.                   *)
MemSettles(c) ==
  /\ engine[c].comm # 0 /\ engine[c].mem = "pending"
  /\ \E mem \in {"ok", "failed"} : engine' = [engine EXCEPT ![c].mem = mem]
  /\ UNCHANGED <<commands, pd, unlinking, link_queue, window, cluster_comm_map,
                 cluster_device_ip_map, link_result, fill, process, last_comm, stranded, unlinked>>
-----------------------------------------------------------------------------
Unlink(t) == UnlinkFromWindow(t) \/ UnlinkFromMap(t) \/ EngineUnlink(t)
PdThread == (\E c \in Clusters : UnlinkRemaining(c)) \/ Link \/ Unlink("pd")
FillThread == FillPop \/ TryCreateLink \/ RecordComm \/ FillWindow
ProcessThread ==
  \/ ProcessPop \/ QueryMemStatus \/ RecordDeviceIp \/ ProcessUnlink \/ Settle
  \/ Unlink("process")

Next ==
  \/ \E cmd \in PdCommands : PdRole(cmd)
  \/ PdThread \/ FillThread \/ ProcessThread
  \/ \E c \in Clusters : MemSettles(c)

Spec == Init /\ [][Next]_vars

(* The threads run; no command need come; the engine gives up a link after *)
(* link_total_time, so its memory does not stay pending.                   *)
FairSpec ==
  /\ Spec
  /\ WF_vars(PdThread) /\ WF_vars(FillThread) /\ WF_vars(ProcessThread)
  /\ \A c \in Clusters : WF_vars(MemSettles(c))
-----------------------------------------------------------------------------
Items(pcs) == [at : pcs, cluster : Clusters \cup {NoCluster}, comm : Nat]

(* The state is well formed; a thread that is at work holds a peer.        *)
TypeOK ==
  /\ commands \in 0..MaxCommands
  /\ pd \in [busy : BOOLEAN, todo : SUBSET Clusters, link : Seq(Clusters)]
  /\ unlinking \in [Callers -> Items({"no", "window", "map", "engine"})]
  /\ \A t \in Callers : unlinking[t].at # "no" => unlinking[t].cluster \in Clusters
  /\ link_queue \in Seq(Clusters)
  /\ window \in Seq([cluster : Clusters, comm : Nat])
  /\ cluster_comm_map \in [Clusters -> Nat] /\ cluster_device_ip_map \in SUBSET Clusters
  /\ link_result \in [Clusters -> {"none", "waiting", "running", "success", "failed"}]
  /\ fill \in Items({"pop", "create", "record", "append", "failed"})
  /\ fill.at # "pop" => fill.cluster \in Clusters
  /\ process \in Items({"pop", "query", "ok", "retry", "unlink", "success", "failed"})
  /\ process.at # "pop" => process.cluster \in Clusters
  /\ engine \in [Clusters -> [comm : Nat, mem : {"pending", "ok", "failed"}]]
  /\ last_comm \in Nat
  /\ stranded \in SUBSET Clusters /\ unlinked \in SUBSET Clusters

(* Who can give the communicator of c back: the map, for a later unlink,   *)
(* the fill thread that is about to enter it there, or a thread that has   *)
(* taken it out and is about to call engine.unlink.                        *)
Keepers(c) ==
  {t \in Callers : unlinking[t].at = "engine" /\ unlinking[t].cluster = c}
    \cup (IF fill.at = "record" /\ fill.cluster = c THEN {"fill"} ELSE {})
    \cup (IF cluster_comm_map[c] # 0 THEN {"map"} ELSE {})

CommOf(k, c) ==
  CASE k = "map" -> cluster_comm_map[c]
    [] k = "fill" -> fill.comm
    [] OTHER -> unlinking[k].comm

(* Every communicator the engine has is known to exactly one keeper, and   *)
(* under the right id, whatever links and unlinks overlap: none is lost    *)
(* and none is destroyed twice.  The exception is a peer whose             *)
(* engine.unlink failed: the map has forgotten it by then                  *)
(* (_unlink_after_queue_cleanup pops before it unlinks), so it cannot be   *)
(* unlinked, or linked, any more.                                          *)
CommTracked ==
  \A c \in Clusters :
    /\ engine[c].comm # 0 /\ c \notin stranded => Keepers(c) # {}
    /\ \A k \in Keepers(c) : Keepers(c) = {k} /\ CommOf(k, c) = engine[c].comm

(* window_size bounds the links that are being established, up to one: the *)
(* fill thread does not count the item the process thread has in hand.     *)
Held(item, pcs) == IF item.at \in pcs THEN 1 ELSE 0
WindowBounded ==
  Len(window) + Held(fill, {"create", "record", "append"})
              + Held(process, {"query", "ok", "retry"}) <= window_size + 1

(* A peer that no command has asked to unlink and that is listed as        *)
(* success is in the map and its memory is registered, also if it was      *)
(* asked for again meanwhile.  (With unlinks it is not so: one that        *)
(* overtakes the process thread between its query and add_to_success       *)
(* leaves the entry behind.)                                               *)
SuccessIsUp ==
  \A c \in Clusters \ unlinked :
    link_result[c] = "success" =>
      /\ cluster_comm_map[c] # 0 /\ cluster_comm_map[c] = engine[c].comm
      /\ engine[c].mem = "ok" /\ c \in cluster_device_ip_map

(* Every link that is asked for ends: it is listed as success or failed,   *)
(* or an unlink takes it off the lists.                                    *)
EveryLinkSettles ==
  \A c \in Clusters :
    link_result[c] \in {"waiting", "running"} ~> link_result[c] \in {"success", "failed", "none"}
=============================================================================
