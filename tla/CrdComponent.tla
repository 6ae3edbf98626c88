---------------------------- MODULE CrdComponent ----------------------------
(***************************************************************************)
(* The life of the testbed's nodes in the central resource daemon          *)
(* (src/crd/onlcrd_component.cc and the component lists of                 *)
(* onlcrd_session_manager.cc).                                             *)
(*                                                                         *)
(* A node outlives the crd_component objects that stand for it: one at the *)
(* start of the daemon, one for each session that is given the node, one   *)
(* for a keeboot node that comes up unexpectedly.  The objects share the   *)
(* node's state in the database but each has a state_lock of its own.  On  *)
(* an object run up to three threads: do_initialize, do_refresh and the    *)
(* session's clear, which calls remove_component and refresh.              *)
(*                                                                         *)
(* Each action is what one thread does while it holds a lock or between    *)
(* two calls that block (a database query, a request to the node, a wait). *)
(***************************************************************************)
EXTENDS Naturals

CONSTANTS Nodes,      \* the testbed's nodes, each with a control processor
          Comps,      \* crd_component objects
          NodeOf,     \* the node of each object
          StartComps, \* the objects session_manager::initialize creates
          SessComps,  \* the objects of session commits
          Keeboot,    \* nodes that boot a second time into a file system
          DepOf,      \* the node that an object's node dominates, or NoNode
          NoNode,
          MaxReboots  \* bound: times a node reboots on its own

\* The remaining objects are made by received_up_msg.
UpComps == Comps \ (StartComps \cup SessComps)

ASSUME CompsAssumption ==
  /\ NodeOf \in [Comps -> Nodes]
  /\ StartComps \subseteq Comps /\ SessComps \subseteq Comps
  /\ StartComps \cap SessComps = {}
  /\ \A c, d \in StartComps : NodeOf[c] = NodeOf[d] => c = d
ASSUME NodesAssumption ==
  /\ Keeboot \subseteq Nodes
  /\ NoNode \notin Nodes
  /\ DepOf \in [Comps -> Nodes \cup {NoNode}]
  /\ \A c, d \in Comps : DepOf[d] = NodeOf[c] => DepOf[c] = NoNode
  /\ \A c \in UpComps : DepOf[c] = NoNode
ASSUME NamesAssumption == {"idle", "unknown", "refresh"} \cap Comps = {}
ASSUME RebootAssumption == MaxReboots \in Nat

VARIABLES
  db,             \* the state column of the nodes table
  boot,           \* external: whether the node runs or is booting
  reboots,        \* reboots of its own so far
  upq,            \* an up message of the node has not been processed
  upth,           \* received_up_msg: "idle", or what it has looked up
  kparam,         \* session_manager::keeboot_params has an entry
  where,          \* the session_manager list the object is on
  local_state,    \* crd_component::local_state
  needs_refresh,  \* crd_component::needs_refresh
  keebooting_now, \* crd_component::keebooting_now
  up_msg,         \* crd_component::received_up_msg
  compreq,        \* crd_component::compreq is set
  answer,         \* the status of the response to the add request
  dstate,         \* the dependent state do_initialize has read
  slock,          \* do_initialize holds state_lock across blocking calls
  ipc,            \* do_initialize
  rpc,            \* do_refresh, called by its own thread or by do_initialize
  depth,          \* do_refresh calls itself: the calls below the first
  spc             \* the session's use of the object

nodeVars == <<db, boot, reboots>>
upVars   == <<upq, upth>>
reqVars  == <<compreq, answer>>
pcVars   == <<ipc, rpc, depth, spc>>
vars == <<db, boot, reboots, upq, upth, kparam, where, local_state,
          needs_refresh, keebooting_now, up_msg, compreq, answer, dstate,
          slock, ipc, rpc, depth, spc>>

-----------------------------------------------------------------------------
DbStates == {"free", "refreshing", "initializing", "active", "repair"}
LocalStates == {"none", "new", "repair", "done", "refreshing", "initializing"}
Answers == {"none", "Fine", "Failed", "crash"}
InitPcs == {"none", "start", "poll", "dep", "stuck", "decide", "inline", "config",
            "active", "finish", "fail", "refresh", "clear", "exit"}
Callers == {"thread", "inline"}
RefreshPcs == {"none", "connect", "wait", "dep", "kconnect", "kwait", "free",
               "fail", "back", "clear", "exit"}
SessPcs == {"absent", "added", "running", "removed", "clear", "exit"}

MaxDepth == 1  \* bound: do_refresh calls itself once

Dependents == {DepOf[c] : c \in Comps} \ {NoNode}

\* set_state("repair") also power-cycles the node, unless it is dependent.
PowerCycled(n) == IF n \in Dependents THEN boot[n] ELSE "booting"

\* A faulty get_dependent_state: no state at all for an object without a
\* dependent.
DepStateUnread(c) == IF DepOf[c] = NoNode THEN "" ELSE db[DepOf[c]]

\* get_dependent_state, for an object with no dependent always "free".
DepState(c) == IF DepOf[c] = NoNode THEN "free" ELSE db[DepOf[c]]

BadDep(s) == s \in {"refreshing", "repair"}

(***************************************************************************)
(* The state after session_manager::initialize, which makes an object for  *)
(* every free node, puts it on the refreshing list and calls refresh: the  *)
(* node is "refreshing" and do_refresh has been started.                   *)
(***************************************************************************)
Init ==
  /\ db = [n \in Nodes |-> IF \E c \in StartComps : NodeOf[c] = n
                           THEN "refreshing" ELSE "free"]
  /\ boot = [n \in Nodes |-> "up"]
  /\ reboots = [n \in Nodes |-> 0]
  /\ upq = [n \in Nodes |-> FALSE]
  /\ upth = [n \in Nodes |-> "idle"]
  /\ kparam = [n \in Nodes |-> FALSE]
  /\ where = [c \in Comps |-> IF c \in StartComps THEN "refreshing" ELSE "out"]
  /\ local_state = [c \in Comps |-> IF c \in StartComps THEN "refreshing"
                                                        ELSE "none"]
  /\ needs_refresh = [c \in Comps |-> FALSE]
  /\ keebooting_now = [c \in Comps |-> FALSE]
  /\ up_msg = [c \in Comps |-> FALSE]
  /\ compreq = [c \in Comps |-> FALSE]
  /\ answer = [c \in Comps |-> "none"]
  /\ dstate = [c \in Comps |-> "free"]
  /\ slock = [c \in Comps |-> FALSE]
  /\ ipc = [c \in Comps |-> "none"]
  /\ rpc = [r \in Comps \X Callers |->
             IF r[1] \in StartComps /\ r[2] = "thread" THEN "connect"
                                                     ELSE "none"]
  /\ depth = [r \in Comps \X Callers |-> 0]
  /\ spc = [c \in Comps |-> "absent"]

-----------------------------------------------------------------------------
(* session_manager::clear_component.                                       *)

\* The object leaves the refreshing list; one that is not on it is only
\* warned about ("really should never get here..").
ClearComponent(c) ==
  where' = [where EXCEPT ![c] = IF @ = "refreshing" THEN "out" ELSE @]

(* crd_component::refresh, one critical section of state_lock.             *)

\* A faulty refresh: an object that was never initialized stays "new".
RefreshClearsNew(c) ==
  LET n == NodeOf[c] IN
  /\ ~slock[c]
  /\ \/ /\ db[n] = "repair"
        /\ local_state' = [local_state EXCEPT ![c] = "repair"]
        /\ compreq' = [compreq EXCEPT ![c] = IF local_state[c] = "repair" THEN @
                                                 ELSE FALSE]
     \/ /\ db[n] # "repair"
        /\ local_state[c] = "new" /\ db[n] # "free"
        /\ UNCHANGED <<local_state, compreq>>
  /\ UNCHANGED <<db, needs_refresh, rpc>>

\* The node is in repair, or the object was never initialized: the caller
\* goes on to clear_component.
RefreshClears(c) ==
  LET n == NodeOf[c] IN
  /\ ~slock[c]
  /\ \/ /\ db[n] = "repair"
        /\ local_state' = [local_state EXCEPT ![c] = "repair"]
        /\ compreq' = [compreq EXCEPT ![c] = IF local_state[c] = "repair" THEN @
                                                 ELSE FALSE]
     \/ /\ db[n] # "repair"
        /\ local_state[c] = "new" /\ db[n] # "free"
        /\ local_state' = [local_state EXCEPT ![c] = "done"]
        /\ UNCHANGED compreq
  /\ UNCHANGED <<db, needs_refresh, rpc>>

\* Some object is initializing the node, or a refresh is under way.
RefreshReturns(c) ==
  LET n == NodeOf[c] IN
  /\ ~slock[c]
  /\ db[n] # "repair"
  /\ local_state[c] = "new" => db[n] = "free"
  /\ \/ /\ db[n] = "initializing"
        /\ needs_refresh' = [needs_refresh EXCEPT ![c] = TRUE]
     \/ /\ db[n] # "initializing"
        /\ db[n] = "refreshing" \/ local_state[c] = "refreshing"
        /\ needs_refresh' = [needs_refresh EXCEPT ![c] = FALSE]
  /\ UNCHANGED <<db, local_state, compreq, rpc>>

\* A faulty refresh: it leaves the pending refresh set.
RefreshSpawnsPending(c) ==
  LET n == NodeOf[c] IN
  /\ ~slock[c]
  /\ db[n] \in {"free", "active"}
  /\ local_state[c] # "refreshing"
  /\ local_state' = [local_state EXCEPT ![c] = "refreshing"]
  /\ db' = [db EXCEPT ![n] = "refreshing"]
  /\ rpc' = [rpc EXCEPT ![<<c, "thread">>] = "connect"]
  /\ UNCHANGED <<needs_refresh, compreq>>

\* The node is to be refreshed by a new thread.
RefreshSpawns(c) ==
  LET n == NodeOf[c] IN
  /\ ~slock[c]
  /\ db[n] \in {"free", "active"}
  /\ local_state[c] # "refreshing"
  /\ local_state' = [local_state EXCEPT ![c] = "refreshing"]
  /\ db' = [db EXCEPT ![n] = "refreshing"]
  /\ needs_refresh' = [needs_refresh EXCEPT ![c] = FALSE]
  /\ rpc' = [rpc EXCEPT ![<<c, "thread">>] = "connect"]
  /\ UNCHANGED compreq

-----------------------------------------------------------------------------
(* What the session does with an object.                                   *)

\* session::commit: get_component and session_manager::add_component, which
\* has cleared the session of another object of the node that was active.
AddComponent(c) ==
  LET n == NodeOf[c] IN
  /\ c \in SessComps
  /\ spc[c] = "absent"
  /\ \A d \in Comps : NodeOf[d] = n => where[d] # "active"
  /\ spc' = [spc EXCEPT ![c] = "added"]
  /\ where' = [where EXCEPT ![c] = "active"]
  /\ local_state' = [local_state EXCEPT ![c] = "new"]
  /\ compreq' = [compreq EXCEPT ![c] = TRUE]
  /\ \E b \in BOOLEAN :
       /\ b => n \in Keeboot
       /\ kparam' = [kparam EXCEPT ![n] = b]
  /\ UNCHANGED <<nodeVars, upVars, needs_refresh, keebooting_now, up_msg,
                 answer, dstate, slock, ipc, rpc, depth>>

\* session::commit: initialize starts do_initialize.
Initialize(c) ==
  /\ spc[c] = "added"
  /\ spc' = [spc EXCEPT ![c] = "running"]
  /\ ipc' = [ipc EXCEPT ![c] = "start"]
  /\ UNCHANGED <<nodeVars, upVars, kparam, where, local_state, needs_refresh,
                 keebooting_now, up_msg, reqVars, dstate, slock, rpc, depth>>

\* session::clear: remove_component, at any time after the commit.
RemoveComponent(c) ==
  /\ spc[c] = "running"
  /\ spc' = [spc EXCEPT ![c] = "removed"]
  /\ where' = [where EXCEPT ![c] = "refreshing"]
  /\ UNCHANGED <<nodeVars, upVars, kparam, local_state, needs_refresh,
                 keebooting_now, up_msg, reqVars, dstate, slock, ipc, rpc,
                 depth>>

\* session::clear: refresh.
SessionRefresh(c) ==
  /\ spc[c] = "removed"
  /\ \/ RefreshClears(c) /\ spc' = [spc EXCEPT ![c] = "clear"]
     \/ RefreshReturns(c) /\ spc' = [spc EXCEPT ![c] = "exit"]
     \/ RefreshSpawns(c) /\ spc' = [spc EXCEPT ![c] = "exit"]
  /\ UNCHANGED <<boot, reboots, upVars, kparam, where, keebooting_now, up_msg,
                 answer, dstate, slock, ipc, depth>>

SessionClear(c) ==
  /\ spc[c] = "clear"
  /\ ClearComponent(c)
  /\ spc' = [spc EXCEPT ![c] = "exit"]
  /\ UNCHANGED <<nodeVars, upVars, kparam, local_state, needs_refresh,
                 keebooting_now, up_msg, reqVars, dstate, slock, ipc, rpc,
                 depth>>

-----------------------------------------------------------------------------
(* crd_component::do_initialize.                                           *)

\* The dependent's state is read once, before the node is polled.
ReadDep(c) ==
  /\ ipc[c] = "start"
  /\ ipc' = [ipc EXCEPT ![c] = "poll"]
  /\ dstate' = [dstate EXCEPT ![c] = DepState(c)]
  /\ UNCHANGED <<nodeVars, upVars, kparam, where, local_state, needs_refresh,
                 keebooting_now, up_msg, reqVars, slock, rpc, depth, spc>>

\* A faulty loop: a node in repair does not end it.
PollRepairMissed(c) ==
  /\ ipc[c] = "poll"
  /\ db[NodeOf[c]] = "repair"
  /\ local_state[c] # "new"
  /\ ipc' = [ipc EXCEPT ![c] = "clear"]
  /\ UNCHANGED <<nodeVars, upVars, kparam, where, local_state, needs_refresh,
                 keebooting_now, up_msg, reqVars, dstate, slock, rpc, depth,
                 spc>>

\* The polling loop finds the node in repair.
PollRepair(c) ==
  /\ ipc[c] = "poll"
  /\ db[NodeOf[c]] = "repair"
  /\ local_state' = [local_state EXCEPT ![c] = "repair"]
  /\ ipc' = [ipc EXCEPT ![c] = IF local_state[c] # "repair" THEN "fail"
                                                            ELSE "clear"]
  /\ UNCHANGED <<nodeVars, upVars, kparam, where, needs_refresh,
                 keebooting_now, up_msg, reqVars, dstate, slock, rpc, depth,
                 spc>>

\* A faulty loop: the dependent is not waited for.
PollEndsAlone(c) ==
  /\ ipc[c] = "poll"
  /\ db[NodeOf[c]] # "repair"
  /\ db[NodeOf[c]] = "free" \/ local_state[c] # "new"
  /\ slock' = [slock EXCEPT ![c] = TRUE]
  /\ ipc' = [ipc EXCEPT ![c] = "decide"]
  /\ UNCHANGED <<nodeVars, upVars, kparam, where, local_state, needs_refresh,
                 keebooting_now, up_msg, reqVars, dstate, rpc, depth, spc>>

\* The polling loop ends with state_lock held: the node is free, or refresh
\* was called meanwhile.
PollEnds(c) ==
  LET s == db[NodeOf[c]] IN
  /\ ipc[c] = "poll"
  /\ s # "repair"
  /\ s = "free" \/ local_state[c] # "new"
  /\ slock' = [slock EXCEPT ![c] = TRUE]
  /\ ipc' = [ipc EXCEPT ![c] = IF BadDep(dstate[c]) THEN "dep" ELSE "decide"]
  /\ UNCHANGED <<nodeVars, upVars, kparam, where, local_state, needs_refresh,
                 keebooting_now, up_msg, reqVars, dstate, rpc, depth, spc>>

\* Up to 30 s of waiting for the dependent: it may be reread as long as it
\* refreshes, and is given up at any time.
DepPoll(c) ==
  /\ ipc[c] = "dep"
  /\ dstate[c] = "refreshing"
  /\ dstate' = [dstate EXCEPT ![c] = DepState(c)]
  /\ dstate'[c] # dstate[c]
  /\ ipc' = [ipc EXCEPT ![c] = IF BadDep(dstate'[c]) THEN "dep" ELSE "decide"]
  /\ UNCHANGED <<nodeVars, upVars, kparam, where, local_state, needs_refresh,
                 keebooting_now, up_msg, reqVars, slock, rpc, depth, spc>>

\* The dependent is still not up: do_refresh is called with state_lock held.
\* It reaches the node or answers the add request, and then waits for the
\* lock, in get_type or in cleanup_reqs.
DepGivenUp(c) ==
  LET n == NodeOf[c] IN
  /\ ipc[c] = "dep"
  /\ keebooting_now' = [keebooting_now EXCEPT ![c] = TRUE]
  /\ ipc' = [ipc EXCEPT ![c] = "stuck"]
  /\ \/ /\ boot[n] = "up"
        /\ boot' = [boot EXCEPT ![n] = "booting"]
        /\ UNCHANGED reqVars
     \/ /\ answer' = [answer EXCEPT ![c] = IF compreq[c] THEN "Failed" ELSE @]
        /\ compreq' = [compreq EXCEPT ![c] = FALSE]
        /\ UNCHANGED boot
  /\ UNCHANGED <<db, reboots, upVars, kparam, where, local_state,
                 needs_refresh, up_msg, dstate, slock, rpc, depth, spc>>

\* Refresh was called before the object was initialized.
Abandon(c) ==
  /\ ipc[c] = "decide"
  /\ local_state[c] # "new"
  /\ slock' = [slock EXCEPT ![c] = FALSE]
  /\ compreq' = [compreq EXCEPT ![c] = FALSE]
  /\ ipc' = [ipc EXCEPT ![c] = "clear"]
  /\ UNCHANGED <<nodeVars, upVars, kparam, where, local_state, needs_refresh,
                 keebooting_now, up_msg, answer, dstate, rpc, depth, spc>>

\* A faulty do_initialize: the keeboot parameter is not looked at.
ClaimNoKeeboot(c) ==
  /\ ipc[c] = "decide"
  /\ local_state[c] = "new"
  /\ local_state' = [local_state EXCEPT ![c] = "initializing"]
  /\ db' = [db EXCEPT ![NodeOf[c]] = "initializing"]
  /\ slock' = [slock EXCEPT ![c] = FALSE]
  /\ ipc' = [ipc EXCEPT ![c] = "config"]
  /\ UNCHANGED <<boot, reboots, upVars, kparam, where, needs_refresh, up_msg,
                 keebooting_now, reqVars, dstate, rpc, depth, spc>>

\* The node is taken; a keeboot node whose parameter is still set is
\* refreshed by do_initialize itself.
Claim(c) ==
  LET n == NodeOf[c]
      inline == n \in Keeboot /\ kparam[n]
  IN
  /\ ipc[c] = "decide"
  /\ local_state[c] = "new"
  /\ local_state' = [local_state EXCEPT ![c] = "initializing"]
  /\ db' = [db EXCEPT ![n] = "initializing"]
  /\ slock' = [slock EXCEPT ![c] = FALSE]
  /\ keebooting_now' = [keebooting_now EXCEPT ![c] = IF inline THEN TRUE ELSE @]
  /\ rpc' = [rpc EXCEPT ![<<c, "inline">>] = IF inline THEN "connect" ELSE @]
  /\ ipc' = [ipc EXCEPT ![c] = IF inline THEN "inline" ELSE "config"]
  /\ UNCHANGED <<boot, reboots, upVars, kparam, where, needs_refresh, up_msg,
                 reqVars, dstate, depth, spc>>

\* The inline refresh has returned.
InlineDone(c) ==
  /\ ipc[c] = "inline"
  /\ rpc[<<c, "inline">>] = "back"
  /\ rpc' = [rpc EXCEPT ![<<c, "inline">>] = "none"]
  /\ keebooting_now' = [keebooting_now EXCEPT ![c] = FALSE]
  /\ ipc' = [ipc EXCEPT ![c] = IF db[NodeOf[c]] = "repair" THEN "clear"
                                                          ELSE "config"]
  /\ UNCHANGED <<nodeVars, upVars, kparam, where, local_state, needs_refresh,
                 up_msg, reqVars, dstate, slock, depth, spc>>

\* No connection, or no answer to start_experiment.
ConfigFails(c) ==
  /\ ipc[c] = "config"
  /\ ipc' = [ipc EXCEPT ![c] = "fail"]
  /\ UNCHANGED <<nodeVars, upVars, kparam, where, local_state, needs_refresh,
                 keebooting_now, up_msg, reqVars, dstate, slock, rpc, depth,
                 spc>>

\* start_experiment, the port configurations and end_configure_node have
\* been answered, well or not; the add request gets its response.  The node
\* must be up to answer.
Respond(c) ==
  /\ ipc[c] = "config"
  /\ boot[NodeOf[c]] = "up"
  /\ \E ok \in {"Fine", "Failed"} :
       answer' = [answer EXCEPT ![c] = IF compreq[c] THEN ok ELSE "crash"]
  /\ compreq' = [compreq EXCEPT ![c] = FALSE]
  /\ ipc' = [ipc EXCEPT ![c] = "active"]
  /\ UNCHANGED <<nodeVars, upVars, kparam, where, local_state, needs_refresh,
                 keebooting_now, up_msg, dstate, slock, rpc, depth, spc>>

SetActive(c) ==
  /\ ipc[c] = "active"
  /\ db' = [db EXCEPT ![NodeOf[c]] = "active"]
  /\ ipc' = [ipc EXCEPT ![c] = "finish"]
  /\ UNCHANGED <<boot, reboots, upVars, kparam, where, local_state,
                 needs_refresh, keebooting_now, up_msg, reqVars, dstate, slock,
                 rpc, depth, spc>>

\* A faulty end: the pending refresh is forgotten.
FinishForgets(c) ==
  /\ ipc[c] = "finish"
  /\ ipc' = [ipc EXCEPT ![c] = "exit"]
  /\ UNCHANGED <<nodeVars, upVars, kparam, where, local_state, needs_refresh,
                 keebooting_now, up_msg, reqVars, dstate, slock, rpc, depth,
                 spc>>

\* The session was cleared while the object was being initialized.
Finish(c) ==
  /\ ipc[c] = "finish"
  /\ ipc' = [ipc EXCEPT ![c] = IF needs_refresh[c] THEN "refresh" ELSE "exit"]
  /\ UNCHANGED <<nodeVars, upVars, kparam, where, local_state, needs_refresh,
                 keebooting_now, up_msg, reqVars, dstate, slock, rpc, depth,
                 spc>>

\* cleanup_reqs(true): a waiting add request fails, the node goes to repair.
Repair(c) ==
  /\ compreq' = [compreq EXCEPT ![c] = FALSE]
  /\ answer' = [answer EXCEPT ![c] = IF compreq[c] THEN "Failed" ELSE @]
  /\ db' = [db EXCEPT ![NodeOf[c]] = "repair"]
  /\ boot' = [boot EXCEPT ![NodeOf[c]] = PowerCycled(NodeOf[c])]
  /\ local_state' = [local_state EXCEPT ![c] = "repair"]
  /\ UNCHANGED needs_refresh

InitFails(c) ==
  /\ ipc[c] = "fail"
  /\ Repair(c)
  /\ ipc' = [ipc EXCEPT ![c] = IF needs_refresh[c] THEN "refresh" ELSE "exit"]
  /\ UNCHANGED <<reboots, upVars, kparam, where, keebooting_now, up_msg,
                 dstate, slock, rpc, depth, spc>>

InitRefresh(c) ==
  /\ ipc[c] = "refresh"
  /\ \/ RefreshClears(c) /\ ipc' = [ipc EXCEPT ![c] = "clear"]
     \/ RefreshReturns(c) /\ ipc' = [ipc EXCEPT ![c] = "exit"]
     \/ RefreshSpawns(c) /\ ipc' = [ipc EXCEPT ![c] = "exit"]
  /\ UNCHANGED <<boot, reboots, upVars, kparam, where, keebooting_now, up_msg,
                 answer, dstate, slock, depth, spc>>

InitClear(c) ==
  /\ ipc[c] = "clear"
  /\ ClearComponent(c)
  /\ ipc' = [ipc EXCEPT ![c] = "exit"]
  /\ UNCHANGED <<nodeVars, upVars, kparam, local_state, needs_refresh,
                 keebooting_now, up_msg, reqVars, dstate, slock, rpc, depth,
                 spc>>

InitStep(c) == \/ ReadDep(c) \/ PollRepair(c) \/ PollEnds(c) \/ DepPoll(c)
               \/ DepGivenUp(c)
               \/ Abandon(c) \/ Claim(c) \/ InlineDone(c) \/ ConfigFails(c)
               \/ Respond(c) \/ SetActive(c) \/ Finish(c) \/ InitFails(c)
               \/ InitRefresh(c) \/ InitClear(c)

-----------------------------------------------------------------------------
(* crd_component::do_refresh, in a thread of its own or inline.            *)

refreshFrame == <<reboots, upVars, where, keebooting_now, dstate, slock, ipc,
                  spc>>

\* The refresh message is answered and the node reboots.
SendRefresh(c, k) ==
  /\ rpc[<<c, k>>] = "connect"
  /\ boot[NodeOf[c]] = "up"
  /\ boot' = [boot EXCEPT ![NodeOf[c]] = "booting"]
  /\ rpc' = [rpc EXCEPT ![<<c, k>>] = "wait"]
  /\ UNCHANGED <<refreshFrame, db, kparam, local_state, needs_refresh, up_msg,
                 reqVars, depth>>

\* No connection or no answer; nothing but a warning for a dependent node.
SendRefreshFails(c, k) ==
  /\ rpc[<<c, k>>] = "connect"
  /\ rpc' = [rpc EXCEPT ![<<c, k>>] = IF NodeOf[c] \in Dependents THEN "wait"
                                                          ELSE "fail"]
  /\ UNCHANGED <<refreshFrame, db, boot, kparam, local_state, needs_refresh,
                 up_msg, reqVars, depth>>

\* What follows the first up message, once the dependent is up.
AfterUp(c) == IF NodeOf[c] \in Keeboot THEN "kconnect" ELSE "free"

\* wait_for_up_msg returns true.
GotUp(c, k) ==
  /\ rpc[<<c, k>>] \in {"wait", "kwait"}
  /\ up_msg[c]
  /\ up_msg' = [up_msg EXCEPT ![c] = FALSE]
  /\ rpc' = [rpc EXCEPT ![<<c, k>>] = IF @ = "kwait" THEN "free"
                               ELSE IF BadDep(DepState(c)) THEN "dep"
                               ELSE AfterUp(c)]
  /\ UNCHANGED <<refreshFrame, db, boot, kparam, local_state, needs_refresh,
                 reqVars, depth>>

\* wait_for_up_msg times out, perhaps although the message has just come.
UpTimeout(c, k) ==
  /\ rpc[<<c, k>>] \in {"wait", "kwait"}
  /\ up_msg' = [up_msg EXCEPT ![c] = FALSE]
  /\ rpc' = [rpc EXCEPT ![<<c, k>>] = "fail"]
  /\ UNCHANGED <<refreshFrame, db, boot, kparam, local_state, needs_refresh,
                 reqVars, depth>>

\* The dependent came up within 30 s.
DepUp(c, k) ==
  /\ rpc[<<c, k>>] = "dep"
  /\ ~BadDep(DepState(c))
  /\ rpc' = [rpc EXCEPT ![<<c, k>>] = AfterUp(c)]
  /\ UNCHANGED <<refreshFrame, db, boot, kparam, local_state, needs_refresh,
                 up_msg, reqVars, depth>>

\* It did not: do_refresh calls itself.
RefreshAgain(c, k) ==
  /\ rpc[<<c, k>>] = "dep"
  /\ BadDep(DepState(c))
  /\ depth[<<c, k>>] < MaxDepth
  /\ depth' = [depth EXCEPT ![<<c, k>>] = @ + 1]
  /\ rpc' = [rpc EXCEPT ![<<c, k>>] = "connect"]
  /\ UNCHANGED <<refreshFrame, db, boot, kparam, local_state, needs_refresh,
                 up_msg, reqVars>>

\* The keeboot request is answered; the parameter is consumed.
SendKeeboot(c, k) ==
  /\ rpc[<<c, k>>] = "kconnect"
  /\ boot[NodeOf[c]] = "up"
  /\ boot' = [boot EXCEPT ![NodeOf[c]] = "booting"]
  /\ kparam' = [kparam EXCEPT ![NodeOf[c]] = FALSE]
  /\ rpc' = [rpc EXCEPT ![<<c, k>>] = "kwait"]
  /\ UNCHANGED <<refreshFrame, db, local_state, needs_refresh, up_msg, reqVars,
                 depth>>

\* No connection, or no good answer, before or after the parameter is taken.
SendKeebootFails(c, k) ==
  /\ rpc[<<c, k>>] = "kconnect"
  /\ \/ UNCHANGED kparam
     \/ kparam' = [kparam EXCEPT ![NodeOf[c]] = FALSE]
  /\ rpc' = [rpc EXCEPT ![<<c, k>>] = "fail"]
  /\ UNCHANGED <<refreshFrame, db, boot, local_state, needs_refresh, up_msg,
                 reqVars, depth>>

\* do_refresh returns: to itself, to do_initialize or to its own thread.
Return(c, k) ==
  /\ depth' = [depth EXCEPT ![<<c, k>>] = IF @ > 0 THEN @ - 1 ELSE 0]
  /\ rpc' = [rpc EXCEPT ![<<c, k>>] = IF depth[<<c, k>>] > 0 THEN AfterUp(c)
                                  ELSE IF k = "inline" THEN "back"
                                  ELSE "clear"]

\* The node is free, unless do_initialize holds it for its session.
RefreshFree(c, k) ==
  /\ rpc[<<c, k>>] = "free"
  /\ ~slock[c]
  /\ db' = IF keebooting_now[c] THEN db ELSE [db EXCEPT ![NodeOf[c]] = "free"]
  /\ Return(c, k)
  /\ UNCHANGED <<refreshFrame, boot, kparam, local_state, needs_refresh,
                 up_msg, reqVars>>

RefreshFails(c, k) ==
  /\ rpc[<<c, k>>] = "fail"
  /\ ~slock[c]
  /\ Repair(c)
  /\ Return(c, k)
  /\ UNCHANGED <<refreshFrame, kparam, up_msg>>

\* The end of the thread.
RefreshClear(c, k) ==
  /\ rpc[<<c, k>>] = "clear"
  /\ ClearComponent(c)
  /\ rpc' = [rpc EXCEPT ![<<c, k>>] = "exit"]
  /\ UNCHANGED <<nodeVars, upVars, kparam, local_state, needs_refresh,
                 keebooting_now, up_msg, reqVars, dstate, slock, ipc, depth,
                 spc>>

RefreshStep(c, k) ==
  \/ SendRefresh(c, k) \/ SendRefreshFails(c, k) \/ GotUp(c, k)
  \/ UpTimeout(c, k) \/ DepUp(c, k) \/ RefreshAgain(c, k)
  \/ SendKeeboot(c, k) \/ SendKeebootFails(c, k) \/ RefreshFree(c, k)
  \/ RefreshFails(c, k) \/ RefreshClear(c, k)

-----------------------------------------------------------------------------
(* The nodes, and session_manager::received_up_msg.                        *)

upFrame == <<needs_refresh, keebooting_now, reqVars, dstate, slock, ipc,
             depth, spc>>

\* A node has booted and says so.
NodeUp(n) ==
  /\ boot[n] = "booting"
  /\ ~upq[n]
  /\ boot' = [boot EXCEPT ![n] = "up"]
  /\ upq' = [upq EXCEPT ![n] = TRUE]
  /\ UNCHANGED <<upFrame, db, reboots, upth, kparam, where, local_state, up_msg,
                 rpc>>

\* A node reboots on its own: a power failure, a kernel panic, an operator.
NodeReboots(n) ==
  /\ boot[n] = "up"
  /\ reboots[n] < MaxReboots
  /\ boot' = [boot EXCEPT ![n] = "booting"]
  /\ reboots' = [reboots EXCEPT ![n] = @ + 1]
  /\ UNCHANGED <<upFrame, db, upVars, kparam, where, local_state, up_msg, rpc>>

Listed(n, l) == {c \in Comps : NodeOf[c] = n /\ where[c] = l}

\* The handler looks for an object of the node, under comp_lock.
LookUp(n) ==
  /\ upq[n]
  /\ upth[n] = "idle"
  /\ upq' = [upq EXCEPT ![n] = FALSE]
  /\ LET found == IF Listed(n, "refreshing") # {} THEN Listed(n, "refreshing")
                                                  ELSE Listed(n, "active")
     IN \E t \in IF found = {} THEN {"unknown"} ELSE found :
          upth' = [upth EXCEPT ![n] = t]
  /\ UNCHANGED <<upFrame, nodeVars, kparam, where, local_state, up_msg, rpc>>

\* got_up_msg.
DeliverUp(n) ==
  /\ upth[n] \in Comps
  /\ up_msg' = [up_msg EXCEPT ![upth[n]] = TRUE]
  /\ upth' = [upth EXCEPT ![n] = "idle"]
  /\ UNCHANGED <<upFrame, nodeVars, upq, kparam, where, local_state, rpc>>

\* The node was in no list: it is free, and a keeboot node is refreshed by
\* a new object.
UpUnknown(n) ==
  /\ upth[n] = "unknown"
  /\ db' = [db EXCEPT ![n] = "free"]
  /\ \/ /\ n \notin Keeboot
        /\ upth' = [upth EXCEPT ![n] = "idle"]
        /\ UNCHANGED <<where, local_state>>
     \/ /\ n \in Keeboot
        /\ \E c \in UpComps :
             /\ NodeOf[c] = n /\ local_state[c] = "none"
             /\ where' = [where EXCEPT ![c] = "refreshing"]
             /\ local_state' = [local_state EXCEPT ![c] = "new"]
        /\ upth' = [upth EXCEPT ![n] = "refresh"]
  /\ UNCHANGED <<upFrame, boot, reboots, upq, kparam, up_msg, rpc>>

UpRefresh(n) ==
  /\ upth[n] = "refresh"
  /\ \E c \in UpComps :
       /\ NodeOf[c] = n /\ where[c] = "refreshing" /\ local_state[c] = "new"
       /\ \/ RefreshClears(c) /\ ClearComponent(c)
          \/ (RefreshReturns(c) \/ RefreshSpawns(c)) /\ UNCHANGED where
  /\ upth' = [upth EXCEPT ![n] = "idle"]
  /\ UNCHANGED <<boot, reboots, upq, kparam, keebooting_now, up_msg, answer,
                 dstate, slock, ipc, depth, spc>>

UpStep(n) == LookUp(n) \/ DeliverUp(n) \/ UpUnknown(n) \/ UpRefresh(n)

-----------------------------------------------------------------------------
SessionStep(c) == \/ AddComponent(c) \/ Initialize(c) \/ RemoveComponent(c)
                  \/ SessionRefresh(c) \/ SessionClear(c)

Next ==
  \/ \E c \in Comps : SessionStep(c) \/ InitStep(c)
  \/ \E c \in Comps, k \in Callers : RefreshStep(c, k)
  \/ \E n \in Nodes : NodeUp(n) \/ NodeReboots(n) \/ UpStep(n)

(***************************************************************************)
(* The threads of the daemon run as long as they can, and a node that      *)
(* boots comes up or its boot is timed out.  Nothing obliges a session to  *)
(* begin, a node to reboot or a call to fail.                              *)
(***************************************************************************)
Fairness ==
  /\ \A c \in Comps : /\ WF_vars(InitStep(c))
                      /\ WF_vars(Initialize(c))
                      /\ WF_vars(SessionRefresh(c)) /\ WF_vars(SessionClear(c))
  /\ \A c \in Comps, k \in Callers : WF_vars(RefreshStep(c, k))
  /\ \A n \in Nodes : WF_vars(UpStep(n))

Spec == Init /\ [][Next]_vars
FairSpec == Spec /\ Fairness

-----------------------------------------------------------------------------
\* The variables hold values the code can give them; depth stays in its bound.
TypeOK ==
  /\ db \in [Nodes -> DbStates]
  /\ boot \in [Nodes -> {"up", "booting"}]
  /\ reboots \in [Nodes -> 0 .. MaxReboots]
  /\ upq \in [Nodes -> BOOLEAN]
  /\ upth \in [Nodes -> {"idle", "unknown", "refresh"} \cup Comps]
  /\ kparam \in [Nodes -> BOOLEAN]
  /\ where \in [Comps -> {"out", "active", "refreshing"}]
  /\ local_state \in [Comps -> LocalStates]
  /\ needs_refresh \in [Comps -> BOOLEAN]
  /\ keebooting_now \in [Comps -> BOOLEAN]
  /\ up_msg \in [Comps -> BOOLEAN]
  /\ compreq \in [Comps -> BOOLEAN]
  /\ answer \in [Comps -> Answers]
  /\ dstate \in [Comps -> DbStates]
  /\ slock \in [Comps -> BOOLEAN]
  /\ ipc \in [Comps -> InitPcs]
  /\ rpc \in [Comps \X Callers -> RefreshPcs]
  /\ depth \in [Comps \X Callers -> 0 .. MaxDepth]
  /\ spc \in [Comps -> SessPcs]

Running(c) == ipc[c] \notin {"none", "exit"}
Refreshing(c, k) == rpc[<<c, k>>] \notin {"none", "exit"}

\* An object on the refreshing list is somebody's business: a session that is
\* clearing, do_initialize, do_refresh or received_up_msg is still to call
\* clear_component.  An orphan would catch every later up message of the node,
\* for the refreshing list is searched first (received_up_msg, refresh).
NoOrphan ==
  \A c \in Comps : where[c] = "refreshing" =>
    \/ spc[c] \in {"removed", "clear"}
    \/ Running(c)
    \/ Refreshing(c, "thread")
    \/ upth[NodeOf[c]] = "refresh"

\* A do_refresh thread has no pending refresh to repeat: when it fails,
\* cleanup_reqs does not call refresh once more on an object that its own
\* thread is about to clear.
NoPendingRefresh ==
  \A c \in Comps : Refreshing(c, "thread") => ~needs_refresh[c]

\* do_initialize gives up its claim on the node for good once the session's
\* clear has called refresh, whichever of the two comes first to state_lock.
ClearedNeverClaims ==
  [][\A c \in Comps : spc[c] \in {"clear", "exit"} =>
       ~(ipc[c] = "decide" /\ ipc'[c] \in {"inline", "config"})]_vars

\* A node that dominates another is taken only when the other is neither
\* refreshing nor in repair (do_initialize, "make sure the dependent is free").
DependentReady ==
  [][\A c \in Comps : ipc[c] = "decide" /\ ipc'[c] \in {"inline", "config"} =>
       ~BadDep(DepState(c))]_vars

\* A keeboot node that is still held for its session is configured only after it has
\* booted the file system the session asked for (do_initialize, "we have to reboot to
\* pick up the fs").  do_initialize reads the outcome of that boot from the state of
\* the node in the database, which cleanup_reqs has set to repair when it failed.
KeebootBeforeConfig ==
  \A c \in Comps :
    ipc[c] = "config" /\ spc[c] = "running" /\ db[NodeOf[c]] = "initializing" =>
      ~kparam[NodeOf[c]]

\* The same for every session's keeboot node.  This fails: an up message of a boot
\* before, for which the handler found no object, frees the node between the failed
\* boot and the check (received_up_msg).
BootedBeforeConfig ==
  \A c \in Comps : ipc[c] = "config" /\ spc[c] = "running" => ~kparam[NodeOf[c]]

\* Every object leaves the refreshing list (remove_component and initialize
\* put it there, clear_component takes it off).
EveryObjectCleared ==
  \A c \in Comps : where[c] = "refreshing" ~> where[c] = "out"

\* do_initialize ends: it does not poll for ever for a node that never becomes
\* free, nor wait for ever for its own lock.
InitializeEnds == \A c \in Comps : ipc[c] = "start" ~> ipc[c] = "exit"
=============================================================================
