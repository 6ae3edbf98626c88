-------------------------- MODULE CrdComponentProofs --------------------------
(***************************************************************************)
(* What CrdComponent guarantees for any set of nodes, objects and sessions *)
(* and any dependence between nodes: types, that a cleared session never   *)
(* takes a node, that a refresh thread has no pending refresh, that no     *)
(* object stays on the refreshing list, that a node is taken only when the *)
(* node it dominates is ready, and that a keeboot node is configured in    *)
(* its own file system.                                                    *)
(***************************************************************************)
EXTENDS CrdComponent, TLAPS

-----------------------------------------------------------------------------
(* Types.                                                                  *)

\* The state of a dependent is a state of the database (get_dependent_state).
LEMMA DepStateType == ASSUME TypeOK, NEW c \in Comps PROVE DepState(c) \in DbStates
  BY NodesAssumption DEF DepState, TypeOK, DbStates

\* The daemon's first state has the right types (session_manager::initialize).
LEMMA InitTypeOK == Init => TypeOK
<1>. SUFFICES ASSUME Init PROVE TypeOK
  OBVIOUS
<1>. USE CompsAssumption, NodesAssumption, RebootAssumption
<1>1. rpc \in [Comps \X Callers -> RefreshPcs]
  BY DEF Init, RefreshPcs, Callers
<1>2. depth \in [Comps \X Callers -> 0 .. MaxDepth]
  BY DEF Init, MaxDepth, Callers
<1>. QED
  BY <1>1, <1>2 DEF Init, TypeOK, DbStates, LocalStates, InitPcs, SessPcs,
                    Answers

\* What a call of crd_component::refresh may change keeps its type.
LEMMA RefreshTypes ==
  ASSUME TypeOK, NEW c \in Comps,
         RefreshClears(c) \/ RefreshReturns(c) \/ RefreshSpawns(c)
  PROVE  /\ db' \in [Nodes -> DbStates]
         /\ local_state' \in [Comps -> LocalStates]
         /\ compreq' \in [Comps -> BOOLEAN]
         /\ needs_refresh' \in [Comps -> BOOLEAN]
         /\ rpc' \in [Comps \X Callers -> RefreshPcs]
<1>. USE CompsAssumption DEF TypeOK, DbStates, LocalStates
<1>1. CASE RefreshClears(c)
  <2>1. local_state' \in [Comps -> LocalStates] /\ UNCHANGED <<db, needs_refresh, rpc>>
    BY <1>1 DEF RefreshClears
  <2>2. CASE compreq' = [compreq EXCEPT ![c] = IF local_state[c] = "repair"
                                              THEN @ ELSE FALSE]
    <3>1. CASE local_state[c] = "repair"
      BY <2>1, <2>2, <3>1
    <3>2. CASE local_state[c] # "repair"
      BY <2>1, <2>2, <3>2
    <3>. QED
      BY <2>1, <3>1, <3>2
  <2>3. CASE UNCHANGED compreq
    BY <2>1, <2>3
  <2>. QED
    BY <1>1, <2>1, <2>2, <2>3 DEF RefreshClears
<1>2. CASE RefreshReturns(c)
  BY <1>2 DEF RefreshReturns
<1>3. CASE RefreshSpawns(c)
  BY <1>3 DEF RefreshSpawns, RefreshPcs, Callers
<1>. QED
  BY <1>1, <1>2, <1>3

\* So does what cleanup_reqs(true) changes.
LEMMA RepairTypes ==
  ASSUME TypeOK, NEW c \in Comps, Repair(c)
  PROVE  /\ db' \in [Nodes -> DbStates]
         /\ boot' \in [Nodes -> {"up", "booting"}]
         /\ local_state' \in [Comps -> LocalStates]
         /\ compreq' \in [Comps -> BOOLEAN]
         /\ answer' \in [Comps -> Answers]
         /\ needs_refresh' \in [Comps -> BOOLEAN]
  BY CompsAssumption DEF Repair, PowerCycled, TypeOK, DbStates, LocalStates,
                         Answers

\* And the return from do_refresh.
LEMMA ReturnTypes ==
  ASSUME TypeOK, NEW c \in Comps, NEW k \in Callers, Return(c, k)
  PROVE  /\ rpc' \in [Comps \X Callers -> RefreshPcs]
         /\ depth' \in [Comps \X Callers -> 0 .. MaxDepth]
<1>1. rpc' \in [Comps \X Callers -> RefreshPcs]
  BY DEF Return, AfterUp, TypeOK, RefreshPcs
<1>2. depth' \in [Comps \X Callers -> 0 .. MaxDepth]
  BY DEF Return, TypeOK, MaxDepth
<1>. QED
  BY <1>1, <1>2


\* The session steps keep the types.
LEMMA SessionTypes ==
  ASSUME TypeOK, NEW c \in Comps, SessionStep(c)
  PROVE  TypeOK'
<1>. USE CompsAssumption, NodesAssumption, RebootAssumption
<1>1. CASE AddComponent(c)
  <2>1. /\ spc' \in [Comps -> SessPcs]
        /\ where' \in [Comps -> {"out", "active", "refreshing"}]
        /\ local_state' \in [Comps -> LocalStates]
        /\ compreq' \in [Comps -> BOOLEAN]
    BY <1>1 DEF AddComponent, TypeOK, SessPcs, LocalStates
  <2>2. kparam' \in [Nodes -> BOOLEAN]
    BY <1>1, CompsAssumption DEF AddComponent, TypeOK
  <2>3. UNCHANGED <<nodeVars, upVars, needs_refresh, keebooting_now, up_msg,
                    answer, dstate, slock, ipc, rpc, depth>>
    BY <1>1 DEF AddComponent
  <2>. QED
    BY <2>1, <2>2, <2>3 DEF TypeOK, nodeVars, upVars
<1>2. CASE Initialize(c)
  BY <1>2 DEF Initialize, TypeOK, DbStates, LocalStates, InitPcs, SessPcs,
         Answers, RefreshPcs, Callers, MaxDepth, nodeVars, upVars, reqVars
<1>3. CASE RemoveComponent(c)
  BY <1>3 DEF RemoveComponent, TypeOK, DbStates, LocalStates, InitPcs, SessPcs,
         Answers, RefreshPcs, Callers, MaxDepth, nodeVars, upVars, reqVars
<1>4. CASE SessionRefresh(c)
  <2>1. /\ spc' \in [Comps -> SessPcs]
        /\ UNCHANGED <<boot, reboots, upVars, kparam, where, keebooting_now,
                       up_msg, answer, dstate, slock, ipc, depth>>
    BY <1>4 DEF SessionRefresh, TypeOK, SessPcs
  <2>2. RefreshClears(c) \/ RefreshReturns(c) \/ RefreshSpawns(c)
    BY <1>4 DEF SessionRefresh
  <2>. QED
    BY <2>1, <2>2, RefreshTypes DEF TypeOK, upVars
<1>5. CASE SessionClear(c)
  BY <1>5 DEF SessionClear, ClearComponent, TypeOK, DbStates, LocalStates, InitPcs, SessPcs,
         Answers, RefreshPcs, Callers, MaxDepth, nodeVars, upVars, reqVars
<1>. QED
  BY <1>1, <1>2, <1>3, <1>4, <1>5 DEF SessionStep

\* The steps of do_initialize keep the types.
LEMMA InitializeTypes ==
  ASSUME TypeOK, NEW c \in Comps, InitStep(c)
  PROVE  TypeOK'
<1>. USE CompsAssumption, NodesAssumption, RebootAssumption
<1>1. CASE ReadDep(c)
  BY <1>1, DepStateType DEF ReadDep, TypeOK, DbStates, LocalStates, InitPcs, SessPcs,
         Answers, RefreshPcs, Callers, MaxDepth, nodeVars, upVars, reqVars
<1>2. CASE PollRepair(c)
  BY <1>2 DEF PollRepair, TypeOK, DbStates, LocalStates, InitPcs, SessPcs,
         Answers, RefreshPcs, Callers, MaxDepth, nodeVars, upVars, reqVars
<1>3. CASE PollEnds(c)
  BY <1>3 DEF PollEnds, TypeOK, DbStates, LocalStates, InitPcs, SessPcs,
         Answers, RefreshPcs, Callers, MaxDepth, nodeVars, upVars, reqVars
<1>4. CASE DepPoll(c)
  BY <1>4, DepStateType DEF DepPoll, TypeOK, DbStates, LocalStates, InitPcs, SessPcs,
         Answers, RefreshPcs, Callers, MaxDepth, nodeVars, upVars, reqVars
<1>5. CASE DepGivenUp(c)
  <2>1. /\ boot' \in [Nodes -> {"up", "booting"}]
        /\ compreq' \in [Comps -> BOOLEAN]
        /\ answer' \in [Comps -> Answers]
    <3>1. CASE UNCHANGED reqVars
      BY <1>5, <3>1 DEF DepGivenUp, TypeOK, Answers, reqVars
    <3>2. CASE UNCHANGED boot
      BY <1>5, <3>2 DEF DepGivenUp, TypeOK, Answers, reqVars
    <3>. QED
      BY <1>5, <3>1, <3>2 DEF DepGivenUp
  <2>2. /\ keebooting_now' \in [Comps -> BOOLEAN]
        /\ ipc' \in [Comps -> InitPcs]
        /\ UNCHANGED <<db, reboots, upVars, kparam, where, local_state,
                       needs_refresh, up_msg, dstate, slock, rpc, depth, spc>>
    BY <1>5 DEF DepGivenUp, TypeOK, InitPcs
  <2>. QED
    BY <2>1, <2>2 DEF TypeOK, upVars
<1>6. CASE Abandon(c)
  BY <1>6 DEF Abandon, TypeOK, DbStates, LocalStates, InitPcs, SessPcs,
         Answers, RefreshPcs, Callers, MaxDepth, nodeVars, upVars, reqVars
<1>7. CASE Claim(c)
  BY <1>7 DEF Claim, TypeOK, DbStates, LocalStates, InitPcs, SessPcs,
         Answers, RefreshPcs, Callers, MaxDepth, nodeVars, upVars, reqVars
<1>8. CASE InlineDone(c)
  BY <1>8 DEF InlineDone, TypeOK, DbStates, LocalStates, InitPcs, SessPcs,
         Answers, RefreshPcs, Callers, MaxDepth, nodeVars, upVars, reqVars
<1>9. CASE ConfigFails(c)
  BY <1>9 DEF ConfigFails, TypeOK, DbStates, LocalStates, InitPcs, SessPcs,
         Answers, RefreshPcs, Callers, MaxDepth, nodeVars, upVars, reqVars
<1>10. CASE Respond(c)
  BY <1>10 DEF Respond, TypeOK, DbStates, LocalStates, InitPcs, SessPcs,
         Answers, RefreshPcs, Callers, MaxDepth, nodeVars, upVars, reqVars
<1>11. CASE SetActive(c)
  BY <1>11 DEF SetActive, TypeOK, DbStates, LocalStates, InitPcs, SessPcs,
         Answers, RefreshPcs, Callers, MaxDepth, nodeVars, upVars, reqVars
<1>12. CASE Finish(c)
  BY <1>12 DEF Finish, TypeOK, DbStates, LocalStates, InitPcs, SessPcs,
         Answers, RefreshPcs, Callers, MaxDepth, nodeVars, upVars, reqVars
<1>13. CASE InitFails(c)
  BY <1>13 DEF InitFails, Repair, PowerCycled, TypeOK, DbStates, LocalStates, InitPcs, SessPcs,
         Answers, RefreshPcs, Callers, MaxDepth, nodeVars, upVars, reqVars
<1>14. CASE InitRefresh(c)
  <2>1. /\ ipc' \in [Comps -> InitPcs]
        /\ UNCHANGED <<boot, reboots, upVars, kparam, where, keebooting_now,
                       up_msg, answer, dstate, slock, depth, spc>>
    BY <1>14 DEF InitRefresh, TypeOK, InitPcs
  <2>2. RefreshClears(c) \/ RefreshReturns(c) \/ RefreshSpawns(c)
    BY <1>14 DEF InitRefresh
  <2>. QED
    BY <2>1, <2>2, RefreshTypes DEF TypeOK, upVars
<1>15. CASE InitClear(c)
  BY <1>15 DEF InitClear, ClearComponent, TypeOK, DbStates, LocalStates, InitPcs, SessPcs,
         Answers, RefreshPcs, Callers, MaxDepth, nodeVars, upVars, reqVars
<1>. QED
  BY <1>1, <1>2, <1>3, <1>4, <1>5, <1>6, <1>7, <1>8, <1>9, <1>10, <1>11, <1>12, <1>13, <1>14, <1>15 DEF InitStep

\* The steps of do_refresh keep the types.
LEMMA RefreshThreadTypes ==
  ASSUME TypeOK, NEW c \in Comps, NEW k \in Callers, RefreshStep(c, k)
  PROVE  TypeOK'
<1>. USE CompsAssumption, NodesAssumption, RebootAssumption
<1>1. CASE SendRefresh(c, k)
  BY <1>1 DEF SendRefresh, refreshFrame, TypeOK, DbStates, LocalStates, InitPcs, SessPcs,
         Answers, RefreshPcs, Callers, MaxDepth, nodeVars, upVars, reqVars
<1>2. CASE SendRefreshFails(c, k)
  BY <1>2 DEF SendRefreshFails, refreshFrame, TypeOK, DbStates, LocalStates, InitPcs, SessPcs,
         Answers, RefreshPcs, Callers, MaxDepth, nodeVars, upVars, reqVars
<1>3. CASE GotUp(c, k)
  BY <1>3 DEF GotUp, AfterUp, refreshFrame, TypeOK, DbStates, LocalStates, InitPcs, SessPcs,
         Answers, RefreshPcs, Callers, MaxDepth, nodeVars, upVars, reqVars
<1>4. CASE UpTimeout(c, k)
  BY <1>4 DEF UpTimeout, refreshFrame, TypeOK, DbStates, LocalStates, InitPcs, SessPcs,
         Answers, RefreshPcs, Callers, MaxDepth, nodeVars, upVars, reqVars
<1>5. CASE DepUp(c, k)
  BY <1>5 DEF DepUp, AfterUp, refreshFrame, TypeOK, DbStates, LocalStates, InitPcs, SessPcs,
         Answers, RefreshPcs, Callers, MaxDepth, nodeVars, upVars, reqVars
<1>6. CASE RefreshAgain(c, k)
  BY <1>6 DEF RefreshAgain, refreshFrame, TypeOK, DbStates, LocalStates, InitPcs, SessPcs,
         Answers, RefreshPcs, Callers, MaxDepth, nodeVars, upVars, reqVars
<1>7. CASE SendKeeboot(c, k)
  BY <1>7 DEF SendKeeboot, refreshFrame, TypeOK, DbStates, LocalStates, InitPcs, SessPcs,
         Answers, RefreshPcs, Callers, MaxDepth, nodeVars, upVars, reqVars
<1>8. CASE SendKeebootFails(c, k)
  BY <1>8 DEF SendKeebootFails, refreshFrame, TypeOK, DbStates, LocalStates, InitPcs, SessPcs,
         Answers, RefreshPcs, Callers, MaxDepth, nodeVars, upVars, reqVars
<1>9. CASE RefreshFree(c, k)
  BY <1>9 DEF RefreshFree, Return, AfterUp, refreshFrame, TypeOK, DbStates, LocalStates, InitPcs, SessPcs,
         Answers, RefreshPcs, Callers, MaxDepth, nodeVars, upVars, reqVars
<1>10. CASE RefreshFails(c, k)
  <2>1. Repair(c) /\ Return(c, k) /\ UNCHANGED <<refreshFrame, kparam, up_msg>>
    BY <1>10 DEF RefreshFails
  <2>. QED
    BY <2>1, RepairTypes, ReturnTypes DEF TypeOK, refreshFrame, upVars
<1>11. CASE RefreshClear(c, k)
  BY <1>11 DEF RefreshClear, ClearComponent, refreshFrame, TypeOK, DbStates, LocalStates, InitPcs, SessPcs,
         Answers, RefreshPcs, Callers, MaxDepth, nodeVars, upVars, reqVars
<1>. QED
  BY <1>1, <1>2, <1>3, <1>4, <1>5, <1>6, <1>7, <1>8, <1>9, <1>10, <1>11 DEF RefreshStep

\* So do the nodes and received_up_msg.
LEMMA UpTypes ==
  ASSUME TypeOK, NEW n \in Nodes, NodeUp(n) \/ NodeReboots(n) \/ UpStep(n)
  PROVE  TypeOK'
<1>. USE CompsAssumption, NodesAssumption, RebootAssumption
<1>1. CASE NodeUp(n)
  BY <1>1 DEF NodeUp, upFrame, TypeOK, DbStates, LocalStates, InitPcs, SessPcs,
         Answers, RefreshPcs, Callers, MaxDepth, nodeVars, upVars, reqVars
<1>2. CASE NodeReboots(n)
  BY <1>2 DEF NodeReboots, upFrame, TypeOK, DbStates, LocalStates, InitPcs, SessPcs,
         Answers, RefreshPcs, Callers, MaxDepth, nodeVars, upVars, reqVars
<1>3. CASE LookUp(n)
  BY <1>3 DEF LookUp, Listed, upFrame, TypeOK, DbStates, LocalStates, InitPcs, SessPcs,
         Answers, RefreshPcs, Callers, MaxDepth, nodeVars, upVars, reqVars
<1>4. CASE DeliverUp(n)
  BY <1>4 DEF DeliverUp, upFrame, TypeOK, DbStates, LocalStates, InitPcs, SessPcs,
         Answers, RefreshPcs, Callers, MaxDepth, nodeVars, upVars, reqVars
<1>5. CASE UpUnknown(n)
  <2>1. db' \in [Nodes -> DbStates]
    BY <1>5 DEF UpUnknown, TypeOK, DbStates
  <2>2. upth' \in [Nodes -> {"idle", "unknown", "refresh"} \cup Comps]
    <3>1. upth' = [upth EXCEPT ![n] = "idle"] \/ upth' = [upth EXCEPT ![n] = "refresh"]
      BY <1>5 DEF UpUnknown
    <3>. QED
      BY <3>1 DEF TypeOK
  <2>3. /\ where' \in [Comps -> {"out", "active", "refreshing"}]
        /\ local_state' \in [Comps -> LocalStates]
    <3>1. CASE UNCHANGED <<where, local_state>>
      BY <3>1 DEF TypeOK
    <3>2. CASE \E c \in UpComps :
                 /\ where' = [where EXCEPT ![c] = "refreshing"]
                 /\ local_state' = [local_state EXCEPT ![c] = "new"]
      BY <3>2 DEF UpComps, TypeOK, LocalStates
    <3>. QED
      BY <1>5, <3>1, <3>2 DEF UpUnknown
  <2>4. UNCHANGED <<upFrame, boot, reboots, upq, kparam, up_msg, rpc>>
    BY <1>5 DEF UpUnknown
  <2>. QED
    BY <2>1, <2>2, <2>3, <2>4 DEF TypeOK, upFrame, reqVars
<1>6. CASE UpRefresh(n)
  <2>1. PICK c \in UpComps :
          \/ RefreshClears(c) /\ ClearComponent(c)
          \/ (RefreshReturns(c) \/ RefreshSpawns(c)) /\ UNCHANGED where
    BY <1>6 DEF UpRefresh
  <2>2. c \in Comps
    BY DEF UpComps
  <2>3. where' \in [Comps -> {"out", "active", "refreshing"}]
    BY <2>1, <2>2 DEF ClearComponent, TypeOK
  <2>4. /\ upth' \in [Nodes -> {"idle", "unknown", "refresh"} \cup Comps]
        /\ UNCHANGED <<boot, reboots, upq, kparam, keebooting_now, up_msg,
                       answer, dstate, slock, ipc, depth, spc>>
    BY <1>6 DEF UpRefresh, TypeOK
  <2>. QED
    BY <2>1, <2>2, <2>3, <2>4, RefreshTypes DEF TypeOK
<1>. QED
  BY <1>1, <1>2, <1>3, <1>4, <1>5, <1>6 DEF UpStep

\* CrdComponent's variables always have their types, whatever the nodes, the
\* objects and the order of the daemon's threads.
THEOREM ComponentTypeCorrect == Spec => []TypeOK
<1>1. Init => TypeOK
  BY InitTypeOK
<1>2. TypeOK /\ [Next]_vars => TypeOK'
  <2>. SUFFICES ASSUME TypeOK, [Next]_vars PROVE TypeOK'
    OBVIOUS
  <2>1. CASE \E c \in Comps : SessionStep(c) \/ InitStep(c)
    BY <2>1, SessionTypes, InitializeTypes
  <2>2. CASE \E c \in Comps, k \in Callers : RefreshStep(c, k)
    BY <2>2, RefreshThreadTypes
  <2>3. CASE \E n \in Nodes : NodeUp(n) \/ NodeReboots(n) \/ UpStep(n)
    BY <2>3, UpTypes
  <2>4. CASE UNCHANGED vars
    BY <2>4 DEF vars, TypeOK
  <2>. QED
    BY <2>1, <2>2, <2>3, <2>4 DEF Next
<1>. QED
  BY <1>1, <1>2, PTL DEF Spec

-----------------------------------------------------------------------------
(* Who may refresh an object, and when.                                    *)

(***************************************************************************)
(* The inductive invariant.  Only an object of a session is ever cleared   *)
(* by one, and after its refresh it is no longer new; a refresh is pending *)
(* only between the session's refresh and do_initialize's own, when no     *)
(* thread has been started; and a thread is started for a session's object *)
(* only by the session's refresh or after it.                              *)
(***************************************************************************)
OwnedBySession == \A c \in Comps : spc[c] # "absent" => c \in SessComps
NewMeansUncleared ==
  \A c \in Comps : spc[c] \in {"clear", "exit"} => local_state[c] # "new"
PendingMeansNoThread ==
  \A c \in Comps : needs_refresh[c] \/ ipc[c] = "refresh" =>
    spc[c] = "exit" /\ rpc[<<c, "thread">>] = "none"
ThreadMeansCleared ==
  \A c \in SessComps : rpc[<<c, "thread">>] # "none" => spc[c] = "exit"

RefreshInv == /\ OwnedBySession
              /\ NewMeansUncleared
              /\ PendingMeansNoThread
              /\ ThreadMeansCleared


\* The session steps keep the invariant.
LEMMA SessionKeeps ==
  ASSUME TypeOK, RefreshInv, NEW c \in Comps, SessionStep(c)
  PROVE  RefreshInv'
<1>. USE CompsAssumption DEF RefreshInv, OwnedBySession, NewMeansUncleared,
         PendingMeansNoThread, ThreadMeansCleared, TypeOK
<1>1. CASE AddComponent(c)
  BY <1>1 DEF AddComponent
<1>2. CASE Initialize(c)
  BY <1>2 DEF Initialize
<1>3. CASE RemoveComponent(c)
  BY <1>3 DEF RemoveComponent
<1>4. CASE SessionRefresh(c)
  <2>1. CASE RefreshClears(c) /\ spc' = [spc EXCEPT ![c] = "clear"]
    <3>1. /\ \/ local_state' = [local_state EXCEPT ![c] = "repair"]
             \/ local_state' = [local_state EXCEPT ![c] = "done"]
          /\ UNCHANGED <<needs_refresh, rpc>>
      BY <2>1 DEF RefreshClears
    <3>2. spc[c] = "removed" /\ UNCHANGED ipc
      BY <1>4 DEF SessionRefresh
    <3>. QED
      BY <2>1, <3>1, <3>2
  <2>2. CASE RefreshReturns(c) /\ spc' = [spc EXCEPT ![c] = "exit"]
    BY <1>4, <2>2 DEF SessionRefresh, RefreshReturns, Callers
  <2>3. CASE RefreshSpawns(c) /\ spc' = [spc EXCEPT ![c] = "exit"]
    BY <1>4, <2>3 DEF SessionRefresh, RefreshSpawns, Callers
  <2>. QED
    BY <1>4, <2>1, <2>2, <2>3 DEF SessionRefresh
<1>5. CASE SessionClear(c)
  BY <1>5 DEF SessionClear, ClearComponent
<1>. QED
  BY <1>1, <1>2, <1>3, <1>4, <1>5 DEF SessionStep

\* do_initialize keeps it.
LEMMA InitializeKeeps ==
  ASSUME TypeOK, RefreshInv, NEW c \in Comps, InitStep(c)
  PROVE  RefreshInv'
<1>. USE CompsAssumption DEF RefreshInv, OwnedBySession, NewMeansUncleared,
         PendingMeansNoThread, ThreadMeansCleared, TypeOK
<1>1. CASE ReadDep(c)
  BY <1>1 DEF ReadDep, DepState
<1>2. CASE PollRepair(c)
  BY <1>2 DEF PollRepair
<1>3. CASE PollEnds(c)
  BY <1>3 DEF PollEnds
<1>4. CASE DepPoll(c)
  BY <1>4 DEF DepPoll, DepState
<1>5. CASE DepGivenUp(c)
  BY <1>5 DEF DepGivenUp
<1>6. CASE Abandon(c)
  BY <1>6 DEF Abandon
<1>7. CASE Claim(c)
  BY <1>7 DEF Claim
<1>8. CASE InlineDone(c)
  BY <1>8 DEF InlineDone
<1>9. CASE ConfigFails(c)
  BY <1>9 DEF ConfigFails
<1>10. CASE Respond(c)
  BY <1>10 DEF Respond
<1>11. CASE SetActive(c)
  BY <1>11 DEF SetActive
<1>12. CASE Finish(c)
  BY <1>12 DEF Finish
<1>13. CASE InitFails(c)
  BY <1>13 DEF InitFails, Repair
<1>14. CASE InitRefresh(c)
  <2>1. CASE RefreshClears(c) /\ ipc' = [ipc EXCEPT ![c] = "clear"]
    <3>1. /\ \/ local_state' = [local_state EXCEPT ![c] = "repair"]
             \/ local_state' = [local_state EXCEPT ![c] = "done"]
          /\ UNCHANGED <<needs_refresh, rpc>>
      BY <2>1 DEF RefreshClears
    <3>2. ipc[c] = "refresh" /\ UNCHANGED spc
      BY <1>14 DEF InitRefresh
    <3>. QED
      BY <2>1, <3>1, <3>2
  <2>2. CASE RefreshReturns(c) /\ ipc' = [ipc EXCEPT ![c] = "exit"]
    BY <1>14, <2>2 DEF InitRefresh, RefreshReturns, Callers
  <2>3. CASE RefreshSpawns(c) /\ ipc' = [ipc EXCEPT ![c] = "exit"]
    BY <1>14, <2>3 DEF InitRefresh, RefreshSpawns, Callers
  <2>. QED
    BY <1>14, <2>1, <2>2, <2>3 DEF InitRefresh
<1>15. CASE InitClear(c)
  BY <1>15 DEF InitClear, ClearComponent
<1>. QED
  BY <1>1, <1>2, <1>3, <1>4, <1>5, <1>6, <1>7, <1>8, <1>9, <1>10, <1>11, <1>12, <1>13, <1>14, <1>15 DEF InitStep

\* do_refresh keeps it.
LEMMA RefreshThreadKeeps ==
  ASSUME TypeOK, RefreshInv, NEW c \in Comps, NEW k \in Callers, RefreshStep(c, k)
  PROVE  RefreshInv'
<1>. USE CompsAssumption DEF RefreshInv, OwnedBySession, NewMeansUncleared,
         PendingMeansNoThread, ThreadMeansCleared, TypeOK
<1>1. CASE SendRefresh(c, k)
  BY <1>1 DEF SendRefresh, refreshFrame, Callers
<1>2. CASE SendRefreshFails(c, k)
  BY <1>2 DEF SendRefreshFails, refreshFrame, Callers
<1>3. CASE GotUp(c, k)
  BY <1>3 DEF GotUp, AfterUp, refreshFrame, Callers
<1>4. CASE UpTimeout(c, k)
  BY <1>4 DEF UpTimeout, refreshFrame, Callers
<1>5. CASE DepUp(c, k)
  BY <1>5 DEF DepUp, AfterUp, refreshFrame, Callers
<1>6. CASE RefreshAgain(c, k)
  BY <1>6 DEF RefreshAgain, refreshFrame, Callers
<1>7. CASE SendKeeboot(c, k)
  BY <1>7 DEF SendKeeboot, refreshFrame, Callers
<1>8. CASE SendKeebootFails(c, k)
  BY <1>8 DEF SendKeebootFails, refreshFrame, Callers
<1>9. CASE RefreshFree(c, k)
  BY <1>9 DEF RefreshFree, Return, AfterUp, refreshFrame, Callers
<1>10. CASE RefreshFails(c, k)
  BY <1>10 DEF RefreshFails, Repair, Return, AfterUp, refreshFrame, Callers
<1>11. CASE RefreshClear(c, k)
  BY <1>11 DEF RefreshClear, ClearComponent, refreshFrame, Callers
<1>. QED
  BY <1>1, <1>2, <1>3, <1>4, <1>5, <1>6, <1>7, <1>8, <1>9, <1>10, <1>11 DEF RefreshStep

\* The nodes and received_up_msg keep it.
LEMMA UpKeeps ==
  ASSUME TypeOK, RefreshInv, NEW n \in Nodes, NodeUp(n) \/ NodeReboots(n) \/ UpStep(n)
  PROVE  RefreshInv'
<1>. USE CompsAssumption DEF RefreshInv, OwnedBySession, NewMeansUncleared,
         PendingMeansNoThread, ThreadMeansCleared, TypeOK
<1>1. CASE NodeUp(n)
  BY <1>1 DEF NodeUp, upFrame
<1>2. CASE NodeReboots(n)
  BY <1>2 DEF NodeReboots, upFrame
<1>3. CASE LookUp(n)
  BY <1>3 DEF LookUp, Listed, upFrame
<1>4. CASE DeliverUp(n)
  BY <1>4 DEF DeliverUp, upFrame
<1>5. CASE UpUnknown(n)
  BY <1>5 DEF UpUnknown, UpComps, upFrame
<1>6. CASE UpRefresh(n)
  BY <1>6 DEF UpRefresh, RefreshClears, RefreshReturns, RefreshSpawns, ClearComponent, UpComps, upFrame
<1>. QED
  BY <1>1, <1>2, <1>3, <1>4, <1>5, <1>6 DEF UpStep

\* The invariant holds in every reachable state.
LEMMA RefreshInvariant == Spec => []RefreshInv
<1>1. Init => RefreshInv
  BY CompsAssumption DEF Init, RefreshInv, OwnedBySession, NewMeansUncleared,
                         PendingMeansNoThread, ThreadMeansCleared, Callers
<1>2. TypeOK /\ RefreshInv /\ [Next]_vars => RefreshInv'
  <2>. SUFFICES ASSUME TypeOK, RefreshInv, [Next]_vars PROVE RefreshInv'
    OBVIOUS
  <2>1. CASE \E c \in Comps : SessionStep(c) \/ InitStep(c)
    BY <2>1, SessionKeeps, InitializeKeeps
  <2>2. CASE \E c \in Comps, k \in Callers : RefreshStep(c, k)
    BY <2>2, RefreshThreadKeeps
  <2>3. CASE \E n \in Nodes : NodeUp(n) \/ NodeReboots(n) \/ UpStep(n)
    BY <2>3, UpKeeps
  <2>4. CASE UNCHANGED vars
    BY <2>4 DEF vars, RefreshInv, OwnedBySession, NewMeansUncleared,
                PendingMeansNoThread, ThreadMeansCleared
  <2>. QED
    BY <2>1, <2>2, <2>3, <2>4 DEF Next
<1>. QED
  BY <1>1, <1>2, ComponentTypeCorrect, PTL DEF Spec

\* A do_refresh thread never finds a pending refresh when it fails
\* (cleanup_reqs), whatever the nodes, objects and sessions.
THEOREM NoPendingRefreshCorrect == Spec => []NoPendingRefresh
<1>1. RefreshInv => NoPendingRefresh
  BY DEF RefreshInv, PendingMeansNoThread, NoPendingRefresh, Refreshing
<1>. QED
  BY <1>1, RefreshInvariant, PTL

\* Once a session's clear has called refresh, do_initialize no longer takes
\* the node (the test of local_state under state_lock).
THEOREM ClearedNeverClaimsCorrect == Spec => ClearedNeverClaims
<1>. DEFINE Stays == \A c \in Comps : spc[c] \in {"clear", "exit"} =>
                       ~(ipc[c] = "decide" /\ ipc'[c] \in {"inline", "config"})
<1>1. TypeOK /\ RefreshInv /\ [Next]_vars => [Stays]_vars
  <2>. SUFFICES ASSUME TypeOK, RefreshInv, Next,
                       NEW d \in Comps, spc[d] \in {"clear", "exit"},
                       ipc[d] = "decide", ipc'[d] \in {"inline", "config"}
                PROVE  FALSE
    BY DEF Stays
  <2>1. local_state[d] # "new"
    BY DEF RefreshInv, NewMeansUncleared
  <2>2. ASSUME NEW c \in Comps, SessionStep(c) PROVE FALSE
    BY <2>2 DEF SessionStep, AddComponent, Initialize, RemoveComponent,
                SessionRefresh, SessionClear, TypeOK
  <2>3. ASSUME NEW c \in Comps, InitStep(c) PROVE FALSE
    BY <2>1, <2>3 DEF InitStep, ReadDep, PollRepair, PollEnds, DepPoll,
                DepGivenUp, Abandon, Claim, InlineDone, ConfigFails, Respond,
                SetActive, Finish, InitFails, InitRefresh, InitClear, TypeOK
  <2>4. ASSUME NEW c \in Comps, NEW k \in Callers, RefreshStep(c, k)
        PROVE  FALSE
    BY <2>4 DEF RefreshStep, SendRefresh, SendRefreshFails, GotUp, UpTimeout,
                DepUp, RefreshAgain, SendKeeboot, SendKeebootFails,
                RefreshFree, RefreshFails, RefreshClear, refreshFrame
  <2>5. ASSUME NEW n \in Nodes, NodeUp(n) \/ NodeReboots(n) \/ UpStep(n)
        PROVE  FALSE
    BY <2>5 DEF NodeUp, NodeReboots, UpStep, LookUp, DeliverUp, UpUnknown,
                UpRefresh, upFrame
  <2>. QED
    BY <2>2, <2>3, <2>4, <2>5 DEF Next
<1>. QED
  BY <1>1, ComponentTypeCorrect, RefreshInvariant, PTL
     DEF Spec, ClearedNeverClaims

-----------------------------------------------------------------------------
(* No object is forgotten on the refreshing list.                          *)

(***************************************************************************)
(* An object made after the start of the daemon is in use from its making  *)
(* until the session has let go of it and its threads have ended.  The     *)
(* daemon means to have one such object of a node at a time (add_component *)
(* clears the session of another one), and does not ensure it: refresh     *)
(* then takes the state of the node, which the other object has set, for   *)
(* that of its own object.  The theorem says that this is the only way in  *)
(* which an object can be forgotten.                                       *)
(***************************************************************************)
InUse(c) ==
  \/ spc[c] \in {"added", "running", "removed", "clear"}
  \/ Running(c) \/ Refreshing(c, "thread")
  \/ c \in UpComps /\ local_state[c] = "new"

OneAtATime ==
  \A c, d \in Comps \ StartComps :
    c # d /\ NodeOf[c] = NodeOf[d] => ~(InUse(c) /\ InUse(d))

\* do_initialize is still to look at needs_refresh.
BeforeCheck == {"inline", "config", "active", "fail"}

\* do_initialize, and what it refreshes itself, is for the objects of sessions only.
InitOwned ==
  \A c \in Comps :
    /\ ipc[c] # "none" \/ rpc[<<c, "inline">>] # "none" => c \in SessComps
    /\ spc[c] \in {"absent", "added"} => ipc[c] = "none"

\* A node that is initializing is being initialized by somebody.
Initializer ==
  \A n \in Nodes : db[n] = "initializing" =>
    \E e \in SessComps : NodeOf[e] = n /\ ipc[e] \in BeforeCheck

\* Where a refresh is still to be called on an object that is no longer new, nobody is
\* refreshing the node.
NotYetRefreshing ==
  \A c \in SessComps :
    \/ spc[c] \in {"added", "running", "removed"} /\ local_state[c] # "new"
    \/ Running(c) /\ (needs_refresh[c] \/ ipc[c] = "refresh")
    => db[NodeOf[c]] # "refreshing"

\* An object is refreshing once its thread has been started.
RefreshingMeansThread ==
  \A c \in SessComps : local_state[c] = "refreshing" => rpc[<<c, "thread">>] # "none"

\* received_up_msg refreshes the object that it has made.
NewMeansCalled ==
  \A c \in UpComps : local_state[c] = "new" => upth[NodeOf[c]] = "refresh"

\* Who will take an object off the refreshing list.
Handled ==
  \A c \in Comps : where[c] = "refreshing" =>
    \/ Refreshing(c, "thread")
    \/ c \in UpComps /\ local_state[c] = "new"
    \/ c \in SessComps /\ \/ spc[c] \in {"removed", "clear"}
                          \/ ipc[c] \in {"refresh", "clear"}
                          \/ needs_refresh[c] /\ ipc[c] \in BeforeCheck \cup {"finish"}

OrphanInv == /\ InitOwned
             /\ Initializer
             /\ NotYetRefreshing
             /\ RefreshingMeansThread
             /\ NewMeansCalled
             /\ Handled

\* At the start only the refresh threads of the free nodes run.
LEMMA OrphanInit == Init => OrphanInv
<1>. SUFFICES ASSUME Init PROVE OrphanInv
  OBVIOUS
<1>. USE CompsAssumption DEF Init, Callers
<1>1. InitOwned /\ NewMeansCalled
  BY DEF InitOwned, NewMeansCalled, UpComps
<1>2. Initializer
  BY DEF Initializer
<1>3. NotYetRefreshing /\ RefreshingMeansThread
  BY DEF NotYetRefreshing, Running, RefreshingMeansThread
<1>4. Handled
  BY DEF Handled, Refreshing
<1>. QED
  BY <1>1, <1>2, <1>3, <1>4 DEF OrphanInv

\* do_refresh keeps the invariant: it changes the node's state to free or repair, and its
\* last step takes the object off the list.
LEMMA RefreshThreadHandles ==
  ASSUME TypeOK, RefreshInv, OrphanInv, NEW c \in Comps, NEW k \in Callers, RefreshStep(c, k)
  PROVE  OrphanInv'
<1>. USE CompsAssumption DEF OrphanInv, TypeOK
<1>1. /\ UNCHANGED <<upth, needs_refresh, ipc, spc>>
      /\ rpc[<<c, k>>] # "none" /\ \A r \in Comps \X Callers : r # <<c, k>> => rpc'[r] = rpc[r]
      /\ rpc'[<<c, k>>] # "none"
      /\ db' = db \/ db' = [db EXCEPT ![NodeOf[c]] = "free"]
                  \/ db' = [db EXCEPT ![NodeOf[c]] = "repair"]
      /\ \/ local_state' = local_state
         \/ db' = [db EXCEPT ![NodeOf[c]] = "repair"]
            /\ local_state' = [local_state EXCEPT ![c] = "repair"]
      /\ \/ where' = where /\ rpc'[<<c, k>>] # "exit"
         \/ where' = [where EXCEPT ![c] = IF @ = "refreshing" THEN "out" ELSE @]
  <2>1. CASE SendRefresh(c, k)
    BY <2>1 DEF SendRefresh, refreshFrame, upVars, reqVars
  <2>2. CASE SendRefreshFails(c, k)
    BY <2>2 DEF SendRefreshFails, refreshFrame, upVars, reqVars
  <2>3. CASE GotUp(c, k)
    BY <2>3 DEF GotUp, AfterUp, refreshFrame, upVars, reqVars
  <2>4. CASE UpTimeout(c, k)
    BY <2>4 DEF UpTimeout, refreshFrame, upVars, reqVars
  <2>5. CASE DepUp(c, k)
    BY <2>5 DEF DepUp, AfterUp, refreshFrame, upVars, reqVars
  <2>6. CASE RefreshAgain(c, k)
    BY <2>6 DEF RefreshAgain, refreshFrame, upVars, reqVars
  <2>7. CASE SendKeeboot(c, k)
    BY <2>7 DEF SendKeeboot, refreshFrame, upVars, reqVars
  <2>8. CASE SendKeebootFails(c, k)
    BY <2>8 DEF SendKeebootFails, refreshFrame, upVars, reqVars
  <2>9. CASE RefreshFree(c, k)
    BY <2>9 DEF RefreshFree, Return, AfterUp, refreshFrame, upVars, reqVars
  <2>10. CASE RefreshFails(c, k)
    BY <2>10 DEF RefreshFails, Repair, Return, AfterUp, refreshFrame, upVars, reqVars
  <2>11. CASE RefreshClear(c, k)
    BY <2>11 DEF RefreshClear, ClearComponent, upVars, reqVars, nodeVars
  <2>. QED
    BY <2>1, <2>2, <2>3, <2>4, <2>5, <2>6, <2>7, <2>8, <2>9, <2>10, <2>11 DEF RefreshStep
<1>2. InitOwned'
  BY <1>1 DEF InitOwned, Callers
<1>3. \A n \in Nodes : db'[n] \in {"initializing", "refreshing"} => db'[n] = db[n]
  BY <1>1
<1>4. Initializer'
  BY <1>1, <1>3 DEF Initializer
<1>5. NewMeansCalled'
  BY <1>1 DEF NewMeansCalled, UpComps
<1>6. NotYetRefreshing'
  BY <1>1, <1>3 DEF NotYetRefreshing, Running
<1>7. RefreshingMeansThread'
  BY <1>1 DEF RefreshingMeansThread, Callers
<1>8. Handled'
  <2>. SUFFICES ASSUME NEW d \in Comps, where'[d] = "refreshing"
                PROVE  \/ Refreshing(d, "thread")'
                       \/ d \in UpComps /\ local_state'[d] = "new"
                       \/ d \in SessComps /\ \/ spc[d] \in {"removed", "clear"}
                                             \/ ipc[d] \in {"refresh", "clear"}
                                             \/ needs_refresh[d] /\ ipc[d] \in BeforeCheck \cup {"finish"}
    BY <1>1 DEF Handled
  <2>1. where[d] = "refreshing" /\ (d = c => where' = where)
    BY <1>1
  <2>2. CASE Refreshing(d, "thread")
    BY <1>1, <2>1, <2>2 DEF Refreshing, Callers
  <2>3. CASE d \in UpComps /\ local_state[d] = "new"
    <3>1. CASE d = c
      <4>1. k = "thread"
        BY <1>1, <2>3, <3>1 DEF InitOwned, UpComps, Callers
      <4>. QED
        BY <1>1, <2>1, <3>1, <4>1 DEF Refreshing
    <3>2. CASE d # c
      BY <1>1, <2>3, <3>2
    <3>. QED
      BY <3>1, <3>2
  <2>. QED
    BY <1>1, <2>1, <2>2, <2>3 DEF Handled
<1>. QED
  BY <1>2, <1>4, <1>5, <1>6, <1>7, <1>8


\* A refresh that starts a thread: nobody else is using the node, so nobody waits to
\* refresh it.
LEMMA SpawnHandles ==
  ASSUME TypeOK, RefreshInv, OrphanInv, OneAtATime, NEW c \in Comps,
         c \notin StartComps, InUse(c), RefreshSpawns(c), where' = where,
         \/ c \in SessComps /\ ipc[c] # "refresh" /\ spc' = [spc EXCEPT ![c] = "exit"] /\ ipc' = ipc
         \/ ipc[c] = "refresh" /\ ipc' = [ipc EXCEPT ![c] = "exit"] /\ spc' = spc
         \/ c \in UpComps /\ spc' = spc /\ ipc' = ipc
  PROVE  /\ InitOwned' /\ Initializer' /\ NotYetRefreshing' /\ RefreshingMeansThread'
         /\ Handled'
<1>. USE CompsAssumption DEF TypeOK, OrphanInv
<1>1. /\ \A d \in Comps : d # c => spc'[d] = spc[d] /\ ipc'[d] = ipc[d]
      /\ ipc'[c] = ipc[c] \/ (ipc[c] = "refresh" /\ ipc'[c] = "exit")
      /\ spc'[c] = spc[c] \/ spc'[c] = "exit"
      /\ c \in SessComps => spc'[c] = "exit" /\ ipc'[c] # "refresh"
  <2>1. ipc[c] = "refresh" => spc[c] = "exit"
    BY DEF RefreshInv, PendingMeansNoThread
  <2>2. c \in UpComps => c \notin SessComps
    BY DEF UpComps
  <2>3. CASE c \in SessComps /\ ipc[c] # "refresh" /\ spc' = [spc EXCEPT ![c] = "exit"] /\ ipc' = ipc
    BY <2>3
  <2>4. CASE ipc[c] = "refresh" /\ ipc' = [ipc EXCEPT ![c] = "exit"] /\ spc' = spc
    BY <2>1, <2>4
  <2>. QED
    BY <2>2, <2>3, <2>4
<1>. USE <1>1
<1>2. /\ local_state' = [local_state EXCEPT ![c] = "refreshing"]
      /\ db' = [db EXCEPT ![NodeOf[c]] = "refreshing"]
      /\ needs_refresh' = [needs_refresh EXCEPT ![c] = FALSE]
      /\ rpc' = [rpc EXCEPT ![<<c, "thread">>] = "connect"]
      /\ db[NodeOf[c]] # "initializing"
  BY DEF RefreshSpawns
<1>3. InitOwned'
  <2>1. \A d \in Comps : rpc'[<<d, "inline">>] = rpc[<<d, "inline">>]
                         /\ (ipc'[d] # "none" => ipc[d] # "none")
    BY <1>2 DEF Callers
  <2>. QED
    BY <2>1 DEF InitOwned
<1>4. Initializer'
  <2>. SUFFICES ASSUME NEW n \in Nodes, db'[n] = "initializing"
                PROVE  \E e \in SessComps : NodeOf[e] = n /\ ipc'[e] \in BeforeCheck
    BY DEF Initializer
  <2>1. db[n] = "initializing" /\ n # NodeOf[c]
    BY <1>2
  <2>. QED
    BY <2>1 DEF Initializer
<1>5. NotYetRefreshing'
  <2>. SUFFICES ASSUME NEW d \in SessComps, db'[NodeOf[d]] = "refreshing",
                       \/ spc'[d] \in {"added", "running", "removed"} /\ local_state'[d] # "new"
                       \/ Running(d)' /\ (needs_refresh'[d] \/ ipc'[d] = "refresh")
                PROVE  FALSE
    BY DEF NotYetRefreshing
  <2>1. d # c
    BY <1>2
  <2>2. InUse(d) /\ db[NodeOf[d]] # "refreshing"
    BY <1>2, <2>1 DEF InUse, Running, NotYetRefreshing
  <2>3. NodeOf[d] = NodeOf[c]
    BY <1>2, <2>2
  <2>. QED
    BY <2>1, <2>2, <2>3 DEF OneAtATime
<1>6. RefreshingMeansThread'
  BY <1>2 DEF RefreshingMeansThread, Callers
<1>7. Handled'
  <2>. SUFFICES ASSUME NEW d \in Comps, where'[d] = "refreshing", d # c
                PROVE  \/ Refreshing(d, "thread")'
                       \/ d \in UpComps /\ local_state'[d] = "new"
                       \/ d \in SessComps /\ \/ spc'[d] \in {"removed", "clear"}
                                             \/ ipc'[d] \in {"refresh", "clear"}
                                             \/ needs_refresh'[d] /\ ipc'[d] \in BeforeCheck \cup {"finish"}
    BY <1>2 DEF Handled, Refreshing, Callers
  <2>. QED
    BY <1>2 DEF Handled, Refreshing, Callers
<1>. QED
  BY <1>3, <1>4, <1>5, <1>6, <1>7

\* A refresh that finds somebody else at work on the node: it is the object's own
\* do_initialize, which will look at needs_refresh.
LEMMA ReturnsMeansPending ==
  ASSUME TypeOK, RefreshInv, OrphanInv, OneAtATime, NEW c \in SessComps, RefreshReturns(c),
         spc[c] = "removed" \/ ipc[c] = "refresh"
  PROVE  /\ ipc[c] \in BeforeCheck /\ spc[c] = "removed" /\ db[NodeOf[c]] = "initializing"
         /\ needs_refresh' = [needs_refresh EXCEPT ![c] = TRUE]
<1>. USE CompsAssumption DEF TypeOK, OrphanInv, RefreshInv
<1>1. InUse(c)
  BY DEF InUse, Running
<1>2. db[NodeOf[c]] # "refreshing"
  <2>1. CASE spc[c] = "removed"
    BY <2>1 DEF RefreshReturns, NotYetRefreshing
  <2>2. CASE ipc[c] = "refresh"
    BY <2>2 DEF NotYetRefreshing, Running
  <2>. QED
    BY <2>1, <2>2
<1>3. local_state[c] # "refreshing"
  BY DEF RefreshingMeansThread, ThreadMeansCleared, PendingMeansNoThread
<1>4. db[NodeOf[c]] = "initializing" /\ needs_refresh' = [needs_refresh EXCEPT ![c] = TRUE]
  BY <1>2, <1>3 DEF RefreshReturns
<1>5. PICK e \in SessComps : NodeOf[e] = NodeOf[c] /\ ipc[e] \in BeforeCheck
  BY <1>4 DEF Initializer
<1>6. InUse(e)
  BY <1>5 DEF InUse, Running, BeforeCheck
<1>7. e = c
  BY <1>1, <1>5, <1>6 DEF OneAtATime
<1>. QED
  BY <1>4, <1>5, <1>7 DEF BeforeCheck


\* The steps of a session.
LEMMA SessionHandles ==
  ASSUME TypeOK, RefreshInv, OrphanInv, OneAtATime, NEW c \in Comps, SessionStep(c)
  PROVE  OrphanInv'
<1>. USE CompsAssumption DEF TypeOK
<1>1. CASE AddComponent(c)
  <2>1. /\ UNCHANGED <<db, upth, needs_refresh, ipc, rpc>> /\ c \in SessComps
        /\ spc' = [spc EXCEPT ![c] = "added"] /\ where' = [where EXCEPT ![c] = "active"]
        /\ local_state' = [local_state EXCEPT ![c] = "new"] /\ spc[c] = "absent"
    BY <1>1 DEF AddComponent, nodeVars, upVars
  <2>2. InitOwned' /\ Initializer' /\ RefreshingMeansThread'
    BY <2>1 DEF OrphanInv, InitOwned, Initializer, RefreshingMeansThread
  <2>3. NotYetRefreshing'
    BY <2>1 DEF OrphanInv, NotYetRefreshing, Running, RefreshInv, PendingMeansNoThread
  <2>4. NewMeansCalled'
    BY <2>1 DEF OrphanInv, NewMeansCalled, UpComps
  <2>5. Handled'
    BY <2>1 DEF OrphanInv, Handled, Refreshing
  <2>. QED
    BY <2>2, <2>3, <2>4, <2>5 DEF OrphanInv
<1>2. CASE Initialize(c)
  <2>1. /\ UNCHANGED <<db, upth, needs_refresh, rpc, where, local_state>> /\ c \in SessComps
        /\ spc' = [spc EXCEPT ![c] = "running"] /\ ipc' = [ipc EXCEPT ![c] = "start"]
        /\ spc[c] = "added" /\ ~needs_refresh[c]
    BY <1>2 DEF Initialize, nodeVars, upVars, RefreshInv, OwnedBySession, PendingMeansNoThread
  <2>2. OrphanInv'
    <3>1. InitOwned'
      BY <2>1 DEF OrphanInv, InitOwned
    <3>2. \A d \in Comps : ipc[d] \in BeforeCheck => ipc'[d] = ipc[d]
      BY <2>1 DEF OrphanInv, InitOwned, BeforeCheck
    <3>3. Initializer'
      BY <2>1, <3>2 DEF OrphanInv, Initializer
    <3>4. RefreshingMeansThread' /\ NewMeansCalled'
      BY <2>1 DEF OrphanInv, RefreshingMeansThread, NewMeansCalled
    <3>5. NotYetRefreshing'
      BY <2>1 DEF OrphanInv, NotYetRefreshing, Running
    <3>6. Handled'
      BY <2>1 DEF OrphanInv, InitOwned, Handled, Refreshing, BeforeCheck
    <3>. QED
      BY <3>1, <3>3, <3>4, <3>5, <3>6 DEF OrphanInv
  <2>. QED
    BY <2>2
<1>3. CASE RemoveComponent(c)
  <2>1. /\ UNCHANGED <<db, upth, needs_refresh, rpc, ipc, local_state>> /\ c \in SessComps
        /\ spc' = [spc EXCEPT ![c] = "removed"] /\ where' = [where EXCEPT ![c] = "refreshing"]
        /\ spc[c] = "running"
    BY <1>3 DEF RemoveComponent, nodeVars, upVars, RefreshInv, OwnedBySession
  <2>2. InitOwned' /\ Initializer' /\ RefreshingMeansThread' /\ NewMeansCalled'
    BY <2>1 DEF OrphanInv, InitOwned, Initializer, RefreshingMeansThread, NewMeansCalled
  <2>3. NotYetRefreshing'
    BY <2>1 DEF OrphanInv, NotYetRefreshing, Running
  <2>4. Handled'
    BY <2>1 DEF OrphanInv, Handled, Refreshing
  <2>. QED
    BY <2>2, <2>3, <2>4 DEF OrphanInv
<1>4. CASE SessionRefresh(c)
  <2>1. /\ UNCHANGED <<upth, where, ipc>> /\ c \in SessComps /\ spc[c] = "removed"
        /\ ipc[c] # "refresh" /\ InUse(c) /\ ~needs_refresh[c]
    BY <1>4 DEF SessionRefresh, upVars, RefreshInv, OwnedBySession, PendingMeansNoThread, InUse
  <2>2. CASE RefreshClears(c) /\ spc' = [spc EXCEPT ![c] = "clear"]
    <3>1. /\ \/ local_state' = [local_state EXCEPT ![c] = "repair"]
             \/ local_state' = [local_state EXCEPT ![c] = "done"]
          /\ UNCHANGED <<needs_refresh, rpc, db>>
      BY <2>2 DEF RefreshClears
    <3>2. InitOwned' /\ Initializer' /\ RefreshingMeansThread'
      BY <2>1, <2>2, <3>1 DEF OrphanInv, InitOwned, Initializer, RefreshingMeansThread
    <3>3. NotYetRefreshing'
      BY <2>1, <2>2, <3>1 DEF OrphanInv, NotYetRefreshing, Running
    <3>4. NewMeansCalled' /\ Handled'
      BY <2>1, <2>2, <3>1 DEF OrphanInv, NewMeansCalled, Handled, Refreshing, UpComps
    <3>. QED
      BY <3>2, <3>3, <3>4 DEF OrphanInv
  <2>3. CASE RefreshReturns(c) /\ spc' = [spc EXCEPT ![c] = "exit"]
    <3>1. /\ ipc[c] \in BeforeCheck /\ needs_refresh' = [needs_refresh EXCEPT ![c] = TRUE]
          /\ db[NodeOf[c]] = "initializing" /\ UNCHANGED <<db, local_state, rpc>>
      BY <2>1, <2>3, ReturnsMeansPending DEF RefreshReturns
    <3>2. InitOwned' /\ Initializer' /\ RefreshingMeansThread' /\ NewMeansCalled'
      BY <2>1, <2>3, <3>1 DEF OrphanInv, InitOwned, Initializer, RefreshingMeansThread, NewMeansCalled
    <3>3. NotYetRefreshing'
      BY <2>1, <2>3, <3>1 DEF OrphanInv, NotYetRefreshing, Running
    <3>4. Handled'
      BY <2>1, <2>3, <3>1 DEF OrphanInv, Handled, Refreshing
    <3>. QED
      BY <3>2, <3>3, <3>4 DEF OrphanInv
  <2>4. CASE RefreshSpawns(c) /\ spc' = [spc EXCEPT ![c] = "exit"]
    <3>1. c \notin StartComps
      BY <2>1
    <3>2. NewMeansCalled'
      BY <2>1, <2>4 DEF RefreshSpawns, OrphanInv, NewMeansCalled, UpComps
    <3>. HIDE DEF TypeOK
    <3>3. InitOwned' /\ Initializer' /\ NotYetRefreshing' /\ RefreshingMeansThread' /\ Handled'
      BY <2>1, <2>4, <3>1, SpawnHandles
    <3>. QED
      BY <3>2, <3>3 DEF OrphanInv
  <2>. QED
    BY <1>4, <2>2, <2>3, <2>4 DEF SessionRefresh
<1>5. CASE SessionClear(c)
  <2>1. /\ UNCHANGED <<db, upth, needs_refresh, rpc, ipc, local_state>>
        /\ spc' = [spc EXCEPT ![c] = "exit"] /\ spc[c] = "clear"
        /\ where' = [where EXCEPT ![c] = IF @ = "refreshing" THEN "out" ELSE @]
    BY <1>5 DEF SessionClear, ClearComponent, nodeVars, upVars
  <2>2. InitOwned' /\ Initializer' /\ RefreshingMeansThread' /\ NewMeansCalled'
    BY <2>1 DEF OrphanInv, InitOwned, Initializer, RefreshingMeansThread, NewMeansCalled
  <2>3. NotYetRefreshing'
    BY <2>1 DEF OrphanInv, NotYetRefreshing, Running
  <2>4. Handled'
    BY <2>1 DEF OrphanInv, Handled, Refreshing
  <2>. QED
    BY <2>2, <2>3, <2>4 DEF OrphanInv
<1>. QED
  BY <1>1, <1>2, <1>3, <1>4, <1>5 DEF SessionStep


\* A step of do_initialize that leaves the node, the lists and the threads alone, and goes
\* on to a place where a pending refresh is not forgotten.
LEMMA QuietInit ==
  ASSUME TypeOK, RefreshInv, OrphanInv, NEW c \in Comps, NEW to,
         ipc' = [ipc EXCEPT ![c] = to], ipc[c] # "none", to # "none",
         UNCHANGED <<upth, needs_refresh, spc>>,
         rpc' = rpc \/ rpc' = [rpc EXCEPT ![<<c, "inline">>] = "none"],
         where' = where \/ where' = [where EXCEPT ![c] = IF @ = "refreshing" THEN "out" ELSE @],
         \/ UNCHANGED <<db, local_state>>
         \/ /\ local_state' = [local_state EXCEPT ![c] = "repair"]
            /\ db' = db /\ db[NodeOf[c]] = "repair"
         \/ /\ local_state' = [local_state EXCEPT ![c] = "repair"]
            /\ db' = [db EXCEPT ![NodeOf[c]] = "repair"]
         \/ /\ UNCHANGED local_state
            /\ db' = [db EXCEPT ![NodeOf[c]] = "active"],
         ipc[c] \in BeforeCheck /\ to \notin BeforeCheck => db'[NodeOf[c]] # "initializing",
         to = "refresh" => needs_refresh[c],
         ipc[c] \notin {"refresh", "exit"},
         ipc[c] \in BeforeCheck \cup {"finish"} /\ needs_refresh[c] =>
           to \in BeforeCheck \cup {"finish", "refresh", "clear"},
         ipc[c] = "clear" => where'[c] # "refreshing"
  PROVE  OrphanInv'
<1>. USE CompsAssumption DEF TypeOK, OrphanInv
<1>1. c \in SessComps /\ spc[c] \notin {"absent", "added"}
  BY DEF InitOwned
<1>2. InitOwned'
  <2>1. \A d \in Comps \ {c} : rpc'[<<d, "inline">>] = rpc[<<d, "inline">>] /\ ipc'[d] = ipc[d]
    BY DEF Callers
  <2>. QED
    BY <1>1, <2>1 DEF InitOwned
<1>3. /\ \A n \in Nodes : db'[n] \in {"initializing", "refreshing"} => db'[n] = db[n]
      /\ \A d \in Comps : rpc'[<<d, "thread">>] = rpc[<<d, "thread">>]
  BY DEF Callers
<1>4. Initializer'
  <2>. SUFFICES ASSUME NEW n \in Nodes, db'[n] = "initializing"
                PROVE  \E e \in SessComps : NodeOf[e] = n /\ ipc'[e] \in BeforeCheck
    BY DEF Initializer
  <2>1. PICK e \in SessComps : NodeOf[e] = n /\ ipc[e] \in BeforeCheck
    BY <1>3 DEF Initializer
  <2>. QED
    BY <2>1
<1>5. NotYetRefreshing'
  <2>. SUFFICES ASSUME NEW d \in SessComps, db'[NodeOf[d]] = "refreshing",
                       \/ spc'[d] \in {"added", "running", "removed"} /\ local_state'[d] # "new"
                       \/ Running(d)' /\ (needs_refresh'[d] \/ ipc'[d] = "refresh")
                PROVE  FALSE
    BY DEF NotYetRefreshing
  <2>1. db[NodeOf[d]] = "refreshing"
    BY <1>3
  <2>2. CASE d = c
    <3>1. local_state'[c] = local_state[c]
      BY <2>1, <2>2
    <3>2. CASE spc'[d] \in {"added", "running", "removed"} /\ local_state'[d] # "new"
      BY <2>1, <2>2, <3>1, <3>2 DEF NotYetRefreshing
    <3>3. CASE Running(d)' /\ (needs_refresh'[d] \/ ipc'[d] = "refresh")
      <4>1. needs_refresh[c]
        BY <2>2, <3>3
      <4>. QED
        BY <2>1, <2>2, <4>1 DEF NotYetRefreshing, Running
    <3>. QED
      BY <3>2, <3>3
  <2>3. CASE d # c
    <3>1. local_state'[d] = local_state[d] /\ ipc'[d] = ipc[d]
      BY <2>3
    <3>. QED
      BY <2>1, <3>1 DEF NotYetRefreshing, Running
  <2>. QED
    BY <2>2, <2>3
<1>6. RefreshingMeansThread'
  BY <1>3 DEF RefreshingMeansThread
<1>7. NewMeansCalled'
  BY <1>1 DEF NewMeansCalled, UpComps
<1>8. Handled'
  <2>. SUFFICES ASSUME NEW d \in Comps, where'[d] = "refreshing"
                PROVE  \/ Refreshing(d, "thread")
                       \/ d \in UpComps /\ local_state'[d] = "new"
                       \/ d \in SessComps /\ \/ spc[d] \in {"removed", "clear"}
                                             \/ ipc'[d] \in {"refresh", "clear"}
                                             \/ needs_refresh[d] /\ ipc'[d] \in BeforeCheck \cup {"finish"}
    BY <1>3 DEF Handled, Refreshing
  <2>1. CASE d = c
    BY <1>1, <2>1 DEF Handled, UpComps
  <2>2. CASE d # c
    BY <2>2 DEF Handled
  <2>. QED
    BY <2>1, <2>2
<1>. QED
  BY <1>2, <1>4, <1>5, <1>6, <1>7, <1>8


\* do_initialize takes the node for its session.
LEMMA ClaimHandles ==
  ASSUME TypeOK, RefreshInv, OrphanInv, NEW c \in Comps, Claim(c)
  PROVE  OrphanInv'
<1>. USE CompsAssumption DEF TypeOK
<1>1. c \in SessComps /\ spc[c] \notin {"absent", "added"} /\ ipc[c] = "decide"
  BY DEF Claim, OrphanInv, InitOwned
<1>2. PICK to \in {"inline", "config"} : ipc' = [ipc EXCEPT ![c] = to]
  BY DEF Claim
<1>3. /\ local_state' = [local_state EXCEPT ![c] = "initializing"]
      /\ db' = [db EXCEPT ![NodeOf[c]] = "initializing"]
      /\ UNCHANGED <<upth, needs_refresh, where, spc>>
      /\ \A d \in Comps : rpc'[<<d, "thread">>] = rpc[<<d, "thread">>]
      /\ \A d \in Comps \ {c} : rpc'[<<d, "inline">>] = rpc[<<d, "inline">>]
  BY DEF Claim, upVars, Callers
<1>4. InitOwned'
  BY <1>1, <1>2, <1>3 DEF OrphanInv, InitOwned
<1>5. Initializer'
  <2>. SUFFICES ASSUME NEW n \in Nodes, db'[n] = "initializing"
                PROVE  \E e \in SessComps : NodeOf[e] = n /\ ipc'[e] \in BeforeCheck
    BY DEF Initializer
  <2>1. CASE n = NodeOf[c]
    BY <1>1, <1>2, <2>1 DEF BeforeCheck
  <2>2. CASE n # NodeOf[c]
    BY <1>2, <1>3, <2>2 DEF OrphanInv, Initializer
  <2>. QED
    BY <2>1, <2>2
<1>6. NotYetRefreshing'
  BY <1>2, <1>3 DEF OrphanInv, NotYetRefreshing, Running
<1>7. RefreshingMeansThread' /\ NewMeansCalled'
  BY <1>3 DEF OrphanInv, RefreshingMeansThread, NewMeansCalled
<1>8. Handled'
  <2>1. where[c] = "refreshing" => Refreshing(c, "thread") \/ spc[c] \in {"removed", "clear"}
    BY <1>1 DEF OrphanInv, Handled, UpComps, BeforeCheck
  <2>. QED
    BY <1>1, <1>2, <1>3, <2>1 DEF OrphanInv, Handled, Refreshing
<1>. QED
  BY <1>4, <1>5, <1>6, <1>7, <1>8 DEF OrphanInv

\* do_initialize refreshes the node, which was noted for it.
LEMMA InitRefreshHandles ==
  ASSUME TypeOK, RefreshInv, OrphanInv, OneAtATime, NEW c \in Comps, InitRefresh(c)
  PROVE  OrphanInv'
<1>. USE CompsAssumption DEF TypeOK
<1>1. /\ c \in SessComps /\ c \notin StartComps /\ c \notin UpComps /\ ipc[c] = "refresh" /\ InUse(c)
      /\ spc[c] = "exit" /\ UNCHANGED <<upth, where, spc>>
  BY DEF InitRefresh, upVars, OrphanInv, InitOwned, RefreshInv, PendingMeansNoThread, InUse,
         Running, UpComps
<1>2. CASE RefreshClears(c) /\ ipc' = [ipc EXCEPT ![c] = "clear"]
  <2>1. /\ \/ local_state' = [local_state EXCEPT ![c] = "repair"]
           \/ local_state' = [local_state EXCEPT ![c] = "done"]
        /\ UNCHANGED <<needs_refresh, rpc, db>>
    BY <1>2 DEF RefreshClears
  <2>2. InitOwned' /\ RefreshingMeansThread'
    BY <1>1, <1>2, <2>1 DEF OrphanInv, InitOwned, RefreshingMeansThread
  <2>3. Initializer'
    BY <1>1, <1>2, <2>1 DEF OrphanInv, Initializer, BeforeCheck
  <2>4. NotYetRefreshing'
    BY <1>1, <1>2, <2>1 DEF OrphanInv, NotYetRefreshing, Running
  <2>5. NewMeansCalled'
    BY <1>1, <1>2, <2>1 DEF OrphanInv, NewMeansCalled, UpComps
  <2>6. Handled'
    BY <1>1, <1>2, <2>1 DEF OrphanInv, Handled, Refreshing
  <2>. QED
    BY <2>2, <2>3, <2>4, <2>5, <2>6 DEF OrphanInv
<1>3. CASE RefreshReturns(c)
  BY <1>1, <1>3, ReturnsMeansPending
<1>4. CASE RefreshSpawns(c) /\ ipc' = [ipc EXCEPT ![c] = "exit"]
  <2>1. NewMeansCalled'
    BY <1>1, <1>4 DEF RefreshSpawns, OrphanInv, NewMeansCalled, UpComps
  <2>. HIDE DEF TypeOK
  <2>2. InitOwned' /\ Initializer' /\ NotYetRefreshing' /\ RefreshingMeansThread' /\ Handled'
    BY <1>1, <1>4, SpawnHandles
  <2>. QED
    BY <2>1, <2>2 DEF OrphanInv
<1>. QED
  BY <1>2, <1>3, <1>4 DEF InitRefresh


\* The steps of do_initialize.
LEMMA InitHandles ==
  ASSUME TypeOK, RefreshInv, OrphanInv, OneAtATime, NEW c \in Comps, InitStep(c)
  PROVE  OrphanInv'
<1>. USE DEF nodeVars, upVars, reqVars
<1>1. CASE ReadDep(c)
  BY <1>1, QuietInit DEF ReadDep, BeforeCheck
<1>2. CASE PollRepair(c)
  BY <1>2, QuietInit DEF PollRepair, BeforeCheck
<1>3. CASE PollEnds(c)
  BY <1>3, QuietInit DEF PollEnds, BeforeCheck
<1>4. CASE DepPoll(c)
  BY <1>4, QuietInit DEF DepPoll, BeforeCheck
<1>5. CASE DepGivenUp(c)
  BY <1>5, QuietInit DEF DepGivenUp, BeforeCheck
<1>6. CASE Abandon(c)
  BY <1>6, QuietInit DEF Abandon, BeforeCheck
<1>7. CASE InlineDone(c)
  BY <1>7, QuietInit DEF InlineDone, BeforeCheck
<1>8. CASE ConfigFails(c)
  BY <1>8, QuietInit DEF ConfigFails, BeforeCheck
<1>9. CASE Respond(c)
  BY <1>9, QuietInit DEF Respond, BeforeCheck
<1>10. CASE SetActive(c)
  BY <1>10, CompsAssumption, QuietInit DEF SetActive, BeforeCheck, TypeOK
<1>11. CASE Finish(c)
  BY <1>11, QuietInit DEF Finish, BeforeCheck
<1>12. CASE InitFails(c)
  BY <1>12, CompsAssumption, QuietInit DEF InitFails, Repair, BeforeCheck, TypeOK
<1>13. CASE InitClear(c)
  BY <1>13, QuietInit DEF InitClear, ClearComponent, BeforeCheck, TypeOK
<1>. QED
  BY <1>1, <1>2, <1>3, <1>4, <1>5, <1>6, <1>7, <1>8, <1>9, <1>10, <1>11, <1>12, <1>13,
     ClaimHandles, InitRefreshHandles DEF InitStep

\* The nodes and received_up_msg.
LEMMA UpHandles ==
  ASSUME TypeOK, RefreshInv, OrphanInv, OneAtATime,
         NEW n \in Nodes, NodeUp(n) \/ NodeReboots(n) \/ UpStep(n)
  PROVE  OrphanInv'
<1>. USE CompsAssumption DEF TypeOK
<1>1. CASE NodeUp(n) \/ NodeReboots(n) \/ LookUp(n) \/ DeliverUp(n)
  <2>1. /\ UNCHANGED <<db, needs_refresh, where, local_state, ipc, spc, rpc>>
        /\ \A m \in Nodes : upth[m] = "refresh" => upth'[m] = "refresh"
    BY <1>1, NamesAssumption DEF NodeUp, NodeReboots, LookUp, DeliverUp, upFrame, nodeVars, upVars
  <2>2. NewMeansCalled'
    BY <2>1 DEF OrphanInv, NewMeansCalled, UpComps
  <2>. QED
    BY <2>1, <2>2 DEF OrphanInv, InitOwned, Initializer, NotYetRefreshing, RefreshingMeansThread,
                      Handled, Running, Refreshing
<1>2. CASE UpUnknown(n)
  <2>1. /\ db' = [db EXCEPT ![n] = "free"] /\ UNCHANGED <<needs_refresh, ipc, spc, rpc>>
        /\ \/ upth' = [upth EXCEPT ![n] = "idle"] /\ UNCHANGED <<where, local_state>>
           \/ /\ \E c \in UpComps : /\ NodeOf[c] = n
                                    /\ where' = [where EXCEPT ![c] = "refreshing"]
                                    /\ local_state' = [local_state EXCEPT ![c] = "new"]
              /\ upth' = [upth EXCEPT ![n] = "refresh"]
        /\ upth[n] = "unknown"
    BY <1>2 DEF UpUnknown, upFrame
  <2>2. InitOwned' /\ Initializer'
    BY <2>1 DEF OrphanInv, InitOwned, Initializer
  <2>3. NotYetRefreshing' /\ RefreshingMeansThread'
    BY <2>1 DEF OrphanInv, NotYetRefreshing, RefreshingMeansThread, Running, UpComps
  <2>4. NewMeansCalled'
    BY <2>1 DEF OrphanInv, NewMeansCalled, UpComps
  <2>5. Handled'
    BY <2>1 DEF OrphanInv, Handled, Refreshing, UpComps
  <2>. QED
    BY <2>2, <2>3, <2>4, <2>5 DEF OrphanInv
<1>3. CASE UpRefresh(n)
  <2>1. PICK c \in UpComps :
          /\ NodeOf[c] = n /\ where[c] = "refreshing" /\ local_state[c] = "new"
          /\ \/ RefreshClears(c) /\ ClearComponent(c)
             \/ (RefreshReturns(c) \/ RefreshSpawns(c)) /\ UNCHANGED where
    BY <1>3 DEF UpRefresh
  <2>2. /\ upth' = [upth EXCEPT ![n] = "idle"] /\ UNCHANGED <<ipc, spc>>
        /\ c \in Comps /\ c \notin StartComps /\ c \notin SessComps /\ InUse(c)
    BY <1>3, <2>1 DEF UpRefresh, UpComps, InUse
  <2>3. \A d \in UpComps : NodeOf[d] = n /\ d # c => local_state[d] # "new"
    BY <2>1, <2>2 DEF OneAtATime, InUse, UpComps
  <2>4. CASE RefreshClears(c) /\ ClearComponent(c)
    <3>1. /\ \/ local_state' = [local_state EXCEPT ![c] = "repair"]
             \/ local_state' = [local_state EXCEPT ![c] = "done"]
          /\ UNCHANGED <<needs_refresh, rpc, db>>
          /\ where' = [where EXCEPT ![c] = "out"]
      BY <2>1, <2>4 DEF RefreshClears, ClearComponent
    <3>2. InitOwned' /\ Initializer'
      BY <2>2, <3>1 DEF OrphanInv, InitOwned, Initializer
    <3>3. NotYetRefreshing' /\ RefreshingMeansThread'
      BY <2>2, <3>1 DEF OrphanInv, NotYetRefreshing, RefreshingMeansThread, Running
    <3>4. NewMeansCalled'
      BY <2>1, <2>2, <2>3, <3>1 DEF OrphanInv, NewMeansCalled, UpComps
    <3>5. Handled'
      BY <2>2, <3>1 DEF OrphanInv, Handled, Refreshing, UpComps
    <3>. QED
      BY <3>2, <3>3, <3>4, <3>5 DEF OrphanInv
  <2>5. CASE RefreshReturns(c)
    BY <2>1, <2>5 DEF RefreshReturns
  <2>6. CASE RefreshSpawns(c) /\ UNCHANGED where
    <3>1. NewMeansCalled'
      BY <2>1, <2>2, <2>3, <2>6 DEF RefreshSpawns, OrphanInv, NewMeansCalled, UpComps
    <3>. HIDE DEF TypeOK
    <3>2. InitOwned' /\ Initializer' /\ NotYetRefreshing' /\ RefreshingMeansThread' /\ Handled'
      BY <2>2, <2>6, SpawnHandles
    <3>. QED
      BY <3>1, <3>2 DEF OrphanInv
  <2>. QED
    BY <2>1, <2>4, <2>5, <2>6
<1>. QED
  BY <1>1, <1>2, <1>3 DEF UpStep

\* As long as no two objects of a node are in use at a time, the ones of the daemon's
\* start apart, every object on the refreshing list will be taken off it: by the session
\* that is clearing it, by do_initialize, by do_refresh or by received_up_msg.
THEOREM NoOrphanCorrect == Spec /\ []OneAtATime => []NoOrphan
<1>1. TypeOK /\ RefreshInv /\ OrphanInv /\ OneAtATime /\ [Next]_vars => OrphanInv'
  <2>. SUFFICES ASSUME TypeOK, RefreshInv, OrphanInv, OneAtATime, [Next]_vars PROVE OrphanInv'
    OBVIOUS
  <2>1. CASE UNCHANGED vars
    BY <2>1 DEF vars, OrphanInv, InitOwned, Initializer, NotYetRefreshing, RefreshingMeansThread,
                NewMeansCalled, Handled, Running, Refreshing
  <2>. QED
    BY <2>1, SessionHandles, InitHandles, RefreshThreadHandles, UpHandles DEF Next
<1>2. OrphanInv => NoOrphan
  BY DEF OrphanInv, NoOrphan, Handled, NewMeansCalled, Running, BeforeCheck
<1>. QED
  BY <1>1, <1>2, OrphanInit, ComponentTypeCorrect, RefreshInvariant, PTL DEF Spec


-----------------------------------------------------------------------------
(* A dominant node waits for its dependent.                                *)

(***************************************************************************)
(* do_initialize reads the state of the dependent once, before it polls    *)
(* its own node, perhaps long before it takes it.  What it read is still   *)
(* true then if the dependent is only ever refreshed at the start of the   *)
(* daemon: its state is then written once, and "free" stays.  A dependent  *)
(* with sessions of its own could begin to refresh in between.             *)
(***************************************************************************)
DependentsFromStart == \A c \in Comps \ StartComps : NodeOf[c] \notin Dependents

\* The only thread of an object made at the start is its do_refresh, which has the object
\* on the refreshing list until it ends and does not repeat itself without a dependent.
StartInv ==
  \A c \in StartComps :
    /\ ipc[c] = "none" /\ rpc[<<c, "inline">>] = "none"
    /\ rpc[<<c, "thread">>] # "exit" => where[c] = "refreshing"
    /\ DepOf[c] = NoNode => depth[<<c, "thread">>] = 0

\* The refresh of a node has written the node's state.
Written(n) ==
  \A c \in StartComps : NodeOf[c] = n => rpc[<<c, "thread">>] \in {"clear", "exit"}

WrittenInv ==
  \A n \in Dependents : db[n] # "refreshing" \/ upth[n] = "unknown" => Written(n)

\* What do_initialize has read of the dependent still holds.
ReadInv ==
  \A c \in Comps :
    /\ ipc[c] = "decide" => ~BadDep(dstate[c])
    /\ ipc[c] \in {"poll", "dep", "decide"} /\ ~BadDep(dstate[c]) => ~BadDep(DepState(c))

DepInv == StartInv /\ WrittenInv /\ ReadInv

\* A step that changes one object's threads leaves those of the others alone.
LEMMA OtherThreads ==
  ASSUME TypeOK, NEW c, NEW k,
         rpc' = rpc \/ \E v : rpc' = [rpc EXCEPT ![<<c, k>>] = v]
  PROVE  \A d \in Comps, j \in Callers : d # c => rpc'[<<d, j>>] = rpc[<<d, j>>]
  BY DEF TypeOK

\* A call of refresh leaves the threads of the other objects alone.
LEMMA RefreshElsewhere ==
  ASSUME TypeOK, NEW c, RefreshClears(c) \/ RefreshReturns(c) \/ RefreshSpawns(c)
  PROVE  \A d \in Comps, j \in Callers : d # c => rpc'[<<d, j>>] = rpc[<<d, j>>]
<1>1. rpc' = rpc \/ rpc' = [rpc EXCEPT ![<<c, "thread">>] = "connect"]
  BY DEF RefreshClears, RefreshReturns, RefreshSpawns
<1>. QED
  BY <1>1 DEF TypeOK

\* Objects made at the start are left alone by everything but their do_refresh.
LEMMA StartKept ==
  ASSUME TypeOK, RefreshInv, StartInv, Next
  PROVE  StartInv'
<1>. USE CompsAssumption DEF TypeOK, StartInv
<1>1. ASSUME NEW c \in Comps, SessionStep(c) PROVE StartInv'
  <2>1. c \notin StartComps
    BY <1>1 DEF SessionStep, AddComponent, Initialize, RemoveComponent, SessionRefresh,
                SessionClear, RefreshInv, OwnedBySession
  <2>2. \A d \in Comps, j \in Callers : d # c => rpc'[<<d, j>>] = rpc[<<d, j>>]
    BY <1>1, RefreshElsewhere
       DEF SessionStep, AddComponent, Initialize, RemoveComponent, SessionRefresh, SessionClear
  <2>3. (\A d \in Comps : d # c => ipc'[d] = ipc[d] /\ where'[d] = where[d]) /\ UNCHANGED depth
    BY <1>1 DEF SessionStep, AddComponent, Initialize, RemoveComponent, SessionRefresh,
                SessionClear, ClearComponent
  <2>. QED
    BY <2>1, <2>2, <2>3 DEF Callers
<1>2. ASSUME NEW c \in Comps, InitStep(c) PROVE StartInv'
  <2>1. c \notin StartComps
    BY <1>2 DEF InitStep, ReadDep, PollRepair, PollEnds, DepPoll, DepGivenUp, Abandon, Claim,
                InlineDone, ConfigFails, Respond, SetActive, Finish, InitFails, InitRefresh, InitClear
  <2>2. \A d \in Comps, j \in Callers : d # c => rpc'[<<d, j>>] = rpc[<<d, j>>]
    <3>1. CASE InitRefresh(c)
      BY <3>1, RefreshElsewhere DEF InitRefresh
    <3>2. CASE Claim(c)
      BY <3>2, OtherThreads DEF Claim
    <3>3. CASE InlineDone(c)
      BY <3>3, OtherThreads DEF InlineDone
    <3>4. CASE ~InitRefresh(c) /\ ~Claim(c) /\ ~InlineDone(c)
      BY <1>2, <3>4 DEF InitStep, ReadDep, PollRepair, PollEnds, DepPoll, DepGivenUp, Abandon,
                ConfigFails, Respond, SetActive, Finish, InitFails, InitClear
    <3>. QED
      BY <3>1, <3>2, <3>3, <3>4
  <2>3. (\A d \in Comps : d # c => ipc'[d] = ipc[d] /\ where'[d] = where[d]) /\ UNCHANGED depth
    <3>1. CASE ReadDep(c) \/ PollRepair(c) \/ PollEnds(c) \/ DepPoll(c)
      BY <3>1 DEF ReadDep, PollRepair, PollEnds, DepPoll
    <3>2. CASE DepGivenUp(c) \/ Abandon(c) \/ Claim(c) \/ InlineDone(c)
      BY <3>2 DEF DepGivenUp, Abandon, Claim, InlineDone
    <3>3. CASE ConfigFails(c) \/ Respond(c) \/ SetActive(c) \/ Finish(c)
      BY <3>3 DEF ConfigFails, Respond, SetActive, Finish
    <3>4. CASE InitFails(c) \/ InitRefresh(c) \/ InitClear(c)
      BY <3>4 DEF InitFails, InitRefresh, InitClear, ClearComponent
    <3>. QED
      BY <1>2, <3>1, <3>2, <3>3, <3>4 DEF InitStep
  <2>. QED
    BY <2>1, <2>2, <2>3 DEF Callers
<1>3. ASSUME NEW c \in Comps, NEW k \in Callers, RefreshStep(c, k) PROVE StartInv'
  <2>1. /\ rpc[<<c, k>>] # "none" /\ \A r \in Comps \X Callers : r # <<c, k>> => rpc'[r] = rpc[r]
        /\ \A r \in Comps \X Callers : r # <<c, k>> => depth'[r] = depth[r]
        /\ UNCHANGED ipc
        /\ \/ where' = where /\ rpc'[<<c, k>>] # "exit" /\ rpc[<<c, k>>] # "exit"
           \/ where' = [where EXCEPT ![c] = IF @ = "refreshing" THEN "out" ELSE @]
              /\ rpc'[<<c, k>>] = "exit"
        /\ DepOf[c] = NoNode /\ depth[<<c, k>>] = 0 => depth'[<<c, k>>] = 0
    <3>1. CASE RefreshAgain(c, k)
      BY <3>1 DEF RefreshAgain, refreshFrame, BadDep, DepState
    <3>2. CASE RefreshFree(c, k) \/ RefreshFails(c, k)
      BY <3>2 DEF RefreshFree, RefreshFails, Return, AfterUp, refreshFrame
    <3>3. CASE RefreshClear(c, k)
      BY <3>3 DEF RefreshClear, ClearComponent
    <3>4. CASE SendRefresh(c, k) \/ SendRefreshFails(c, k) \/ GotUp(c, k) \/ UpTimeout(c, k)
      BY <3>4 DEF SendRefresh, SendRefreshFails, GotUp, UpTimeout, AfterUp, refreshFrame
    <3>5. CASE DepUp(c, k) \/ SendKeeboot(c, k) \/ SendKeebootFails(c, k)
      BY <3>5 DEF DepUp, SendKeeboot, SendKeebootFails, AfterUp, refreshFrame
    <3>. QED
      BY <1>3, <3>1, <3>2, <3>3, <3>4, <3>5 DEF RefreshStep
  <2>2. c \in StartComps => k = "thread"
    BY <2>1 DEF Callers
  <2>3. SUFFICES ASSUME NEW d \in StartComps
                 PROVE  /\ ipc'[d] = "none" /\ rpc'[<<d, "inline">>] = "none"
                        /\ rpc'[<<d, "thread">>] # "exit" => where'[d] = "refreshing"
                        /\ DepOf[d] = NoNode => depth'[<<d, "thread">>] = 0
    OBVIOUS
  <2>4. CASE d = c
    BY <2>1, <2>2, <2>4 DEF Callers
  <2>5. CASE d # c
    BY <2>1, <2>5 DEF Callers
  <2>. QED
    BY <2>4, <2>5
<1>4. ASSUME NEW n \in Nodes, NodeUp(n) \/ NodeReboots(n) \/ UpStep(n) PROVE StartInv'
  <2>1. UNCHANGED <<ipc, depth>>
    BY <1>4 DEF NodeUp, NodeReboots, UpStep, LookUp, DeliverUp, UpUnknown, UpRefresh, upFrame
  <2>2. \A d \in StartComps :
           where'[d] = where[d] /\ \A j \in Callers : rpc'[<<d, j>>] = rpc[<<d, j>>]
    <3>1. CASE UpRefresh(n)
      BY <3>1, RefreshElsewhere DEF UpRefresh, ClearComponent, UpComps
    <3>2. CASE UpUnknown(n)
      BY <3>2 DEF UpUnknown, UpComps
    <3>3. CASE NodeUp(n) \/ NodeReboots(n) \/ LookUp(n) \/ DeliverUp(n)
      BY <3>3 DEF NodeUp, NodeReboots, LookUp, DeliverUp
    <3>. QED
      BY <1>4, <3>1, <3>2, <3>3 DEF UpStep
  <2>. QED
    BY <2>1, <2>2 DEF Callers
<1>. QED
  BY <1>1, <1>2, <1>3, <1>4 DEF Next


\* A dependent's state is written by the refresh of its start or by received_up_msg.
LEMMA DependentWrites ==
  ASSUME DependentsFromStart, TypeOK, RefreshInv, StartInv, Next, NEW m \in Dependents
  PROVE  \/ db'[m] = db[m]
         \/ db'[m] = "free" /\ upth[m] = "unknown"
         \/ /\ db'[m] \in {"free", "repair"}
            /\ \E c \in StartComps : /\ NodeOf[c] = m /\ rpc'[<<c, "thread">>] = "clear"
                                     /\ rpc[<<c, "thread">>] \in {"free", "fail"}
<1>. USE CompsAssumption, NodesAssumption DEF TypeOK
<1>1. m \in Nodes
  BY DEF Dependents
<1>2. ASSUME NEW c \in Comps, SessionStep(c) PROVE db'[m] = db[m]
  <2>1. c \notin StartComps
    BY <1>2 DEF SessionStep, AddComponent, Initialize, RemoveComponent, SessionRefresh,
                SessionClear, RefreshInv, OwnedBySession
  <2>2. db' = db \/ \E v : db' = [db EXCEPT ![NodeOf[c]] = v]
    BY <1>2 DEF SessionStep, AddComponent, Initialize, RemoveComponent, SessionRefresh,
                SessionClear, RefreshClears, RefreshReturns, RefreshSpawns, nodeVars
  <2>. QED
    BY <1>1, <2>1, <2>2 DEF DependentsFromStart
<1>3. ASSUME NEW c \in Comps, InitStep(c) PROVE db'[m] = db[m]
  <2>1. c \notin StartComps
    BY <1>3 DEF InitStep, ReadDep, PollRepair, PollEnds, DepPoll, DepGivenUp, Abandon, Claim,
                InlineDone, ConfigFails, Respond, SetActive, Finish, InitFails, InitRefresh,
                InitClear, StartInv
  <2>2. db' = db \/ \E v : db' = [db EXCEPT ![NodeOf[c]] = v]
    <3>1. CASE ReadDep(c) \/ PollRepair(c) \/ PollEnds(c) \/ DepPoll(c)
      BY <3>1 DEF ReadDep, PollRepair, PollEnds, DepPoll, nodeVars
    <3>2. CASE DepGivenUp(c) \/ Abandon(c) \/ Claim(c) \/ InlineDone(c)
      BY <3>2 DEF DepGivenUp, Abandon, Claim, InlineDone, nodeVars
    <3>3. CASE ConfigFails(c) \/ Respond(c) \/ SetActive(c) \/ Finish(c)
      BY <3>3 DEF ConfigFails, Respond, SetActive, Finish, nodeVars
    <3>4. CASE InitFails(c) \/ InitRefresh(c) \/ InitClear(c)
      BY <3>4 DEF InitFails, Repair, InitRefresh, RefreshClears, RefreshReturns, RefreshSpawns,
                  InitClear, nodeVars
    <3>. QED
      BY <1>3, <3>1, <3>2, <3>3, <3>4 DEF InitStep
  <2>. QED
    BY <1>1, <2>1, <2>2 DEF DependentsFromStart
<1>4. ASSUME NEW c \in Comps, NEW k \in Callers, RefreshStep(c, k), db'[m] # db[m]
      PROVE  /\ db'[m] \in {"free", "repair"}
             /\ \E d \in StartComps : /\ NodeOf[d] = m /\ rpc'[<<d, "thread">>] = "clear"
                                      /\ rpc[<<d, "thread">>] \in {"free", "fail"}
  <2>1. \/ RefreshFree(c, k) /\ db' = [db EXCEPT ![NodeOf[c]] = "free"]
        \/ RefreshFails(c, k) /\ db' = [db EXCEPT ![NodeOf[c]] = "repair"]
    BY <1>4 DEF RefreshStep, SendRefresh, SendRefreshFails, GotUp, UpTimeout, DepUp, RefreshAgain,
                SendKeeboot, SendKeebootFails, RefreshFree, RefreshFails, Repair, RefreshClear, nodeVars
  <2>2. NodeOf[c] = m /\ db'[m] \in {"free", "repair"}
    BY <1>1, <1>4, <2>1
  <2>3. c \in StartComps
    BY <2>2 DEF DependentsFromStart
  <2>4. DepOf[c] = NoNode
    BY <2>2 DEF Dependents
  <2>5. k = "thread" /\ depth[<<c, k>>] = 0
    BY <2>1, <2>3, <2>4 DEF StartInv, Callers, RefreshFree, RefreshFails
  <2>6. rpc'[<<c, k>>] = "clear" /\ rpc[<<c, k>>] \in {"free", "fail"}
    BY <2>1, <2>5 DEF RefreshFree, RefreshFails, Return
  <2>. QED
    BY <2>2, <2>3, <2>5, <2>6
<1>5. ASSUME NEW n \in Nodes, NodeUp(n) \/ NodeReboots(n) \/ UpStep(n), db'[m] # db[m]
      PROVE  db'[m] = "free" /\ upth[m] = "unknown"
  <2>1. CASE UpUnknown(n)
    BY <1>1, <1>5, <2>1 DEF UpUnknown
  <2>2. CASE UpRefresh(n)
    <3>1. PICK c \in UpComps : /\ NodeOf[c] = n
                               /\ RefreshClears(c) \/ RefreshReturns(c) \/ RefreshSpawns(c)
      BY <2>2 DEF UpRefresh
    <3>2. n # m
      BY <3>1 DEF DependentsFromStart, UpComps
    <3>. QED
      BY <1>1, <1>5, <3>1, <3>2 DEF RefreshClears, RefreshReturns, RefreshSpawns
  <2>. QED
    BY <1>5, <2>1, <2>2 DEF UpStep, NodeUp, NodeReboots, LookUp, DeliverUp, nodeVars
<1>. QED
  BY <1>2, <1>3, <1>4, <1>5 DEF Next

\* A refresh that has written the node's state does not write it again.
LEMMA WrittenStays ==
  ASSUME TypeOK, RefreshInv, StartInv, Next, NEW n, Written(n)
  PROVE  Written(n)'
<1>. USE CompsAssumption DEF TypeOK
<1>. SUFFICES ASSUME NEW d \in StartComps, rpc[<<d, "thread">>] \in {"clear", "exit"}
              PROVE  rpc'[<<d, "thread">>] \in {"clear", "exit"}
  BY DEF Written
<1>1. ASSUME NEW c \in Comps, SessionStep(c) \/ InitStep(c)
      PROVE  rpc'[<<d, "thread">>] = rpc[<<d, "thread">>]
  <2>1. c # d
    <3>1. CASE SessionStep(c)
      BY <3>1 DEF SessionStep, AddComponent, Initialize, RemoveComponent, SessionRefresh,
                  SessionClear, RefreshInv, OwnedBySession
    <3>2. CASE InitStep(c)
      BY <3>2 DEF InitStep, ReadDep, PollRepair, PollEnds, DepPoll, DepGivenUp, Abandon, Claim,
                  InlineDone, ConfigFails, Respond, SetActive, Finish, InitFails, InitRefresh,
                  InitClear, StartInv
    <3>. QED
      BY <1>1, <3>1, <3>2
  <2>2. CASE SessionStep(c)
    BY <2>1, <2>2, RefreshElsewhere DEF Callers,
       SessionStep, AddComponent, Initialize, RemoveComponent, SessionRefresh, SessionClear
  <2>3. CASE InitRefresh(c)
    BY <2>1, <2>3, RefreshElsewhere DEF InitRefresh, Callers
  <2>4. CASE Claim(c)
    BY <2>1, <2>4, OtherThreads DEF Claim, Callers
  <2>5. CASE InlineDone(c)
    BY <2>1, <2>5, OtherThreads DEF InlineDone, Callers
  <2>6. CASE InitStep(c) /\ ~InitRefresh(c) /\ ~Claim(c) /\ ~InlineDone(c)
    BY <2>6 DEF InitStep, ReadDep, PollRepair, PollEnds, DepPoll, DepGivenUp, Abandon,
                ConfigFails, Respond, SetActive, Finish, InitFails, InitClear
  <2>. QED
    BY <1>1, <2>2, <2>3, <2>4, <2>5, <2>6
<1>2. ASSUME NEW c \in Comps, NEW k \in Callers, RefreshStep(c, k)
      PROVE  rpc'[<<d, "thread">>] \in {"clear", "exit"}
  BY <1>2 DEF RefreshStep, SendRefresh, SendRefreshFails, GotUp, UpTimeout, DepUp, RefreshAgain,
              SendKeeboot, SendKeebootFails, RefreshFree, RefreshFails, Return, RefreshClear, Callers
<1>3. ASSUME NEW m \in Nodes, NodeUp(m) \/ NodeReboots(m) \/ UpStep(m)
      PROVE  rpc'[<<d, "thread">>] = rpc[<<d, "thread">>]
  <2>1. CASE UpRefresh(m)
    <3>1. PICK c \in UpComps : RefreshClears(c) \/ RefreshReturns(c) \/ RefreshSpawns(c)
      BY <2>1 DEF UpRefresh
    <3>2. c # d
      BY DEF UpComps
    <3>. HIDE DEF TypeOK
    <3>3. \A e \in Comps, j \in Callers : e # c => rpc'[<<e, j>>] = rpc[<<e, j>>]
      BY <3>1, RefreshElsewhere
    <3>. QED
      BY <3>2, <3>3 DEF Callers
  <2>. QED
    BY <1>3, <2>1 DEF UpStep, NodeUp, NodeReboots, LookUp, DeliverUp, UpUnknown
<1>. QED
  BY <1>1, <1>2, <1>3 DEF Next

\* A dependent that is up stays up.
LEMMA ReadyStays ==
  ASSUME DependentsFromStart, TypeOK, RefreshInv, StartInv, WrittenInv, Next, NEW c \in Comps,
         ~BadDep(DepState(c))
  PROVE  ~BadDep(DepState(c)')
<1>1. CASE DepOf[c] = NoNode
  BY <1>1 DEF DepState, BadDep
<1>2. CASE DepOf[c] # NoNode
  <2>1. DepOf[c] \in Dependents /\ DepState(c) = db[DepOf[c]] /\ DepState(c)' = db'[DepOf[c]]
    BY <1>2 DEF Dependents, DepState
  <2>2. Written(DepOf[c])
    BY <2>1 DEF WrittenInv, BadDep
  <2>3. db'[DepOf[c]] = db[DepOf[c]] \/ db'[DepOf[c]] = "free"
    BY <2>1, <2>2, DependentWrites DEF Written
  <2>. QED
    BY <2>1, <2>3 DEF BadDep
<1>. QED
  BY <1>1, <1>2


\* The steps keep what do_initialize has read.
LEMMA ReadKept ==
  ASSUME DependentsFromStart, TypeOK, RefreshInv, DepInv, Next
  PROVE  ReadInv'
<1>. USE CompsAssumption DEF TypeOK
<1>1. ASSUME NEW d \in Comps, ~BadDep(DepState(d)) PROVE ~BadDep(DepState(d)')
  BY <1>1, ReadyStays DEF DepInv
<1>2. ASSUME UNCHANGED <<ipc, dstate>> PROVE ReadInv'
  BY <1>1, <1>2 DEF DepInv, ReadInv, BadDep
<1>3. ASSUME NEW c \in Comps, NEW to, ipc' = [ipc EXCEPT ![c] = to], UNCHANGED dstate,
             \/ to \notin {"poll", "dep", "decide"}
             \/ ipc[c] = "poll" /\ (to = "decide" => ~BadDep(dstate[c]))
      PROVE  ReadInv'
  <2>1. \A d \in Comps : d # c => ipc'[d] = ipc[d] /\ dstate'[d] = dstate[d]
    BY <1>3
  <2>. QED
    BY <1>1, <1>3, <2>1 DEF DepInv, ReadInv, BadDep
<1>4. ASSUME NEW c \in Comps, NEW to \in {"poll", "dep", "decide"}, ipc' = [ipc EXCEPT ![c] = to],
             dstate' = [dstate EXCEPT ![c] = DepState(c)],
             to = "decide" => ~BadDep(DepState(c))
      PROVE  ReadInv'
  <2>1. dstate'[c] = DepState(c) /\ \A d \in Comps : d # c => ipc'[d] = ipc[d] /\ dstate'[d] = dstate[d]
    BY <1>4
  <2>. QED
    BY <1>1, <1>4, <2>1 DEF DepInv, ReadInv, BadDep
<1>5. ASSUME NEW c \in Comps, SessionStep(c) PROVE ReadInv'
  <2>1. CASE Initialize(c)
    BY <1>3, <2>1 DEF Initialize
  <2>. QED
    BY <1>2, <1>5, <2>1 DEF SessionStep, AddComponent, RemoveComponent, SessionRefresh, SessionClear
<1>6. ASSUME NEW c \in Comps, InitStep(c) PROVE ReadInv'
  <2>1. CASE ReadDep(c)
    BY <1>4, <2>1 DEF ReadDep
  <2>2. CASE PollEnds(c)
    BY <1>3, <2>2 DEF PollEnds
  <2>3. CASE DepPoll(c)
    BY <1>4, <2>3 DEF DepPoll
  <2>4. CASE PollRepair(c) \/ DepGivenUp(c) \/ Abandon(c) \/ Claim(c) \/ InlineDone(c)
    BY <1>3, <2>4 DEF PollRepair, DepGivenUp, Abandon, Claim, InlineDone
  <2>5. CASE ConfigFails(c) \/ Respond(c) \/ SetActive(c) \/ Finish(c)
    BY <1>3, <2>5 DEF ConfigFails, Respond, SetActive, Finish
  <2>6. CASE InitFails(c) \/ InitRefresh(c) \/ InitClear(c)
    BY <1>3, <2>6 DEF InitFails, InitRefresh, InitClear
  <2>. QED
    BY <1>6, <2>1, <2>2, <2>3, <2>4, <2>5, <2>6 DEF InitStep
<1>7. ASSUME NEW c \in Comps, NEW k \in Callers, RefreshStep(c, k) PROVE ReadInv'
  BY <1>2, <1>7 DEF RefreshStep, SendRefresh, SendRefreshFails, GotUp, UpTimeout, DepUp,
     RefreshAgain, SendKeeboot, SendKeebootFails, RefreshFree, RefreshFails, RefreshClear, refreshFrame
<1>8. ASSUME NEW n \in Nodes, NodeUp(n) \/ NodeReboots(n) \/ UpStep(n) PROVE ReadInv'
  BY <1>2, <1>8 DEF UpStep, NodeUp, NodeReboots, LookUp, DeliverUp, UpUnknown, UpRefresh, upFrame
<1>. QED
  BY <1>5, <1>6, <1>7, <1>8 DEF Next

\* A dependent is not refreshing, or unknown to received_up_msg, only when it has been written.
LEMMA WrittenKept ==
  ASSUME DependentsFromStart, TypeOK, RefreshInv, DepInv, Next
  PROVE  WrittenInv'
<1>. SUFFICES ASSUME NEW n \in Dependents, db'[n] # "refreshing" \/ upth'[n] = "unknown"
              PROVE  Written(n)'
  BY DEF WrittenInv, Dependents
<1>. USE DEF DepInv
<1>1. n \in Nodes
  BY NodesAssumption DEF Dependents
<1>2. CASE db[n] # "refreshing" \/ upth[n] = "unknown"
  BY <1>2, WrittenStays DEF WrittenInv
<1>3. CASE db[n] = "refreshing" /\ db'[n] # "refreshing" /\ upth[n] # "unknown"
  <2>1. PICK c \in StartComps : NodeOf[c] = n /\ rpc'[<<c, "thread">>] = "clear"
    BY <1>3, DependentWrites
  <2>. QED
    BY <2>1, CompsAssumption DEF Written
<1>4. CASE upth[n] # "unknown" /\ upth'[n] = "unknown"
  <2>1. LookUp(n)
    <3>1. ASSUME NEW c \in Comps, SessionStep(c) PROVE FALSE
      BY <1>4, <3>1 DEF SessionStep, AddComponent, Initialize, RemoveComponent, SessionRefresh,
                        SessionClear, upVars
    <3>2. ASSUME NEW c \in Comps, InitStep(c) PROVE FALSE
      BY <1>4, <3>2 DEF InitStep, ReadDep, PollRepair, PollEnds, DepPoll, DepGivenUp, Abandon,
         Claim, InlineDone, ConfigFails, Respond, SetActive, Finish, InitFails, InitRefresh,
         InitClear, upVars
    <3>3. ASSUME NEW c \in Comps, NEW k \in Callers, RefreshStep(c, k) PROVE FALSE
      BY <1>4, <3>3 DEF RefreshStep, SendRefresh, SendRefreshFails, GotUp, UpTimeout, DepUp,
         RefreshAgain, SendKeeboot, SendKeebootFails, RefreshFree, RefreshFails, RefreshClear,
         refreshFrame, upVars
    <3>4. ASSUME NEW m \in Nodes, NodeUp(m) \/ NodeReboots(m) \/ UpStep(m) PROVE LookUp(n)
      BY <1>1, <1>4, <3>4 DEF NodeUp, NodeReboots, UpStep, DeliverUp, UpUnknown, UpRefresh,
         LookUp, upVars, TypeOK
    <3>. QED
      BY <3>1, <3>2, <3>3, <3>4 DEF Next
  <2>2. Listed(n, "refreshing") = {}
    BY <1>1, <1>4, <2>1, NamesAssumption DEF LookUp, Listed, TypeOK
  <2>3. Written(n)
    BY <2>2, CompsAssumption DEF Written, Listed, StartInv
  <2>. QED
    BY <2>3, WrittenStays
<1>. QED
  BY <1>2, <1>3, <1>4

\* If dependent nodes are refreshed at the start of the daemon only, a node that dominates
\* another is taken only when the other is neither refreshing nor in repair.
THEOREM DependentReadyCorrect == DependentsFromStart /\ Spec => DependentReady
<1>. SUFFICES ASSUME DependentsFromStart PROVE Spec => DependentReady
  OBVIOUS
<1>. DEFINE Ready == \A c \in Comps : ipc[c] = "decide" /\ ipc'[c] \in {"inline", "config"} =>
                       ~BadDep(DepState(c))
<1>1. Init => DepInv
  <2>. SUFFICES ASSUME Init PROVE DepInv
    OBVIOUS
  <2>1. StartInv
    BY CompsAssumption DEF Init, StartInv, Callers
  <2>2. WrittenInv
    BY NodesAssumption, CompsAssumption DEF Init, WrittenInv, Written, Dependents
  <2>3. ReadInv
    BY DEF Init, ReadInv
  <2>. QED
    BY <2>1, <2>2, <2>3 DEF DepInv
<1>2. TypeOK /\ RefreshInv /\ DepInv /\ [Next]_vars => DepInv'
  <2>1. CASE UNCHANGED vars
    BY <2>1 DEF vars, DepInv, StartInv, WrittenInv, Written, ReadInv, BadDep, DepState
  <2>2. ASSUME TypeOK, RefreshInv, DepInv, Next PROVE DepInv'
    BY <2>2, StartKept, WrittenKept, ReadKept DEF DepInv
  <2>. QED
    BY <2>1, <2>2
<1>3. DepInv => [Ready]_vars
  BY DEF DepInv, ReadInv, Ready
<1>. QED
  BY <1>1, <1>2, <1>3, ComponentTypeCorrect, RefreshInvariant, PTL DEF Spec, DependentReady

-----------------------------------------------------------------------------
(* A keeboot node is configured in its own file system.                    *)

(***************************************************************************)
(* do_initialize asks the database whether its inline refresh failed.  An  *)
(* answer other than "repair" means that it succeeded as long as the state *)
(* is the one do_initialize has set, "initializing"; that is why no other  *)
(* object of the node may be in do_initialize meanwhile.  A later session  *)
(* can get there: its object is added when the earlier one is removed,     *)
(* whose do_initialize may still be polling.                               *)
(***************************************************************************)
OneInitializer ==
  \A c, d \in Comps :
    c # d /\ NodeOf[c] = NodeOf[d] => ~(Running(c) /\ Running(d))

\* The parameter of a keeboot node is set by add_component for an active object only.
ParamInv ==
  /\ \A n \in Nodes : kparam[n] => n \in Keeboot
  /\ \A c \in Comps : spc[c] \in {"added", "running"} => where[c] = "active"

\* Only the objects of sessions are initialized, and only keeboot nodes booted inline.
InlineInv ==
  \A c \in Comps :
    /\ ipc[c] # "none" => c \in SessComps
    /\ ipc[c] = "inline" => NodeOf[c] \in Keeboot

\* The node is running for its session, and nobody has changed its state.
Held(c, pc) == ipc[c] = pc /\ spc[c] = "running" /\ db[NodeOf[c]] = "initializing"

\* Past the keeboot request, and with the node's state as it was, the parameter is gone.
BootInv ==
  \A c \in Comps :
    Held(c, "inline") /\ rpc[<<c, "inline">>] \in {"kwait", "free", "back"} =>
      ~kparam[NodeOf[c]]

KeeInv == ParamInv /\ InlineInv /\ BootInv /\ KeebootBeforeConfig

\* At the start there are no parameters and no initializations.
LEMMA KeeInit == Init => KeeInv
BY CompsAssumption
   DEF Init, KeeInv, ParamInv, InlineInv, BootInv, Held, KeebootBeforeConfig

\* The session steps keep the invariant: add_component waits for the active object.
LEMMA SessionBoots ==
  ASSUME TypeOK, RefreshInv, KeeInv, NEW d \in Comps, SessionStep(d)
  PROVE  KeeInv'
<1>. USE CompsAssumption DEF KeeInv, ParamInv, InlineInv, BootInv, Held, KeebootBeforeConfig, TypeOK
<1>1. CASE AddComponent(d)
  BY <1>1 DEF AddComponent, nodeVars
<1>2. CASE Initialize(d)
  BY <1>2 DEF Initialize, nodeVars, RefreshInv, OwnedBySession
<1>3. CASE RemoveComponent(d)
  BY <1>3 DEF RemoveComponent, nodeVars
<1>4. CASE SessionRefresh(d)
  <2>1. /\ UNCHANGED <<kparam, where, ipc>> /\ spc[d] = "removed"
        /\ spc' = [spc EXCEPT ![d] = "clear"] \/ spc' = [spc EXCEPT ![d] = "exit"]
    BY <1>4 DEF SessionRefresh
  <2>2. /\ db' = db \/ db' = [db EXCEPT ![NodeOf[d]] = "refreshing"]
        /\ rpc' = rpc \/ rpc' = [rpc EXCEPT ![<<d, "thread">>] = "connect"]
    BY <1>4 DEF SessionRefresh, RefreshClears, RefreshReturns, RefreshSpawns
  <2>3. \A c \in Comps : rpc'[<<c, "inline">>] = rpc[<<c, "inline">>]
    BY <2>2, "inline" # "thread" DEF Callers
  <2>. QED
    BY <2>1, <2>2, <2>3
<1>5. CASE SessionClear(d)
  BY <1>5 DEF SessionClear, ClearComponent, nodeVars
<1>. QED
  BY <1>1, <1>2, <1>3, <1>4, <1>5 DEF SessionStep

\* do_initialize keeps it: no other object of the node is being initialized.
LEMMA InitBoots ==
  ASSUME TypeOK, OneInitializer, KeeInv, NEW d \in Comps, InitStep(d)
  PROVE  KeeInv'
<1>. USE CompsAssumption DEF KeeInv, ParamInv, InlineInv, BootInv, Held, KeebootBeforeConfig, TypeOK
<1>1. CASE \/ ReadDep(d) \/ PollRepair(d) \/ PollEnds(d) \/ DepPoll(d) \/ DepGivenUp(d)
           \/ Abandon(d) \/ ConfigFails(d) \/ Respond(d) \/ Finish(d)
  <2>1. /\ UNCHANGED <<db, kparam, where, rpc, spc>> /\ ipc[d] # "none"
        /\ \E p \in InitPcs \ {"inline", "config"} : ipc' = [ipc EXCEPT ![d] = p]
    BY <1>1 DEF ReadDep, PollRepair, PollEnds, DepPoll, DepGivenUp, Abandon, ConfigFails, Respond,
                Finish, nodeVars, InitPcs
  <2>. QED
    BY <2>1
<1>2. CASE Claim(d)
  <2>1. /\ UNCHANGED <<kparam, where, spc>> /\ ipc[d] = "decide"
        /\ db' = [db EXCEPT ![NodeOf[d]] = "initializing"]
    BY <1>2 DEF Claim
  <2>2. \/ /\ ipc' = [ipc EXCEPT ![d] = "inline"] /\ NodeOf[d] \in Keeboot
           /\ rpc' = [rpc EXCEPT ![<<d, "inline">>] = "connect"]
        \/ /\ ipc' = [ipc EXCEPT ![d] = "config"] /\ rpc' = rpc /\ ~kparam[NodeOf[d]]
    BY <1>2 DEF Claim
  <2>3. ASSUME NEW c \in Comps, c # d, NodeOf[c] = NodeOf[d]
        PROVE  ipc[c] \in {"none", "exit"}
    BY <2>1, <2>3 DEF OneInitializer, Running
  <2>4. ParamInv' /\ InlineInv'
    BY <2>1, <2>2
  <2>5. ASSUME NEW c \in Comps, c # d, Held(c, "inline")' \/ Held(c, "config")'
        PROVE  NodeOf[c] # NodeOf[d] /\ ipc'[c] = ipc[c] /\ rpc'[<<c, "inline">>] = rpc[<<c, "inline">>]
    <3>1. ipc'[c] = ipc[c] /\ ipc[c] \in {"inline", "config"} /\ spc[c] = "running"
      BY <2>1, <2>2, <2>5
    <3>2. NodeOf[c] # NodeOf[d]
      BY <2>3, <2>5, <3>1
    <3>3. rpc'[<<c, "inline">>] = rpc[<<c, "inline">>]
      BY <2>2, <2>5, <<c, "inline">> # <<d, "inline">> DEF Callers
    <3>. QED
      BY <3>1, <3>2, <3>3
  <2>6. BootInv'
    <3>1. ASSUME Held(d, "inline")', rpc'[<<d, "inline">>] \in {"kwait", "free", "back"} PROVE FALSE
      <4>1. rpc' = [rpc EXCEPT ![<<d, "inline">>] = "connect"]
        BY <2>1, <2>2, <3>1
      <4>. QED
        BY <3>1, <4>1 DEF Callers
    <3>2. ASSUME NEW c \in Comps, c # d, Held(c, "inline")', rpc'[<<c, "inline">>] \in {"kwait", "free", "back"}
          PROVE  ~kparam'[NodeOf[c]]
      <4>1. NodeOf[c] # NodeOf[d] /\ ipc'[c] = ipc[c] /\ rpc'[<<c, "inline">>] = rpc[<<c, "inline">>]
        BY <2>5, <3>2
      <4>2. Held(c, "inline")
        BY <2>1, <3>2, <4>1
      <4>. QED
        BY <2>1, <3>2, <4>1, <4>2
    <3>. QED
      BY <3>1, <3>2
  <2>7. KeebootBeforeConfig'
    <3>1. ASSUME NEW c \in Comps, c # d, Held(c, "config")' PROVE ~kparam'[NodeOf[c]]
      <4>1. NodeOf[c] # NodeOf[d] /\ ipc'[c] = ipc[c]
        BY <2>5, <3>1
      <4>2. Held(c, "config")
        BY <2>1, <3>1, <4>1
      <4>. QED
        BY <2>1, <4>2
    <3>2. ASSUME Held(d, "config")' PROVE ~kparam'[NodeOf[d]]
      BY <2>1, <2>2, <3>2
    <3>. QED
      BY <3>1, <3>2
  <2>. QED
    BY <2>4, <2>6, <2>7
<1>3. CASE InlineDone(d)
  <2>1. /\ UNCHANGED <<db, kparam, where, spc>> /\ ipc[d] = "inline"
        /\ rpc[<<d, "inline">>] = "back" /\ rpc' = [rpc EXCEPT ![<<d, "inline">>] = "none"]
        /\ \E p \in {"clear", "config"} : ipc' = [ipc EXCEPT ![d] = p]
    BY <1>3 DEF InlineDone, nodeVars
  <2>. QED
    BY <2>1
<1>4. CASE SetActive(d) \/ InitFails(d)
  <2>1. /\ UNCHANGED <<kparam, where, rpc, spc>> /\ ipc[d] # "none"
        /\ \E s \in {"active", "repair"} : db' = [db EXCEPT ![NodeOf[d]] = s]
        /\ \E p \in {"finish", "refresh", "exit"} : ipc' = [ipc EXCEPT ![d] = p]
    BY <1>4 DEF SetActive, InitFails, Repair
  <2>. QED
    BY <2>1
<1>5. CASE InitRefresh(d)
  <2>1. /\ UNCHANGED <<kparam, where, spc>> /\ ipc[d] # "none"
        /\ \E p \in {"clear", "exit"} : ipc' = [ipc EXCEPT ![d] = p]
    BY <1>5 DEF InitRefresh
  <2>2. /\ db' = db \/ db' = [db EXCEPT ![NodeOf[d]] = "refreshing"]
        /\ rpc' = rpc \/ rpc' = [rpc EXCEPT ![<<d, "thread">>] = "connect"]
    BY <1>5 DEF InitRefresh, RefreshClears, RefreshReturns, RefreshSpawns
  <2>3. \A c \in Comps : rpc'[<<c, "inline">>] = rpc[<<c, "inline">>]
    BY <2>2, "inline" # "thread" DEF Callers
  <2>. QED
    BY <2>1, <2>2, <2>3
<1>6. CASE InitClear(d)
  BY <1>6 DEF InitClear, ClearComponent, nodeVars
<1>. QED
  BY <1>1, <1>2, <1>3, <1>4, <1>5, <1>6 DEF InitStep

\* do_refresh keeps it: the keeboot request takes the parameter, and a failure changes
\* the state of the node.
LEMMA RefreshBoots ==
  ASSUME TypeOK, KeeInv, NEW d \in Comps, NEW k \in Callers, RefreshStep(d, k)
  PROVE  KeeInv'
<1>. USE CompsAssumption DEF TypeOK
<1>1. UNCHANGED <<ipc, spc>>
  BY DEF RefreshStep, SendRefresh, SendRefreshFails, GotUp, UpTimeout, DepUp, RefreshAgain,
         SendKeeboot, SendKeebootFails, RefreshFree, RefreshFails, RefreshClear, refreshFrame
<1>2. /\ kparam' = kparam \/ kparam' = [kparam EXCEPT ![NodeOf[d]] = FALSE]
      /\ where' = where \/ \E c \in Comps : where[c] = "refreshing" /\ where' = [where EXCEPT ![c] = "out"]
  BY DEF RefreshStep, SendRefresh, SendRefreshFails, GotUp, UpTimeout, DepUp, RefreshAgain,
         SendKeeboot, SendKeebootFails, RefreshFree, RefreshFails, RefreshClear, refreshFrame,
         ClearComponent
<1>3. db' = db \/ \E s \in {"free", "repair"} : db' = [db EXCEPT ![NodeOf[d]] = s]
  BY DEF RefreshStep, SendRefresh, SendRefreshFails, GotUp, UpTimeout, DepUp, RefreshAgain,
         SendKeeboot, SendKeebootFails, RefreshFree, RefreshFails, RefreshClear, nodeVars, Repair
<1>4. ParamInv' /\ InlineInv' /\ KeebootBeforeConfig'
  BY <1>1, <1>2, <1>3 DEF KeeInv, ParamInv, InlineInv, KeebootBeforeConfig
<1>5. ASSUME NEW c \in Comps, c # d \/ k # "inline"
      PROVE  rpc'[<<c, "inline">>] = rpc[<<c, "inline">>]
  <2>1. \E p : rpc' = [rpc EXCEPT ![<<d, k>>] = p]
    BY DEF RefreshStep, SendRefresh, SendRefreshFails, GotUp, UpTimeout, DepUp, RefreshAgain,
           SendKeeboot, SendKeebootFails, RefreshFree, RefreshFails, RefreshClear, Return
  <2>2. <<c, "inline">> # <<d, k>>
    BY <1>5
  <2>. QED
    BY <2>1, <2>2 DEF Callers
<1>6. ASSUME k = "inline", Held(d, "inline")', rpc'[<<d, "inline">>] \in {"kwait", "free", "back"}
      PROVE  ~kparam'[NodeOf[d]]
  <2>1. Held(d, "inline") /\ NodeOf[d] \in Keeboot /\ <<d, "inline">> \in Comps \X Callers
    BY <1>1, <1>3, <1>6 DEF Held, KeeInv, InlineInv, Callers
  <2>2. CASE SendKeeboot(d, k)
    BY <2>2 DEF SendKeeboot
  <2>3. CASE SendRefresh(d, k) \/ SendRefreshFails(d, k) \/ UpTimeout(d, k) \/ DepUp(d, k) \/ RefreshAgain(d, k) \/ SendKeebootFails(d, k) \/ RefreshClear(d, k)
    <3>1. rpc'[<<d, "inline">>] \notin {"kwait", "free", "back"}
      BY <1>6, <2>1, <2>3 DEF SendRefresh, SendRefreshFails, UpTimeout, DepUp, RefreshAgain,
         SendKeebootFails, RefreshClear, AfterUp
    <3>. QED
      BY <1>6, <3>1
  <2>4. CASE GotUp(d, k)
    <3>1. rpc[<<d, "inline">>] = "kwait" /\ kparam' = kparam
      BY <1>6, <2>1, <2>4 DEF GotUp, AfterUp
    <3>. QED
      BY <2>1, <3>1 DEF KeeInv, BootInv
  <2>5. CASE RefreshFree(d, k)
    <3>1. rpc[<<d, "inline">>] = "free" /\ kparam' = kparam
      BY <1>6, <2>5 DEF RefreshFree
    <3>. QED
      BY <2>1, <3>1 DEF KeeInv, BootInv
  <2>6. CASE RefreshFails(d, k)
    <3>1. db'[NodeOf[d]] = "repair"
      BY <2>6 DEF RefreshFails, Repair
    <3>. QED
      BY <1>6, <3>1 DEF Held
  <2>. QED
    BY <2>2, <2>3, <2>4, <2>5, <2>6 DEF RefreshStep
<1>7. BootInv'
  <2>1. ASSUME NEW c \in Comps, Held(c, "inline")',
               rpc'[<<c, "inline">>] \in {"kwait", "free", "back"}, c # d \/ k # "inline"
        PROVE  ~kparam'[NodeOf[c]]
    BY <1>1, <1>2, <1>3, <1>5, <2>1 DEF KeeInv, BootInv, Held
  <2>. QED
    BY <1>6, <2>1 DEF BootInv
<1>. QED
  BY <1>4, <1>7 DEF KeeInv

\* The nodes and received_up_msg keep it: they set no node initializing.
LEMMA UpBoots ==
  ASSUME TypeOK, RefreshInv, KeeInv, NEW n \in Nodes, NodeUp(n) \/ NodeReboots(n) \/ UpStep(n)
  PROVE  KeeInv'
<1>. USE CompsAssumption DEF TypeOK
<1>1. UNCHANGED <<kparam, ipc, spc>>
  BY DEF NodeUp, NodeReboots, UpStep, LookUp, DeliverUp, UpUnknown, UpRefresh, upFrame
<1>2. \A c \in SessComps : where[c] = "active" => where'[c] = "active"
  BY DEF NodeUp, NodeReboots, UpStep, LookUp, DeliverUp, UpUnknown, UpRefresh, UpComps,
         ClearComponent
<1>3. \A c \in Comps : spc[c] # "absent" => c \in SessComps
  BY DEF RefreshInv, OwnedBySession
<1>4. ParamInv' /\ InlineInv'
  BY <1>1, <1>2, <1>3 DEF KeeInv, ParamInv, InlineInv
<1>5. \A m \in Nodes : db'[m] = "initializing" => db[m] = "initializing"
  <2>1. CASE NodeUp(n) \/ NodeReboots(n) \/ LookUp(n) \/ DeliverUp(n)
    BY <2>1 DEF NodeUp, NodeReboots, LookUp, DeliverUp, nodeVars
  <2>2. CASE UpUnknown(n)
    BY <2>2 DEF UpUnknown
  <2>3. CASE UpRefresh(n)
    <3>1. db' = db \/ \E m \in Nodes : db' = [db EXCEPT ![m] = "refreshing"]
      BY <2>3 DEF UpRefresh, UpComps, RefreshClears, RefreshReturns, RefreshSpawns
    <3>. QED
      BY <3>1
  <2>. QED
    BY <2>1, <2>2, <2>3 DEF UpStep
<1>6. \A c \in Comps : rpc'[<<c, "inline">>] = rpc[<<c, "inline">>]
  <2>1. rpc' = rpc \/ \E d \in Comps : rpc' = [rpc EXCEPT ![<<d, "thread">>] = "connect"]
    BY DEF NodeUp, NodeReboots, UpStep, LookUp, DeliverUp, UpUnknown, UpRefresh, UpComps,
           RefreshClears, RefreshReturns, RefreshSpawns
  <2>. QED
    BY <2>1, "inline" # "thread" DEF Callers
<1>. QED
  BY <1>1, <1>4, <1>5, <1>6 DEF KeeInv, BootInv, Held, KeebootBeforeConfig

\* As long as no two objects of a node are in do_initialize at a time, a keeboot node that
\* is still held for its session is configured only after it has booted the file system
\* the session asked for (do_initialize, do_refresh), for any number of nodes, reboots and
\* objects made by received_up_msg.
THEOREM KeebootBeforeConfigCorrect == Spec /\ []OneInitializer => []KeebootBeforeConfig
<1>1. TypeOK /\ RefreshInv /\ KeeInv /\ OneInitializer /\ [Next]_vars => KeeInv'
  <2>. SUFFICES ASSUME TypeOK, RefreshInv, KeeInv, OneInitializer, [Next]_vars PROVE KeeInv'
    OBVIOUS
  <2>1. CASE UNCHANGED vars
    BY <2>1 DEF vars, KeeInv, ParamInv, InlineInv, BootInv, Held, KeebootBeforeConfig
  <2>. QED
    BY <2>1, SessionBoots, InitBoots, RefreshBoots, UpBoots DEF Next
<1>2. KeeInv => KeebootBeforeConfig
  BY DEF KeeInv
<1>. QED
  BY <1>1, <1>2, KeeInit, ComponentTypeCorrect, RefreshInvariant, PTL DEF Spec
===============================================================================
