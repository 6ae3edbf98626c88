--------------------------- MODULE CrdSessionProofs ---------------------------
(***************************************************************************)
(* What CrdSession guarantees for any sets of sessions, users, requests    *)
(* and nodes and any schedule of reservations: types, that a request is    *)
(* answered once, that a session is removed only when cleared and, when no *)
(* two sessions are of one user, that a session keeps its reservation.     *)
(***************************************************************************)
EXTENDS CrdSession, TLAPS

-----------------------------------------------------------------------------
(* Types.                                                                  *)

\* The three threads that can be inside a session's methods.
LEMMA ThreadNames ==
  \A s \in Sessions : /\ <<"commit", s>> \in Threads
                      /\ <<"clear", s>> \in Threads
                      /\ <<"alerts", s>> \in Threads
  BY DEF Threads

\* The daemon's first state has the right types.
LEMMA InitTypeOK == Init => TypeOK
  BY SessionsAssumption, TimeAssumption
     DEF Init, TypeOK, Threads, CommitPcs, AlertsPcs

\* The steps the RLI causes keep the types.
LEMMA RliTypes ==
  ASSUME TypeOK, NEW s \in Sessions, RliStep(s)
  PROVE  TypeOK'
<1>. USE SessionsAssumption, TimeAssumption, ThreadNames
         DEF TypeOK, CommitPcs, AlertsPcs, commitFrame, clearFrame,
             alertsFrame, dbVars, sessVars, reqVars, callVars, commitVars
<1>1. CASE BeginCheck(s)
  BY <1>1 DEF BeginCheck
<1>2. CASE BeginReserved(s)
  BY <1>2 DEF BeginReserved
<1>3. CASE BeginAdd(s)
  BY <1>3 DEF BeginAdd
<1>4. CASE CommitLookUp(s)
  BY <1>4 DEF CommitLookUp, Goto
<1>5. CASE ClearRequest(s)
  BY <1>5 DEF ClearRequest, CallClear
<1>6. CASE RliDies(s)
  BY <1>6 DEF RliDies
<1>. QED
  BY <1>1, <1>2, <1>3, <1>4, <1>5, <1>6 DEF RliStep

\* The steps of session::commit keep the types.
LEMMA CommitTypes ==
  ASSUME TypeOK, NEW s \in Sessions, CommitStep(s)
  PROVE  TypeOK'
<1>. USE SessionsAssumption, TimeAssumption, ThreadNames
         DEF TypeOK, CommitPcs, AlertsPcs, commitFrame, clearFrame,
             alertsFrame, dbVars, sessVars, reqVars, callVars, commitVars
<1>1. CASE CommitRefused(s)
  BY <1>1 DEF CommitRefused, Goto
<1>2. CASE CommitReady(s)
  BY <1>2 DEF CommitReady, Goto, Polling
<1>3. CASE CommitTimeout(s)
  BY <1>3 DEF CommitTimeout, Goto, Polling
<1>4. CASE CommitSleep(s)
  <2>1. polls[s] + 1 \in 0 .. MaxPolls
    BY <1>4 DEF CommitSleep
  <2>2. polls' \in [Sessions -> 0 .. MaxPolls]
    BY <1>4, <2>1 DEF CommitSleep
  <2>3. pc' \in [Threads -> CommitPcs \cup AlertsPcs]
    BY <1>4 DEF CommitSleep, Goto
  <2>. QED
    BY <1>4, <2>2, <2>3 DEF CommitSleep
<1>5. CASE CommitAssign(s)
  <2>1. PICK bad \in SUBSET queue[s] :
          /\ queue' = [queue EXCEPT ![s] = (queue[s] \ bad)
                                             \ Clusters(queue[s] \ bad)]
          /\ answer' = [a \in Reqs |->
                          IF a \in bad THEN "failed"
                          ELSE IF a \in Clusters(queue[s] \ bad) THEN "fine"
                          ELSE answer[a]]
    BY <1>5 DEF CommitAssign
  <2>2. queue' \in [Sessions -> SUBSET Reqs]
    BY <2>1
  <2>3. answer' \in [Reqs -> {"none", "failed", "fine", "handed"}]
    BY <2>1
  <2>4. /\ res' \in [Users -> {"pending", "active", "used"}]
        /\ exp' \in [Sessions -> {"none", "open", "closed"}]
    BY <1>5 DEF CommitAssign, AssignResources
  <2>5. pc' \in [Threads -> CommitPcs \cup AlertsPcs]
    BY <1>5 DEF CommitAssign, Goto
  <2>. QED
    BY <1>5, <2>2, <2>3, <2>4, <2>5 DEF CommitAssign
<1>6. CASE CommitAssignFails(s)
  <2>1. PICK bad \in SUBSET queue[s] :
          /\ queue' = [queue EXCEPT ![s] = queue[s] \ bad]
          /\ answer' = [a \in Reqs |-> IF a \in bad THEN "failed" ELSE answer[a]]
    BY <1>6 DEF CommitAssignFails
  <2>2. queue' \in [Sessions -> SUBSET Reqs]
    BY <2>1
  <2>3. answer' \in [Reqs -> {"none", "failed", "fine", "handed"}]
    BY <2>1
  <2>4. /\ pc' \in [Threads -> CommitPcs \cup AlertsPcs]
        /\ req_lock' \in [Sessions -> Threads \cup {NoThread}]
    BY <1>6 DEF CommitAssignFails, Goto, Unlock
  <2>. QED
    BY <1>6, <2>2, <2>3, <2>4 DEF CommitAssignFails
<1>7. CASE CommitAdd(s)
  BY <1>7 DEF CommitAdd, NextComponent
<1>8. CASE CommitAdmin(s)
  BY <1>8 DEF CommitAdmin, NextComponent
<1>9. CASE CommitEvict(s)
  <2>1. PICK a \in Reqs :
          /\ NextComponent(s, a)
          /\ \E b \in Holders(a) : CallClear(<<"commit", s>>, SessOf[b])
          /\ adding' = [adding EXCEPT ![s] = a]
          /\ comp' = [comp EXCEPT ![a] = "made"]
          /\ Goto(s, "evict")
          /\ UNCHANGED answer
    BY <1>9 DEF CommitEvict
  <2>2. PICK b \in Reqs : CallClear(<<"commit", s>>, SessOf[b])
    BY <2>1 DEF Holders
  <2>5. SessOf[b] \in Sessions
    OBVIOUS
  <2>3. /\ target' \in [Threads -> Sessions]
        /\ cpc' \in [Threads -> {"no", "want", "return", "remove"}]
    BY <2>2, <2>5 DEF CallClear
  <2>4. /\ adding' \in [Sessions -> Reqs \cup {NoReq}]
        /\ comp' \in [Reqs -> {"none", "made", "active", "removed"}]
        /\ queue' \in [Sessions -> SUBSET Reqs]
        /\ pc' \in [Threads -> CommitPcs \cup AlertsPcs]
    BY <2>1 DEF NextComponent, Goto
  <2>. QED
    BY <2>1, <2>3, <2>4 DEF NextComponent
<1>10. CASE CommitEvicted(s)
  BY <1>10 DEF CommitEvicted, Goto
<1>11. CASE CommitLinks(s)
  <2>1. PICK users \in SUBSET Users : expired' = [expired EXCEPT ![s] = users]
    BY <1>11 DEF CommitLinks, ExpiredUsers
  <2>2. expired' \in [Sessions -> SUBSET Users]
    BY <2>1
  <2>3. answer' \in [Reqs -> {"none", "failed", "fine", "handed"}]
    BY <1>11 DEF CommitLinks
  <2>4. /\ queue' \in [Sessions -> SUBSET Reqs]
        /\ pc' \in [Threads -> CommitPcs \cup AlertsPcs]
    BY <1>11 DEF CommitLinks, Goto
  <2>. QED
    BY <1>11, <2>2, <2>3, <2>4 DEF CommitLinks
<1>12. CASE CommitExpire(s)
  <2>1. PICK t \in Sessions :
          /\ expired' = [expired EXCEPT ![s] = @ \ {UserOf[t]}]
          /\ CallClear(<<"commit", s>>, t)
    BY <1>12 DEF CommitExpire
  <2>2. expired' \in [Sessions -> SUBSET Users]
    BY <2>1
  <2>3. /\ target' \in [Threads -> Sessions]
        /\ cpc' \in [Threads -> {"no", "want", "return", "remove"}]
    BY <2>1 DEF CallClear
  <2>. QED
    BY <1>12, <2>2, <2>3 DEF CommitExpire
<1>13. CASE CommitExpireGone(s)
  BY <1>13 DEF CommitExpireGone
<1>14. CASE CommitFinish(s)
  BY <1>14 DEF CommitFinish, Goto, Unlock
<1>. QED
  BY <1>1, <1>2, <1>3, <1>4, <1>5, <1>6, <1>7, <1>8, <1>9, <1>10, <1>11, <1>12, <1>13, <1>14 DEF CommitStep

\* The steps of send_alerts keep the types.
LEMMA AlertsTypes ==
  ASSUME TypeOK, NEW s \in Sessions, AlertsStep(s)
  PROVE  TypeOK'
<1>. USE SessionsAssumption, TimeAssumption, ThreadNames
         DEF TypeOK, CommitPcs, AlertsPcs, commitFrame, clearFrame,
             alertsFrame, dbVars, sessVars, reqVars, callVars, commitVars
<1>1. CASE AlertsStart(s)
  BY <1>1 DEF AlertsStart, AlertsAt, AlertsGoto
<1>2. CASE AlertsTop(s)
  BY <1>2 DEF AlertsTop, AlertsAt, AlertsGoto
<1>3. CASE AlertsPing(s)
  BY <1>3 DEF AlertsPing, AlertsAt, AlertsGoto
<1>4. CASE AlertsCrash(s)
  BY <1>4 DEF AlertsCrash, AlertsAt
<1>5. CASE AlertsCheck(s)
  BY <1>5 DEF AlertsCheck, AlertsAt, AlertsGoto
<1>6. CASE AlertsNoAck(s)
  BY <1>6 DEF AlertsNoAck, AlertsAt, AlertsGoto, CallClear
<1>7. CASE AlertsRemove(s)
  BY <1>7 DEF AlertsRemove, AlertsAt, AlertsGoto
<1>. QED
  BY <1>1, <1>2, <1>3, <1>4, <1>5, <1>6, <1>7 DEF AlertsStep

\* The add handlers keep the types.
LEMMA AddTypes ==
  ASSUME TypeOK, NEW a \in Reqs, AddStep(a)
  PROVE  TypeOK'
<1>. USE SessionsAssumption, TimeAssumption, ThreadNames
         DEF TypeOK, CommitPcs, AlertsPcs, commitFrame, clearFrame,
             alertsFrame, dbVars, sessVars, reqVars, callVars, commitVars
<1>1. CASE AddFound(a)
  BY <1>1 DEF AddFound
<1>2. CASE AddNoSession(a)
  BY <1>2 DEF AddNoSession
<1>3. CASE AddQueue(a)
  BY <1>3 DEF AddQueue
<1>. QED
  BY <1>1, <1>2, <1>3 DEF AddStep

\* The steps of session::clear keep the types.
LEMMA ClearTypes ==
  ASSUME TypeOK, NEW t \in Threads, ClearStep(t)
  PROVE  TypeOK'
<1>. USE SessionsAssumption, TimeAssumption, ThreadNames
         DEF TypeOK, CommitPcs, AlertsPcs, commitFrame, clearFrame,
             alertsFrame, dbVars, sessVars, reqVars, callVars, commitVars
<1>1. CASE ClearAgain(t)
  BY <1>1 DEF ClearAgain
<1>2. CASE ClearEnter(t)
  BY <1>2 DEF ClearEnter
<1>3. CASE ClearReturn(t)
  BY <1>3 DEF ClearReturn, ReturnResources, OpenExps
<1>4. CASE ClearReturnFails(t)
  BY <1>4 DEF ClearReturnFails
<1>5. CASE ClearRemove(t)
  BY <1>5 DEF ClearRemove
<1>. QED
  BY <1>1, <1>2, <1>3, <1>4, <1>5 DEF ClearStep

\* Type correctness, for every instance.
THEOREM SessionTypeCorrect == Spec => []TypeOK
<1>1. TypeOK /\ [Next]_vars => TypeOK'
  <2>. SUFFICES ASSUME TypeOK, [Next]_vars PROVE TypeOK'
    OBVIOUS
  <2>1. CASE Tick
    BY <2>1, TimeAssumption DEF Tick, TypeOK, sessVars, reqVars, commitVars,
                                callVars
  <2>2. CASE \E s \in Sessions : RliStep(s) \/ CommitStep(s) \/ AlertsStep(s)
    BY <2>2, RliTypes, CommitTypes, AlertsTypes
  <2>3. CASE \E a \in Reqs : AddStep(a)
    BY <2>3, AddTypes
  <2>4. CASE \E t \in Threads : ClearStep(t)
    BY <2>4, ClearTypes
  <2>5. CASE UNCHANGED vars
    BY <2>5 DEF vars, TypeOK
  <2>. QED
    BY <2>1, <2>2, <2>3, <2>4, <2>5 DEF Next
<1>. QED
  BY <1>1, InitTypeOK, PTL DEF Spec

-----------------------------------------------------------------------------
(* Clearing.                                                               *)

\* Past the test of session::clear the session is marked cleared.
ClearingMeansCleared ==
  \A t \in Threads : cpc[t] \in {"return", "remove"} => cleared[target[t]]

\* send_alerts leaves its loop when the session is cleared, or to clear it.
ExitMeansCleared ==
  \A s \in Sessions : pc[<<"alerts", s>>] = "exit" =>
    \/ cleared[s]
    \/ cpc[<<"alerts", s>>] = "want" /\ target[<<"alerts", s>>] = s

ClearInv == ClearingMeansCleared /\ ExitMeansCleared

\* The steps the RLI causes keep ClearInv.
LEMMA RliKeepsClearInv ==
  ASSUME TypeOK, ClearInv, NEW s \in Sessions, RliStep(s)
  PROVE  ClearInv'
<1>. USE SessionsAssumption, ThreadNames
         DEF TypeOK, ClearInv, ClearingMeansCleared, ExitMeansCleared,
             commitFrame, clearFrame,
             alertsFrame, dbVars, sessVars, reqVars, callVars, commitVars
<1>1. CASE BeginCheck(s)
  BY <1>1 DEF BeginCheck
<1>2. CASE BeginReserved(s)
  BY <1>2 DEF BeginReserved
<1>3. CASE BeginAdd(s)
  BY <1>3 DEF BeginAdd
<1>4. CASE CommitLookUp(s)
  BY <1>4 DEF CommitLookUp, Goto
<1>5. CASE ClearRequest(s)
  BY <1>5 DEF ClearRequest, CallClear
<1>6. CASE RliDies(s)
  BY <1>6 DEF RliDies
<1>. QED
  BY <1>1, <1>2, <1>3, <1>4, <1>5, <1>6 DEF RliStep

\* The steps of session::commit keep ClearInv.
LEMMA CommitKeepsClearInv ==
  ASSUME TypeOK, ClearInv, NEW s \in Sessions, CommitStep(s)
  PROVE  ClearInv'
<1>. USE SessionsAssumption, ThreadNames
         DEF TypeOK, ClearInv, ClearingMeansCleared, ExitMeansCleared,
             commitFrame, clearFrame,
             alertsFrame, dbVars, sessVars, reqVars, callVars, commitVars
<1>1. CASE CommitRefused(s)
  BY <1>1 DEF CommitRefused, Goto
<1>2. CASE CommitReady(s)
  BY <1>2 DEF CommitReady, Goto, Polling
<1>3. CASE CommitTimeout(s)
  BY <1>3 DEF CommitTimeout, Goto, Polling
<1>4. CASE CommitSleep(s)
  BY <1>4 DEF CommitSleep, Goto, Polling
<1>5. CASE CommitAssign(s)
  BY <1>5 DEF CommitAssign, Goto, Clusters
<1>6. CASE CommitAssignFails(s)
  BY <1>6 DEF CommitAssignFails, Goto, Unlock
<1>7. CASE CommitAdd(s)
  BY <1>7 DEF CommitAdd, NextComponent
<1>8. CASE CommitAdmin(s)
  BY <1>8 DEF CommitAdmin, NextComponent
<1>9. CASE CommitEvict(s)
  BY <1>9 DEF CommitEvict, NextComponent, Goto, CallClear, Holders
<1>10. CASE CommitEvicted(s)
  BY <1>10 DEF CommitEvicted, Goto
<1>11. CASE CommitLinks(s)
  BY <1>11 DEF CommitLinks, Goto, ExpiredUsers
<1>12. CASE CommitExpire(s)
  BY <1>12 DEF CommitExpire, CallClear
<1>13. CASE CommitExpireGone(s)
  BY <1>13 DEF CommitExpireGone
<1>14. CASE CommitFinish(s)
  BY <1>14 DEF CommitFinish, Goto, Unlock
<1>. QED
  BY <1>1, <1>2, <1>3, <1>4, <1>5, <1>6, <1>7, <1>8, <1>9, <1>10, <1>11, <1>12, <1>13, <1>14 DEF CommitStep

\* The steps of send_alerts keep ClearInv.
LEMMA AlertsKeepsClearInv ==
  ASSUME TypeOK, ClearInv, NEW s \in Sessions, AlertsStep(s)
  PROVE  ClearInv'
<1>. USE SessionsAssumption, ThreadNames
         DEF TypeOK, ClearInv, ClearingMeansCleared, ExitMeansCleared,
             commitFrame, clearFrame,
             alertsFrame, dbVars, sessVars, reqVars, callVars, commitVars
<1>1. CASE AlertsStart(s)
  BY <1>1 DEF AlertsStart, AlertsAt, AlertsGoto
<1>2. CASE AlertsTop(s)
  BY <1>2 DEF AlertsTop, AlertsAt, AlertsGoto
<1>3. CASE AlertsPing(s)
  BY <1>3 DEF AlertsPing, AlertsAt, AlertsGoto
<1>4. CASE AlertsCrash(s)
  BY <1>4 DEF AlertsCrash, AlertsAt
<1>5. CASE AlertsCheck(s)
  BY <1>5 DEF AlertsCheck, AlertsAt, AlertsGoto
<1>6. CASE AlertsNoAck(s)
  BY <1>6 DEF AlertsNoAck, AlertsAt, AlertsGoto, CallClear
<1>7. CASE AlertsRemove(s)
  BY <1>7 DEF AlertsRemove, AlertsAt, AlertsGoto
<1>. QED
  BY <1>1, <1>2, <1>3, <1>4, <1>5, <1>6, <1>7 DEF AlertsStep

\* The add handlers keep ClearInv.
LEMMA AddKeepsClearInv ==
  ASSUME TypeOK, ClearInv, NEW a \in Reqs, AddStep(a)
  PROVE  ClearInv'
<1>. USE SessionsAssumption, ThreadNames
         DEF TypeOK, ClearInv, ClearingMeansCleared, ExitMeansCleared,
             commitFrame, clearFrame,
             alertsFrame, dbVars, sessVars, reqVars, callVars, commitVars
<1>1. CASE AddFound(a)
  BY <1>1 DEF AddFound
<1>2. CASE AddNoSession(a)
  BY <1>2 DEF AddNoSession
<1>3. CASE AddQueue(a)
  BY <1>3 DEF AddQueue
<1>. QED
  BY <1>1, <1>2, <1>3 DEF AddStep

\* The steps of session::clear keep ClearInv.
LEMMA ClearKeepsClearInv ==
  ASSUME TypeOK, ClearInv, NEW t \in Threads, ClearStep(t)
  PROVE  ClearInv'
<1>. USE SessionsAssumption, ThreadNames
<1>1. ASSUME NEW s \in Sessions, pc'[<<"alerts", s>>] = "exit"
      PROVE  \/ cleared'[s]
             \/ cpc'[<<"alerts", s>>] = "want" /\ target'[<<"alerts", s>>] = s
  <2>. /\ target[t] \in Sessions
       /\ cleared \in [Sessions -> BOOLEAN]
       /\ cpc \in [Threads -> {"no", "want", "return", "remove"}]
    BY DEF TypeOK
  <2>1. /\ pc' = pc /\ target' = target
        /\ cleared[s] => cleared'[s]
        /\ <<"alerts", s>> # t => cpc'[<<"alerts", s>>] = cpc[<<"alerts", s>>]
    <3>1. CASE ClearAgain(t)
      BY <3>1 DEF ClearAgain, clearFrame
    <3>2. CASE ClearEnter(t)
      BY <3>2 DEF ClearEnter, clearFrame
    <3>3. CASE ClearReturn(t)
      BY <3>3 DEF ClearReturn, clearFrame, sessVars
    <3>4. CASE ClearReturnFails(t)
      BY <3>4 DEF ClearReturnFails, clearFrame, sessVars
    <3>5. CASE ClearRemove(t)
      BY <3>5 DEF ClearRemove, clearFrame
    <3>. QED
      BY <3>1, <3>2, <3>3, <3>4, <3>5 DEF ClearStep
  <2>2. CASE cleared[s]
    BY <2>1, <2>2
  <2>3. CASE ~cleared[s]
    <3>1. cpc[<<"alerts", s>>] = "want" /\ target[<<"alerts", s>>] = s
      BY <1>1, <2>1, <2>3 DEF ClearInv, ExitMeansCleared
    <3>2. CASE t = <<"alerts", s>>
      <4>1. target[t] = s
        BY <3>1, <3>2
      <4>2. ClearEnter(t)
        BY <2>3, <3>1, <3>2, <4>1 DEF ClearStep, ClearAgain, ClearReturn,
               ClearReturnFails, ClearRemove
      <4>. QED
        BY <4>1, <4>2 DEF ClearEnter, TypeOK
    <3>3. CASE <<"alerts", s>> # t
      BY <2>1, <3>1, <3>3
    <3>. QED
      BY <3>2, <3>3
  <2>. QED
    BY <2>2, <2>3
<1>2. CASE ClearAgain(t)
  <2>1. ClearingMeansCleared'
    BY <1>2 DEF ClearAgain, clearFrame, sessVars, TypeOK, ClearInv,
             ClearingMeansCleared
  <2>. QED
    BY <1>1, <2>1 DEF ClearInv, ExitMeansCleared
<1>3. CASE ClearEnter(t)
  <2>1. ClearingMeansCleared'
    BY <1>3 DEF ClearEnter, clearFrame, sessVars, TypeOK, ClearInv,
             ClearingMeansCleared
  <2>. QED
    BY <1>1, <2>1 DEF ClearInv, ExitMeansCleared
<1>4. CASE ClearReturn(t)
  <2>1. ClearingMeansCleared'
    BY <1>4 DEF ClearReturn, ReturnResources, OpenExps, clearFrame, sessVars, TypeOK, ClearInv,
             ClearingMeansCleared
  <2>. QED
    BY <1>1, <2>1 DEF ClearInv, ExitMeansCleared
<1>5. CASE ClearReturnFails(t)
  <2>1. ClearingMeansCleared'
    BY <1>5 DEF ClearReturnFails, clearFrame, sessVars, TypeOK, ClearInv,
             ClearingMeansCleared
  <2>. QED
    BY <1>1, <2>1 DEF ClearInv, ExitMeansCleared
<1>6. CASE ClearRemove(t)
  <2>1. ClearingMeansCleared'
    BY <1>6 DEF ClearRemove, clearFrame, sessVars, TypeOK, ClearInv,
             ClearingMeansCleared
  <2>. QED
    BY <1>1, <2>1 DEF ClearInv, ExitMeansCleared
<1>. QED
  BY <1>2, <1>3, <1>4, <1>5, <1>6 DEF ClearStep

\* The invariant holds in every reachable state.
LEMMA ClearInvariant == Spec => []ClearInv
<1>1. Init => ClearInv
  BY ThreadNames DEF Init, ClearInv, ClearingMeansCleared, ExitMeansCleared
<1>2. TypeOK /\ ClearInv /\ [Next]_vars => ClearInv'
  <2>. SUFFICES ASSUME TypeOK, ClearInv, [Next]_vars PROVE ClearInv'
    OBVIOUS
  <2>1. CASE Tick
    BY <2>1 DEF Tick, ClearInv, ClearingMeansCleared, ExitMeansCleared, sessVars, reqVars, commitVars, callVars
  <2>2. CASE \E s \in Sessions : RliStep(s) \/ CommitStep(s) \/ AlertsStep(s)
    BY <2>2, RliKeepsClearInv, CommitKeepsClearInv, AlertsKeepsClearInv
  <2>3. CASE \E a \in Reqs : AddStep(a)
    BY <2>3, AddKeepsClearInv
  <2>4. CASE \E t \in Threads : ClearStep(t)
    BY <2>4, ClearKeepsClearInv
  <2>5. CASE UNCHANGED vars
    BY <2>5 DEF vars, ClearInv, ClearingMeansCleared, ExitMeansCleared
  <2>. QED
    BY <2>1, <2>2, <2>3, <2>4, <2>5 DEF Next
<1>. QED
  BY <1>1, <1>2, SessionTypeCorrect, PTL DEF Spec

-----------------------------------------------------------------------------
(* Answers.                                                                *)

\* A queued request is its session's, has been handled and is unanswered.
QueuedUnanswered ==
  \A s \in Sessions : \A a \in queue[s] :
    SessOf[a] = s /\ apc[a] = "done" /\ answer[a] = "none"

\* Nothing answers a request whose handler has not finished.
UnhandledUnanswered == \A a \in Reqs : apc[a] # "done" => answer[a] = "none"

\* The component that commit is adding is no longer queued and unanswered.
AddingUnanswered ==
  \A s \in Sessions : pc[<<"commit", s>>] = "evict" =>
    /\ adding[s] \in Reqs /\ SessOf[adding[s]] = s
    /\ apc[adding[s]] = "done" /\ answer[adding[s]] = "none"
    /\ adding[s] \notin queue[s]

AnswerInv == QueuedUnanswered /\ UnhandledUnanswered /\ AddingUnanswered

\* The steps the RLI causes keep AnswerInv.
LEMMA RliKeepsAnswerInv ==
  ASSUME TypeOK, AnswerInv, NEW s \in Sessions, RliStep(s)
  PROVE  AnswerInv'
<1>. USE SessionsAssumption, ThreadNames
         DEF TypeOK, AnswerInv, QueuedUnanswered, UnhandledUnanswered,
             AddingUnanswered, commitFrame, clearFrame,
             alertsFrame, dbVars, sessVars, reqVars, callVars, commitVars
<1>1. CASE BeginCheck(s)
  BY <1>1 DEF BeginCheck
<1>2. CASE BeginReserved(s)
  BY <1>2 DEF BeginReserved
<1>3. CASE BeginAdd(s)
  BY <1>3 DEF BeginAdd
<1>4. CASE CommitLookUp(s)
  BY <1>4 DEF CommitLookUp, Goto
<1>5. CASE ClearRequest(s)
  BY <1>5 DEF ClearRequest, CallClear
<1>6. CASE RliDies(s)
  BY <1>6 DEF RliDies
<1>. QED
  BY <1>1, <1>2, <1>3, <1>4, <1>5, <1>6 DEF RliStep

\* The steps of session::commit keep AnswerInv.
LEMMA CommitKeepsAnswerInv ==
  ASSUME TypeOK, AnswerInv, NEW s \in Sessions, CommitStep(s)
  PROVE  AnswerInv'
<1>. USE SessionsAssumption, ThreadNames
         DEF TypeOK, AnswerInv, QueuedUnanswered, UnhandledUnanswered,
             AddingUnanswered, commitFrame, clearFrame,
             alertsFrame, dbVars, sessVars, reqVars, callVars, commitVars
<1>1. CASE CommitRefused(s)
  BY <1>1 DEF CommitRefused, Goto
<1>2. CASE CommitReady(s)
  BY <1>2 DEF CommitReady, Goto, Polling
<1>3. CASE CommitTimeout(s)
  BY <1>3 DEF CommitTimeout, Goto, Polling
<1>4. CASE CommitSleep(s)
  BY <1>4 DEF CommitSleep, Goto, Polling
<1>5. CASE CommitAssign(s)
  BY <1>5 DEF CommitAssign, Goto, Clusters
<1>6. CASE CommitAssignFails(s)
  BY <1>6 DEF CommitAssignFails, Goto, Unlock
<1>7. CASE CommitAdd(s)
  BY <1>7 DEF CommitAdd, NextComponent
<1>8. CASE CommitAdmin(s)
  BY <1>8 DEF CommitAdmin, NextComponent
<1>9. CASE CommitEvict(s)
  BY <1>9 DEF CommitEvict, NextComponent, Goto, CallClear, Holders
<1>10. CASE CommitEvicted(s)
  <2>1. adding[s] \in Reqs /\ SessOf[adding[s]] = s
    BY <1>10 DEF CommitEvicted
  <2>2. /\ answer' = [answer EXCEPT ![adding[s]] = "handed"]
        /\ UNCHANGED <<queue, apc>>
    BY <1>10 DEF CommitEvicted
  <2>3. adding[s] \notin queue[s] /\ apc[adding[s]] = "done"
    BY <1>10 DEF CommitEvicted
  <2>4. \A r \in Sessions : adding[s] \notin queue[r]
    BY <2>1, <2>3
  <2>5. QueuedUnanswered'
    BY <2>1, <2>2, <2>4
  <2>6. UnhandledUnanswered'
    BY <2>1, <2>2, <2>3
  <2>7. AddingUnanswered'
    <3>. SUFFICES ASSUME NEW r \in Sessions, pc'[<<"commit", r>>] = "evict"
                  PROVE  /\ adding'[r] \in Reqs /\ SessOf[adding'[r]] = r
                         /\ apc'[adding'[r]] = "done"
                         /\ answer'[adding'[r]] = "none"
                         /\ adding'[r] \notin queue'[r]
      OBVIOUS
    <3>1. r # s /\ pc[<<"commit", r>>] = "evict"
      BY <1>10 DEF CommitEvicted, Goto
    <3>2. adding'[r] = adding[r] /\ adding[r] # adding[s]
      BY <1>10, <2>1, <3>1 DEF CommitEvicted
    <3>. QED
      BY <2>1, <2>2, <3>1, <3>2
  <2>. QED
    BY <2>5, <2>6, <2>7
<1>11. CASE CommitLinks(s)
  BY <1>11 DEF CommitLinks, Goto, ExpiredUsers
<1>12. CASE CommitExpire(s)
  BY <1>12 DEF CommitExpire, CallClear
<1>13. CASE CommitExpireGone(s)
  BY <1>13 DEF CommitExpireGone
<1>14. CASE CommitFinish(s)
  BY <1>14 DEF CommitFinish, Goto, Unlock
<1>. QED
  BY <1>1, <1>2, <1>3, <1>4, <1>5, <1>6, <1>7, <1>8, <1>9, <1>10, <1>11, <1>12, <1>13, <1>14 DEF CommitStep

\* The steps of send_alerts keep AnswerInv.
LEMMA AlertsKeepsAnswerInv ==
  ASSUME TypeOK, AnswerInv, NEW s \in Sessions, AlertsStep(s)
  PROVE  AnswerInv'
<1>. USE SessionsAssumption, ThreadNames
         DEF TypeOK, AnswerInv, QueuedUnanswered, UnhandledUnanswered,
             AddingUnanswered, commitFrame, clearFrame,
             alertsFrame, dbVars, sessVars, reqVars, callVars, commitVars
<1>1. CASE AlertsStart(s)
  BY <1>1 DEF AlertsStart, AlertsAt, AlertsGoto
<1>2. CASE AlertsTop(s)
  BY <1>2 DEF AlertsTop, AlertsAt, AlertsGoto
<1>3. CASE AlertsPing(s)
  BY <1>3 DEF AlertsPing, AlertsAt, AlertsGoto
<1>4. CASE AlertsCrash(s)
  BY <1>4 DEF AlertsCrash, AlertsAt
<1>5. CASE AlertsCheck(s)
  BY <1>5 DEF AlertsCheck, AlertsAt, AlertsGoto
<1>6. CASE AlertsNoAck(s)
  BY <1>6 DEF AlertsNoAck, AlertsAt, AlertsGoto, CallClear
<1>7. CASE AlertsRemove(s)
  BY <1>7 DEF AlertsRemove, AlertsAt, AlertsGoto
<1>. QED
  BY <1>1, <1>2, <1>3, <1>4, <1>5, <1>6, <1>7 DEF AlertsStep

\* The add handlers keep AnswerInv.
LEMMA AddKeepsAnswerInv ==
  ASSUME TypeOK, AnswerInv, NEW a \in Reqs, AddStep(a)
  PROVE  AnswerInv'
<1>. USE SessionsAssumption, ThreadNames
         DEF TypeOK, AnswerInv, QueuedUnanswered, UnhandledUnanswered,
             AddingUnanswered, commitFrame, clearFrame,
             alertsFrame, dbVars, sessVars, reqVars, callVars, commitVars
<1>1. CASE AddFound(a)
  BY <1>1 DEF AddFound
<1>2. CASE AddNoSession(a)
  BY <1>2 DEF AddNoSession
<1>3. CASE AddQueue(a)
  BY <1>3 DEF AddQueue
<1>. QED
  BY <1>1, <1>2, <1>3 DEF AddStep

\* The steps of session::clear keep AnswerInv.
LEMMA ClearKeepsAnswerInv ==
  ASSUME TypeOK, AnswerInv, NEW t \in Threads, ClearStep(t)
  PROVE  AnswerInv'
<1>. USE SessionsAssumption, ThreadNames
         DEF TypeOK, AnswerInv, QueuedUnanswered, UnhandledUnanswered,
             AddingUnanswered, commitFrame, clearFrame,
             alertsFrame, dbVars, sessVars, reqVars, callVars, commitVars
<1>1. CASE ClearAgain(t)
  BY <1>1 DEF ClearAgain
<1>2. CASE ClearEnter(t)
  BY <1>2 DEF ClearEnter
<1>3. CASE ClearReturn(t)
  BY <1>3 DEF ClearReturn, ReturnResources, OpenExps
<1>4. CASE ClearReturnFails(t)
  BY <1>4 DEF ClearReturnFails
<1>5. CASE ClearRemove(t)
  BY <1>5 DEF ClearRemove
<1>. QED
  BY <1>1, <1>2, <1>3, <1>4, <1>5 DEF ClearStep

\* The invariant holds in every reachable state.
LEMMA AnswerInvariant == Spec => []AnswerInv
<1>1. Init => AnswerInv
  BY ThreadNames DEF Init, AnswerInv, QueuedUnanswered, UnhandledUnanswered,
                     AddingUnanswered
<1>2. TypeOK /\ AnswerInv /\ [Next]_vars => AnswerInv'
  <2>. SUFFICES ASSUME TypeOK, AnswerInv, [Next]_vars PROVE AnswerInv'
    OBVIOUS
  <2>1. CASE Tick
    BY <2>1 DEF Tick, AnswerInv, QueuedUnanswered, UnhandledUnanswered,
                AddingUnanswered, sessVars, reqVars, commitVars, callVars
  <2>2. CASE \E s \in Sessions : RliStep(s) \/ CommitStep(s) \/ AlertsStep(s)
    BY <2>2, RliKeepsAnswerInv, CommitKeepsAnswerInv, AlertsKeepsAnswerInv
  <2>3. CASE \E a \in Reqs : AddStep(a)
    BY <2>3, AddKeepsAnswerInv
  <2>4. CASE \E t \in Threads : ClearStep(t)
    BY <2>4, ClearKeepsAnswerInv
  <2>5. CASE UNCHANGED vars
    BY <2>5 DEF vars, AnswerInv, QueuedUnanswered, UnhandledUnanswered,
                AddingUnanswered
  <2>. QED
    BY <2>1, <2>2, <2>3, <2>4, <2>5 DEF Next
<1>. QED
  BY <1>1, <1>2, SessionTypeCorrect, PTL DEF Spec

-----------------------------------------------------------------------------
(* The theorems.                                                           *)

\* A request is answered at most once, by commit, by clear or by its handler.
THEOREM AnsweredOnceCorrect == Spec => AnsweredOnce
<1>. DEFINE Kept == \A a \in Reqs : answer[a] # "none" => answer'[a] = answer[a]
<1>1. TypeOK /\ AnswerInv /\ [Next]_vars => [Kept]_vars
  <2>. SUFFICES ASSUME TypeOK, AnswerInv, Next,
                       NEW b \in Reqs, answer[b] # "none"
                PROVE  answer'[b] = answer[b]
    BY DEF Kept
  <2>1. /\ \A s \in Sessions : b \notin queue[s]
        /\ apc[b] = "done"
        /\ \A s \in Sessions : pc[<<"commit", s>>] = "evict" => adding[s] # b
    BY DEF AnswerInv, QueuedUnanswered, UnhandledUnanswered, AddingUnanswered
  <2>2. CASE Tick
    BY <2>2 DEF Tick, reqVars
  <2>3. ASSUME NEW s \in Sessions, RliStep(s) PROVE answer'[b] = answer[b]
    BY <2>3 DEF RliStep, BeginCheck, BeginReserved, BeginAdd, CommitLookUp,
                ClearRequest, RliDies, reqVars
  <2>4. ASSUME NEW s \in Sessions, CommitStep(s) PROVE answer'[b] = answer[b]
    <3>1. CASE CommitAssign(s)
      BY <2>1, <3>1 DEF CommitAssign, Clusters
    <3>2. CASE CommitAssignFails(s)
      BY <2>1, <3>2 DEF CommitAssignFails
    <3>3. CASE CommitAdd(s) \/ CommitAdmin(s) \/ CommitEvict(s)
      BY <2>1, <3>3 DEF CommitAdd, CommitAdmin, CommitEvict, NextComponent,
                        TypeOK
    <3>4. CASE CommitEvicted(s)
      BY <2>1, <3>4 DEF CommitEvicted, TypeOK
    <3>5. CASE CommitLinks(s)
      BY <2>1, <3>5 DEF CommitLinks
    <3>6. CASE \/ CommitRefused(s) \/ CommitReady(s) \/ CommitTimeout(s)
               \/ CommitSleep(s) \/ CommitExpire(s) \/ CommitExpireGone(s)
               \/ CommitFinish(s)
      BY <3>6 DEF CommitRefused, CommitReady, CommitTimeout, CommitSleep,
                  CommitExpire, CommitExpireGone, CommitFinish, reqVars
    <3>. QED
      BY <2>4, <3>1, <3>2, <3>3, <3>4, <3>5, <3>6 DEF CommitStep
  <2>5. ASSUME NEW s \in Sessions, AlertsStep(s) PROVE answer'[b] = answer[b]
    BY <2>5 DEF AlertsStep, AlertsStart, AlertsTop, AlertsPing, AlertsCrash,
                AlertsCheck, AlertsNoAck, AlertsRemove, alertsFrame, reqVars
  <2>6. ASSUME NEW a \in Reqs, AddStep(a) PROVE answer'[b] = answer[b]
    BY <2>1, <2>6 DEF AddStep, AddFound, AddNoSession, AddQueue, reqVars, TypeOK
  <2>7. ASSUME NEW t \in Threads, ClearStep(t) PROVE answer'[b] = answer[b]
    <3>1. target[t] \in Sessions
      BY DEF TypeOK
    <3>2. CASE ClearEnter(t)
      BY <2>1, <3>1, <3>2 DEF ClearEnter
    <3>3. CASE ClearAgain(t) \/ ClearReturn(t) \/ ClearReturnFails(t)
                 \/ ClearRemove(t)
      BY <3>3 DEF ClearAgain, ClearReturn, ClearReturnFails, ClearRemove, reqVars
    <3>. QED
      BY <2>7, <3>2, <3>3 DEF ClearStep
  <2>. QED
    BY <2>2, <2>3, <2>4, <2>5, <2>6, <2>7 DEF Next
<1>. QED
  BY <1>1, SessionTypeCorrect, AnswerInvariant, PTL DEF Spec, AnsweredOnce

\* A session leaves active_sessions only when it has been cleared.
THEOREM RemovedWhenClearedCorrect == Spec => RemovedWhenCleared
<1>. DEFINE Kept == \A s \in Sessions : s \in listed /\ s \notin listed' => cleared[s]
<1>1. TypeOK /\ ClearInv /\ [Next]_vars => [Kept]_vars
  <2>. SUFFICES ASSUME TypeOK, ClearInv, Next,
                       NEW r \in Sessions, r \in listed, r \notin listed'
                PROVE  cleared[r]
    BY DEF Kept
  <2>1. ASSUME NEW s \in Sessions, AlertsStep(s) PROVE cleared[r]
    <3>1. AlertsRemove(s) /\ s = r
      BY <2>1 DEF AlertsStep, AlertsStart, AlertsTop, AlertsPing, AlertsCrash,
                  AlertsCheck, AlertsNoAck, AlertsRemove
    <3>. QED
      BY <3>1 DEF AlertsRemove, AlertsAt, ClearInv, ExitMeansCleared
  <2>2. CASE Tick
    BY <2>2 DEF Tick, sessVars
  <2>3. ASSUME NEW s \in Sessions, RliStep(s) PROVE FALSE
    BY <2>3 DEF RliStep, BeginCheck, BeginReserved, BeginAdd, CommitLookUp,
                ClearRequest, RliDies, sessVars, commitFrame
  <2>4. ASSUME NEW s \in Sessions, CommitStep(s) PROVE FALSE
    BY <2>4 DEF CommitStep, CommitRefused, CommitReady, CommitTimeout,
                CommitSleep, CommitAssign, CommitAssignFails, CommitAdd,
                CommitAdmin, CommitEvict, NextComponent, CommitEvicted,
                CommitLinks, CommitExpire, CommitExpireGone, CommitFinish,
                commitFrame, sessVars
  <2>5. ASSUME NEW a \in Reqs, AddStep(a) PROVE FALSE
    BY <2>5 DEF AddStep, AddFound, AddNoSession, AddQueue, sessVars
  <2>6. ASSUME NEW t \in Threads, ClearStep(t) PROVE FALSE
    BY <2>6 DEF ClearStep, ClearAgain, ClearEnter, ClearReturn,
                ClearReturnFails, ClearRemove, clearFrame
  <2>. QED
    BY <2>1, <2>2, <2>3, <2>4, <2>5, <2>6 DEF Next
<1>. QED
  BY <1>1, SessionTypeCorrect, ClearInvariant, PTL DEF Spec, RemovedWhenCleared

\* No user has two sessions.  begin_session_req::handle means to see to this,
\* but its check and add_session are two critical sections, and has_session
\* does not count a session whose clear is under way.
OneSessionEach == \A s, t \in Sessions : UserOf[s] = UserOf[t] => s = t

\* The steps of session::commit keep the reservations of the sessions.
LEMMA CommitKeepsReservation ==
  ASSUME TypeOK, KeepsReservation, OneSessionEach,
         NEW s \in Sessions, CommitStep(s)
  PROVE  KeepsReservation'
<1>. USE SessionsAssumption, ThreadNames DEF TypeOK, KeepsReservation,
         commitFrame, sessVars
<1>1. CASE CommitAssign(s)
  BY <1>1 DEF CommitAssign, AssignResources, Goto, OneSessionEach
<1>2. CASE CommitRefused(s)
  BY <1>2 DEF CommitRefused, Goto
<1>3. CASE CommitReady(s)
  BY <1>3 DEF CommitReady, Goto, Polling
<1>4. CASE CommitTimeout(s)
  BY <1>4 DEF CommitTimeout, Goto, Polling
<1>5. CASE CommitSleep(s)
  BY <1>5 DEF CommitSleep, Goto, Polling
<1>6. CASE CommitAssignFails(s)
  BY <1>6 DEF CommitAssignFails, Goto, Unlock
<1>7. CASE CommitAdd(s)
  BY <1>7 DEF CommitAdd, NextComponent
<1>8. CASE CommitAdmin(s)
  BY <1>8 DEF CommitAdmin, NextComponent
<1>9. CASE CommitEvict(s)
  BY <1>9 DEF CommitEvict, NextComponent, Goto, CallClear, Holders
<1>10. CASE CommitEvicted(s)
  BY <1>10 DEF CommitEvicted, Goto
<1>11. CASE CommitLinks(s)
  BY <1>11 DEF CommitLinks, Goto, ExpiredUsers
<1>12. CASE CommitExpire(s)
  BY <1>12 DEF CommitExpire, CallClear
<1>13. CASE CommitExpireGone(s)
  BY <1>13 DEF CommitExpireGone
<1>14. CASE CommitFinish(s)
  BY <1>14 DEF CommitFinish, Goto, Unlock
<1>. QED
  BY <1>1, <1>2, <1>3, <1>4, <1>5, <1>6, <1>7, <1>8, <1>9, <1>10, <1>11, <1>12, <1>13, <1>14 DEF CommitStep

\* So do the steps of session::clear: return_resources only ends the experiment
\* of the user whose session is cleared.
LEMMA ClearKeepsReservation ==
  ASSUME TypeOK, ClearInv, KeepsReservation, OneSessionEach,
         NEW t \in Threads, ClearStep(t)
  PROVE  KeepsReservation'
<1>. USE SessionsAssumption, ThreadNames DEF TypeOK, KeepsReservation,
         clearFrame, sessVars
<1>1. CASE ClearAgain(t)
  BY <1>1 DEF ClearAgain
<1>2. CASE ClearEnter(t)
  BY <1>2 DEF ClearEnter
<1>3. CASE ClearReturn(t)
  <2>1. cleared[target[t]] /\ target[t] \in Sessions
    BY <1>3 DEF ClearReturn, ClearInv, ClearingMeansCleared
  <2>2. PICK s \in Sessions : /\ UserOf[s] = UserOf[target[t]]
                              /\ exp' = [exp EXCEPT ![s] = "closed"]
    BY <1>3 DEF ClearReturn, ReturnResources, OpenExps
  <2>3. s = target[t]
    BY <2>1, <2>2 DEF OneSessionEach
  <2>4. /\ res' = [res EXCEPT ![UserOf[target[t]]] = "used"]
        /\ UNCHANGED <<pc, cleared>>
    BY <1>3 DEF ClearReturn, ReturnResources
  <2>. QED
    BY <2>1, <2>2, <2>3, <2>4 DEF OneSessionEach
<1>4. CASE ClearReturnFails(t)
  BY <1>4 DEF ClearReturnFails
<1>5. CASE ClearRemove(t)
  BY <1>5 DEF ClearRemove
<1>. QED
  BY <1>1, <1>2, <1>3, <1>4, <1>5 DEF ClearStep

\* Where no user has two sessions, a committed session keeps its reservation
\* and its experiment until it is cleared.
THEOREM KeepsReservationCorrect ==
  ASSUME OneSessionEach
  PROVE  Spec => []KeepsReservation
<1>1. Init => KeepsReservation
  BY ThreadNames DEF Init, KeepsReservation
<1>2. TypeOK /\ ClearInv /\ KeepsReservation /\ [Next]_vars => KeepsReservation'
  <2>. SUFFICES ASSUME TypeOK, ClearInv, KeepsReservation, [Next]_vars
                PROVE  KeepsReservation'
    OBVIOUS
  <2>. USE ThreadNames
  <2>1. CASE Tick
    BY <2>1 DEF Tick, KeepsReservation, sessVars
  <2>2. ASSUME NEW s \in Sessions, RliStep(s) PROVE KeepsReservation'
    <3>. USE DEF dbVars, sessVars, commitFrame, KeepsReservation, TypeOK
    <3>1. CASE BeginCheck(s)
      BY <3>1 DEF BeginCheck
    <3>2. CASE BeginReserved(s)
      BY <3>2 DEF BeginReserved
    <3>3. CASE BeginAdd(s)
      BY <3>3 DEF BeginAdd
    <3>4. CASE CommitLookUp(s)
      BY <3>4 DEF CommitLookUp, Goto
    <3>5. CASE ClearRequest(s)
      BY <3>5 DEF ClearRequest, CallClear
    <3>6. CASE RliDies(s)
      BY <3>6 DEF RliDies
    <3>. QED
      BY <2>2, <3>1, <3>2, <3>3, <3>4, <3>5, <3>6 DEF RliStep
  <2>3. ASSUME NEW s \in Sessions, AlertsStep(s) PROVE KeepsReservation'
    <3>. USE DEF alertsFrame, dbVars, KeepsReservation, TypeOK
    <3>1. CASE AlertsStart(s)
      BY <3>1 DEF AlertsStart, AlertsAt, AlertsGoto
    <3>2. CASE AlertsTop(s)
      BY <3>2 DEF AlertsTop, AlertsAt, AlertsGoto
    <3>3. CASE AlertsPing(s)
      BY <3>3 DEF AlertsPing, AlertsAt, AlertsGoto
    <3>4. CASE AlertsCrash(s)
      BY <3>4 DEF AlertsCrash, AlertsAt
    <3>5. CASE AlertsCheck(s)
      BY <3>5 DEF AlertsCheck, AlertsAt, AlertsGoto
    <3>6. CASE AlertsNoAck(s)
      BY <3>6 DEF AlertsNoAck, AlertsAt, AlertsGoto, CallClear
    <3>7. CASE AlertsRemove(s)
      BY <3>7 DEF AlertsRemove, AlertsAt, AlertsGoto
    <3>. QED
      BY <2>3, <3>1, <3>2, <3>3, <3>4, <3>5, <3>6, <3>7 DEF AlertsStep
  <2>4. ASSUME NEW a \in Reqs, AddStep(a) PROVE KeepsReservation'
    BY <2>4 DEF AddStep, AddFound, AddNoSession, AddQueue, dbVars, sessVars,
                KeepsReservation
  <2>5. CASE UNCHANGED vars
    BY <2>5 DEF vars, KeepsReservation
  <2>. QED
    BY <2>1, <2>2, <2>3, <2>4, <2>5, CommitKeepsReservation,
       ClearKeepsReservation DEF Next
<1>. QED
  BY <1>1, <1>2, SessionTypeCorrect, ClearInvariant, PTL DEF Spec
===============================================================================
