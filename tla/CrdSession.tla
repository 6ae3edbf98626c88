----------------------------- MODULE CrdSession -----------------------------
(***************************************************************************)
(* The life of the sessions of the central resource daemon: begin, add,    *)
(* commit and clear requests of the RLI (src/crd/onlcrd_requests.cc), the  *)
(* session (onlcrd_session.cc), the lists of the session manager           *)
(* (onlcrd_session_manager.cc) and the reservations and experiments that   *)
(* onldb::assign_resources and return_resources keep.                      *)
(*                                                                         *)
(* Every message of the RLI is handled by a thread of its own, and each    *)
(* session has one more, send_alerts, that pings the RLI and clears a      *)
(* session whose RLI is gone.  session::commit holds the session's         *)
(* req_lock except while it waits for requests; session::clear holds it    *)
(* throughout, whoever calls it: the clear request, send_alerts, or the    *)
(* commit of a session that needs the node or the bandwidth.               *)
(*                                                                         *)
(* Each action is one critical section, one database transaction or what a *)
(* thread does between two of them.                                        *)
(***************************************************************************)
EXTENDS Naturals, FiniteSets

CONSTANTS Sessions,  \* begin_session requests, each on a connection of its own
          Users,
          UserOf,    \* the user of each session
          Start, End,\* the user's reservation is current from Start until End
          Reqs,      \* add_cluster, add_component and add_link requests
          SessOf,    \* the session of each
          Kind,      \* "cluster", "component" or "link"
          Nodes,
          NodeOf,    \* the node the reservation gives a component, or NoNode
          NoNode,    \* a virtual component
          NoReq,
          NoThread,
          MaxTime,   \* bound: the clock stops here
          MaxPolls,  \* bound: stands for the 1200 polls of session::commit
          Overload,  \* interswitch bandwidth can run short
          Failing    \* the sessions whose RLI can fail for good

Threads == {"commit", "clear", "alerts"} \X Sessions

\* The number of topology requests that the begin request announces.
NumRequests(s) == Cardinality({a \in Reqs : SessOf[a] = s})

ASSUME SessionsAssumption ==
  /\ UserOf \in [Sessions -> Users]
  /\ SessOf \in [Reqs -> Sessions]
  /\ Kind \in [Reqs -> {"cluster", "component", "link"}]
  /\ NodeOf \in [Reqs -> Nodes \cup {NoNode}]
  /\ Failing \subseteq Sessions
  /\ NoNode \notin Nodes /\ NoReq \notin Reqs /\ NoThread \notin Threads
ASSUME TimeAssumption ==
  /\ Start \in [Users -> Nat] /\ End \in [Users -> Nat]
  /\ MaxTime \in Nat /\ MaxPolls \in Nat /\ Overload \in BOOLEAN
\* make_reservation never gives a node to two users at the same time.
ASSUME ScheduleAssumption ==
  \A a, b \in Reqs :
    LET u == UserOf[SessOf[a]]  w == UserOf[SessOf[b]]
    IN NodeOf[a] \in Nodes /\ NodeOf[a] = NodeOf[b] /\ u # w
         => End[u] <= Start[w] \/ End[w] <= Start[u]

VARIABLES
  clock,     \* the time, for the reservations
  res,       \* the state of each user's reservation
  exp,       \* the experiment row that a session's commit inserts
  up,        \* the daemon has not crashed
  rli,       \* the RLI of the session is connected and answers
  listed,    \* active_sessions
  cleared,   \* session::cleared
  begin_req, \* session::begin_req is not NULL
  queue,     \* cluster_reqs, component_reqs and link_reqs
  answer,    \* the response to each request; "handed" to its object
  comp,      \* the crd_component of a component request
  req_lock,  \* the thread that holds session::req_lock
  bpc,       \* begin_session_req::handle
  apc,       \* session_add_*_req::handle
  pc,        \* the commit, clear and alerts threads
  polls,     \* num_attempts of session::commit
  adding,    \* the component that session::commit is adding
  expired,   \* the users that get_expired_sessions returned to commit
  target,    \* the session whose clear() a thread is in
  cpc        \* where in clear() it is

dbVars   == <<clock, res, exp>>
sessVars == <<listed, cleared, begin_req>>
reqVars  == <<queue, answer, comp>>
callVars == <<target, cpc>>
commitVars == <<polls, adding, expired>>
vars == <<clock, res, exp, up, rli, listed, cleared, begin_req, queue,
          answer, comp, req_lock, bpc, apc, pc, polls, adding, expired,
          target, cpc>>

Init ==
  /\ clock = 0
  /\ res = [u \in Users |-> "pending"]
  /\ exp = [s \in Sessions |-> "none"]
  /\ up = TRUE
  /\ rli = [s \in Sessions |-> TRUE]
  /\ listed = {}
  /\ cleared = [s \in Sessions |-> FALSE]
  /\ begin_req = [s \in Sessions |-> FALSE]
  /\ queue = [s \in Sessions |-> {}]
  /\ answer = [a \in Reqs |-> "none"]
  /\ comp = [a \in Reqs |-> "none"]
  /\ req_lock = [s \in Sessions |-> NoThread]
  /\ bpc = [s \in Sessions |-> "none"]
  /\ apc = [a \in Reqs |-> "none"]
  /\ pc = [t \in Threads |-> "none"]
  /\ polls = [s \in Sessions |-> 0]
  /\ adding = [s \in Sessions |-> NoReq]
  /\ expired = [s \in Sessions |-> {}]
  /\ target = [t \in Threads |-> t[2]]
  /\ cpc = [t \in Threads |-> "no"]

-----------------------------------------------------------------------------
\* onldb::has_reservation, and the first query of assign_resources.
HasReservation(u) == Start[u] <= clock /\ clock < End[u]

Tick ==
  /\ clock < MaxTime
  /\ clock' = clock + 1
  /\ UNCHANGED <<res, exp, up, rli, sessVars, reqVars, req_lock, bpc,
                 apc, pc, commitVars, callVars>>

\* What get_session and has_session look for.
Live(s) == s \in listed /\ ~cleared[s]

\* The RLI of s can still send a request that names the session.
Begun(s) == rli[s] /\ bpc[s] = "begun"

RliDies(s) ==
  /\ Begun(s)
  /\ s \in Failing
  /\ rli' = [rli EXCEPT ![s] = FALSE]
  /\ UNCHANGED <<dbVars, up, sessVars, reqVars, req_lock, bpc, apc, pc,
                 commitVars, callVars>>

-----------------------------------------------------------------------------
(* begin_session_req::handle.                                              *)

\* The handler's checks, each a critical section of its own: has_session ...
BeginCheck(s) ==
  /\ bpc[s] = "none"
  /\ bpc' = [bpc EXCEPT ![s] =
       IF \E t \in Sessions : UserOf[t] = UserOf[s] /\ Live(t)
       THEN "refused" ELSE "checked"]
  /\ UNCHANGED <<dbVars, up, rli, sessVars, reqVars, req_lock, apc, pc,
                 commitVars, callVars>>

\* ... and reservation_time_left.
BeginReserved(s) ==
  /\ bpc[s] = "checked"
  /\ bpc' = [bpc EXCEPT ![s] =
       IF HasReservation(UserOf[s]) THEN "reserved" ELSE "refused"]
  /\ UNCHANGED <<dbVars, up, rli, sessVars, reqVars, req_lock, apc, pc,
                 commitVars, callVars>>

\* add_session: set_begin_request starts send_alerts.
BeginAdd(s) ==
  /\ bpc[s] = "reserved"
  /\ bpc' = [bpc EXCEPT ![s] = "begun"]
  /\ listed' = listed \cup {s}
  /\ begin_req' = [begin_req EXCEPT ![s] = TRUE]
  /\ pc' = [pc EXCEPT ![<<"alerts", s>>] = "start"]
  /\ UNCHANGED <<dbVars, up, rli, cleared, reqVars, req_lock, apc,
                 commitVars, callVars>>

-----------------------------------------------------------------------------
(* session_add_component_req, add_cluster_req and add_link_req::handle.    *)

AddFound(a) ==
  /\ apc[a] = "none"
  /\ Begun(SessOf[a]) /\ Live(SessOf[a])
  /\ apc' = [apc EXCEPT ![a] = "found"]
  /\ UNCHANGED <<dbVars, up, rli, sessVars, reqVars, req_lock, bpc, pc,
                 commitVars, callVars>>

AddNoSession(a) ==
  /\ apc[a] = "none"
  /\ Begun(SessOf[a]) /\ ~Live(SessOf[a])
  /\ apc' = [apc EXCEPT ![a] = "done"]
  /\ answer' = [answer EXCEPT ![a] = "failed"]
  /\ UNCHANGED <<dbVars, up, rli, sessVars, queue, comp, req_lock, bpc, pc,
                 commitVars, callVars>>

\* session::add_component, add_cluster and add_link.
AddQueue(a) ==
  LET s == SessOf[a] IN
  /\ apc[a] = "found"
  /\ req_lock[s] = NoThread
  /\ queue' = [queue EXCEPT ![s] = @ \cup {a}]
  /\ apc' = [apc EXCEPT ![a] = "done"]
  /\ UNCHANGED <<dbVars, up, rli, sessVars, answer, comp, req_lock, bpc,
                 pc, commitVars, callVars>>

AddStep(a) == AddFound(a) \/ AddNoSession(a) \/ AddQueue(a)

-----------------------------------------------------------------------------
(* session::clear, called by thread t for the session target[t].           *)

\* What a caller does: cpc returns to "no" when clear() has returned.
CallClear(t, s) ==
  /\ target' = [target EXCEPT ![t] = s]
  /\ cpc' = [cpc EXCEPT ![t] = "want"]

clearFrame == <<clock, up, rli, listed, bpc, apc, pc, commitVars, target>>

\* A faulty clear that answers the queued requests and leaves them queued.
ClearKeepsQueue(t) ==
  LET s == target[t] IN
  /\ cpc[t] = "want"
  /\ req_lock[s] = NoThread
  /\ ~cleared[s]
  /\ cleared' = [cleared EXCEPT ![s] = TRUE]
  /\ answer' = [a \in Reqs |-> IF a \in queue[s] THEN "failed" ELSE answer[a]]
  /\ req_lock' = [req_lock EXCEPT ![s] = t]
  /\ cpc' = [cpc EXCEPT ![t] = "return"]
  /\ UNCHANGED <<clearFrame, res, exp, begin_req, queue, comp>>

\* A second call returns at once.
ClearAgain(t) ==
  /\ cpc[t] = "want"
  /\ req_lock[target[t]] = NoThread
  /\ cleared[target[t]]
  /\ cpc' = [cpc EXCEPT ![t] = "no"]
  /\ UNCHANGED <<clearFrame, res, exp, cleared, begin_req, reqVars, req_lock>>

\* From taking req_lock to the loops that fail the requests not yet committed.
ClearEnter(t) ==
  LET s == target[t] IN
  /\ cpc[t] = "want"
  /\ req_lock[s] = NoThread
  /\ ~cleared[s]
  /\ cleared' = [cleared EXCEPT ![s] = TRUE]
  /\ answer' = [a \in Reqs |-> IF a \in queue[s] THEN "failed" ELSE answer[a]]
  /\ queue' = [queue EXCEPT ![s] = {}]
  /\ req_lock' = [req_lock EXCEPT ![s] = t]
  /\ cpc' = [cpc EXCEPT ![t] = "return"]
  /\ UNCHANGED <<clearFrame, res, exp, begin_req, comp>>

\* onldb::return_resources: the first experiment without an end time of the
\* user's active reservation, if there is one.
OpenExps(u) == {s \in Sessions : UserOf[s] = u /\ exp[s] = "open"}

\* A faulty return_resources that does not ask for the user's experiment.
ReturnAnyUser(t) ==
  /\ cpc[t] = "return"
  /\ \E s \in Sessions :
       /\ exp[s] = "open"
       /\ exp' = [exp EXCEPT ![s] = "closed"]
       /\ res' = [res EXCEPT ![UserOf[s]] = "used"]
  /\ cpc' = [cpc EXCEPT ![t] = "remove"]
  /\ UNCHANGED <<clearFrame, sessVars, reqVars, req_lock>>

ReturnResources(u) ==
  /\ res[u] = "active"
  /\ \E s \in OpenExps(u) : exp' = [exp EXCEPT ![s] = "closed"]
  /\ res' = [res EXCEPT ![u] = "used"]

ClearReturn(t) ==
  /\ cpc[t] = "return"
  /\ ReturnResources(UserOf[target[t]])
  /\ cpc' = [cpc EXCEPT ![t] = "remove"]
  /\ UNCHANGED <<clearFrame, sessVars, reqVars, req_lock>>

\* return_resources fails ("experiment not found"), which clear ignores.
ClearReturnFails(t) ==
  LET u == UserOf[target[t]] IN
  /\ cpc[t] = "return"
  /\ res[u] # "active" \/ OpenExps(u) = {}
  /\ cpc' = [cpc EXCEPT ![t] = "remove"]
  /\ UNCHANGED <<clearFrame, res, exp, sessVars, reqVars, req_lock>>

\* Vlans, links and components are given back, then begin_req is deleted.
ClearRemove(t) ==
  LET s == target[t] IN
  /\ cpc[t] = "remove"
  /\ comp' = [a \in Reqs |-> IF SessOf[a] = s /\ comp[a] # "none"
                             THEN "removed" ELSE comp[a]]
  /\ begin_req' = [begin_req EXCEPT ![s] = FALSE]
  /\ req_lock' = [req_lock EXCEPT ![s] = NoThread]
  /\ cpc' = [cpc EXCEPT ![t] = "no"]
  /\ UNCHANGED <<clearFrame, res, exp, cleared, queue, answer>>

ClearStep(t) == \/ ClearAgain(t) \/ ClearEnter(t) \/ ClearReturn(t)
                \/ ClearReturnFails(t) \/ ClearRemove(t)

(* clear_session_req::handle.                                              *)
ClearRequest(s) ==
  /\ pc[<<"clear", s>>] = "none"
  /\ Begun(s) /\ Live(s)
  /\ CallClear(<<"clear", s>>, s)
  /\ pc' = [pc EXCEPT ![<<"clear", s>>] = "done"]
  /\ UNCHANGED <<dbVars, up, rli, sessVars, reqVars, req_lock, bpc, apc,
                 commitVars>>

-----------------------------------------------------------------------------
(* session::commit, and commit_session_req::handle around it.              *)

commitFrame == <<clock, up, rli, sessVars, bpc, apc>>

Goto(s, l) == pc' = [pc EXCEPT ![<<"commit", s>>] = l]
Unlock(s) == req_lock' = [req_lock EXCEPT ![s] = NoThread]

CommitLookUp(s) ==
  /\ pc[<<"commit", s>>] = "none"
  /\ Begun(s)
  /\ Goto(s, IF Live(s) THEN "lock" ELSE "done")
  /\ UNCHANGED <<commitFrame, res, exp, reqVars, req_lock, commitVars, callVars>>

\* A session that is cleared before commit first takes req_lock.
CommitRefused(s) ==
  /\ pc[<<"commit", s>>] = "lock"
  /\ req_lock[s] = NoThread
  /\ cleared[s]
  /\ Goto(s, "done")
  /\ UNCHANGED <<commitFrame, res, exp, reqVars, req_lock, commitVars, callVars>>

\* commit has req_lock, for the first time or after it has slept without it,
\* when it no longer looks at cleared.
Polling(s) ==
  /\ pc[<<"commit", s>>] = "sleep" \/ (pc[<<"commit", s>>] = "lock" /\ ~cleared[s])
  /\ req_lock[s] = NoThread

CommitReady(s) ==
  /\ Polling(s)
  /\ Cardinality(queue[s]) >= NumRequests(s)
  /\ Goto(s, "assign")
  /\ req_lock' = [req_lock EXCEPT ![s] = <<"commit", s>>]
  /\ UNCHANGED <<commitFrame, res, exp, reqVars, commitVars, callVars>>

\* A faulty commit that waits for the announced requests as long as it takes.
PollForEver(s) ==
  /\ Polling(s)
  /\ Cardinality(queue[s]) < NumRequests(s)
  /\ polls[s] = MaxPolls
  /\ Goto(s, "sleep")
  /\ UNCHANGED <<commitFrame, res, exp, reqVars, req_lock, commitVars, callVars>>

CommitTimeout(s) ==
  /\ Polling(s)
  /\ Cardinality(queue[s]) < NumRequests(s)
  /\ polls[s] = MaxPolls
  /\ Goto(s, "done")
  /\ UNCHANGED <<commitFrame, res, exp, reqVars, req_lock, commitVars, callVars>>

\* A faulty commit that polls once more than it may.
PollOnceMore(s) ==
  /\ Polling(s)
  /\ Cardinality(queue[s]) < NumRequests(s)
  /\ polls' = [polls EXCEPT ![s] = @ + 1]
  /\ Goto(s, "sleep")
  /\ UNCHANGED <<commitFrame, res, exp, reqVars, req_lock, adding, expired,
                 callVars>>

CommitSleep(s) ==
  /\ Polling(s)
  /\ Cardinality(queue[s]) < NumRequests(s)
  /\ polls[s] < MaxPolls
  /\ polls' = [polls EXCEPT ![s] = @ + 1]
  /\ Goto(s, "sleep")
  /\ UNCHANGED <<commitFrame, res, exp, reqVars, req_lock, adding, expired,
                 callVars>>

\* onldb::assign_resources: the reservation is active and gets an experiment.
AssignResources(s) ==
  /\ HasReservation(UserOf[s])
  /\ res' = [res EXCEPT ![UserOf[s]] = "active"]
  /\ exp' = [exp EXCEPT ![s] = "open"]

\* The topology rejects some requests (bad), then assign_resources.
Clusters(Q) == {a \in Q : Kind[a] = "cluster"}

CommitAssign(s) ==
  /\ pc[<<"commit", s>>] = "assign"
  /\ AssignResources(s)
  /\ \E bad \in SUBSET queue[s] :
       LET good == queue[s] \ bad IN
       /\ queue' = [queue EXCEPT ![s] = good \ Clusters(good)]
       /\ answer' = [a \in Reqs |-> IF a \in bad THEN "failed"
                                    ELSE IF a \in Clusters(good) THEN "fine"
                                    ELSE answer[a]]
  /\ Goto(s, "components")
  /\ UNCHANGED <<commitFrame, comp, req_lock, commitVars, callVars>>

\* assign_resources finds no reservation or the topology does not fit it; the
\* requests that the topology took stay queued.
CommitAssignFails(s) ==
  /\ pc[<<"commit", s>>] = "assign"
  /\ \E bad \in SUBSET queue[s] :
       /\ queue' = [queue EXCEPT ![s] = @ \ bad]
       /\ answer' = [a \in Reqs |-> IF a \in bad THEN "failed" ELSE answer[a]]
  /\ Goto(s, "done")
  /\ Unlock(s)
  /\ UNCHANGED <<commitFrame, res, exp, comp, commitVars, callVars>>

\* The active components whose node is that of request a.
Holders(a) == {b \in Reqs : comp[b] = "active" /\ NodeOf[b] = NodeOf[a]}

\* commit takes the next component request and makes the object.
NextComponent(s, a) ==
  /\ pc[<<"commit", s>>] = "components"
  /\ a \in queue[s] /\ Kind[a] = "component"
  /\ queue' = [queue EXCEPT ![s] = @ \ {a}]
  /\ UNCHANGED <<commitFrame, res, exp, req_lock, polls, expired>>

\* session_manager::add_component for a node that nobody has, or for a
\* component that is virtual and not listed.
CommitAdd(s) == \E a \in Reqs :
  /\ NextComponent(s, a)
  /\ NodeOf[a] = NoNode \/ Holders(a) = {}
  /\ comp' = [comp EXCEPT ![a] = IF NodeOf[a] = NoNode THEN "made" ELSE "active"]
  /\ answer' = [answer EXCEPT ![a] = "handed"]
  /\ UNCHANGED <<pc, adding, callVars>>

\* The node is in admin mode and the user is no administrator.
CommitAdmin(s) == \E a \in Reqs :
  /\ NextComponent(s, a)
  /\ comp' = [comp EXCEPT ![a] = "made"]
  /\ answer' = [answer EXCEPT ![a] = "failed"]
  /\ UNCHANGED <<pc, adding, callVars>>

\* add_component for a node that a session still has: that session is cleared
\* first, with this session's req_lock held and comp_lock released.
CommitEvict(s) == \E a \in Reqs :
  /\ NextComponent(s, a)
  /\ NodeOf[a] # NoNode
  /\ \E b \in Holders(a) : CallClear(<<"commit", s>>, SessOf[b])
  /\ adding' = [adding EXCEPT ![s] = a]
  /\ comp' = [comp EXCEPT ![a] = "made"]
  /\ Goto(s, "evict")
  /\ UNCHANGED answer

\* The rest of add_component, once the clear it called has returned.
CommitEvicted(s) ==
  /\ pc[<<"commit", s>>] = "evict"
  /\ cpc[<<"commit", s>>] = "no"
  /\ comp' = [comp EXCEPT ![adding[s]] = "active"]
  /\ answer' = [answer EXCEPT ![adding[s]] = "handed"]
  /\ adding' = [adding EXCEPT ![s] = NoReq]
  /\ Goto(s, "components")
  /\ UNCHANGED <<commitFrame, res, exp, queue, req_lock, polls, expired, callVars>>

\* onldb::get_expired_sessions: everybody past the end, or nobody.
ExpiredUsers == {u \in Users : End[u] <= clock /\ OpenExps(u) # {}}

\* The links are handed to their objects and the expired sessions looked up.
CommitLinks(s) ==
  /\ pc[<<"commit", s>>] = "components"
  /\ \A a \in queue[s] : Kind[a] # "component"
  /\ answer' = [a \in Reqs |-> IF a \in queue[s] THEN "handed" ELSE answer[a]]
  /\ queue' = [queue EXCEPT ![s] = {}]
  /\ \E users \in {{}, IF Overload THEN ExpiredUsers ELSE {}} :
       expired' = [expired EXCEPT ![s] = users]
  /\ Goto(s, "expire")
  /\ UNCHANGED <<commitFrame, res, exp, comp, req_lock, polls, adding, callVars>>

\* check_for_expired_sessions, one user: its session is cleared, be it this
\* one ...
CommitExpire(s) ==
  /\ pc[<<"commit", s>>] = "expire"
  /\ cpc[<<"commit", s>>] = "no"
  /\ \E t \in Sessions :
       /\ Live(t) /\ UserOf[t] \in expired[s]
       /\ expired' = [expired EXCEPT ![s] = @ \ {UserOf[t]}]
       /\ CallClear(<<"commit", s>>, t)
  /\ UNCHANGED <<commitFrame, res, exp, reqVars, req_lock, pc, polls, adding>>

\* ... or is gone already.
CommitExpireGone(s) ==
  /\ pc[<<"commit", s>>] = "expire"
  /\ cpc[<<"commit", s>>] = "no"
  /\ \E u \in expired[s] :
       /\ \A t \in Sessions : UserOf[t] = u => ~Live(t)
       /\ expired' = [expired EXCEPT ![s] = @ \ {u}]
  /\ UNCHANGED <<commitFrame, res, exp, reqVars, req_lock, pc, polls, adding,
                 callVars>>

\* Vlans are allocated and every component initialized.
CommitFinish(s) ==
  /\ pc[<<"commit", s>>] = "expire"
  /\ cpc[<<"commit", s>>] = "no"
  /\ expired[s] = {}
  /\ Goto(s, "committed")
  /\ Unlock(s)
  /\ UNCHANGED <<commitFrame, res, exp, reqVars, commitVars, callVars>>

CommitStep(s) ==
  \/ CommitRefused(s) \/ CommitReady(s) \/ CommitTimeout(s) \/ CommitSleep(s)
  \/ CommitAssign(s) \/ CommitAssignFails(s)
  \/ CommitAdd(s) \/ CommitAdmin(s) \/ CommitEvict(s) \/ CommitEvicted(s)
  \/ CommitLinks(s) \/ CommitExpire(s) \/ CommitExpireGone(s) \/ CommitFinish(s)

-----------------------------------------------------------------------------
(* session_send_alerts_wrapper and session::send_alerts.                   *)

alertsFrame == <<dbVars, rli, cleared, begin_req, reqVars, req_lock, bpc, apc,
                 commitVars>>

AlertsAt(s, l) == pc[<<"alerts", s>>] = l
AlertsGoto(s, l) == pc' = [pc EXCEPT ![<<"alerts", s>>] = l]

\* register_periodic_rendezvous and the ping object.
AlertsStart(s) ==
  /\ AlertsAt(s, "start")
  /\ begin_req[s]
  /\ AlertsGoto(s, "top")
  /\ UNCHANGED <<alertsFrame, listed, up, callVars>>

\* The loop's condition; then reservation_time_left, which waits for the
\* database.
AlertsTop(s) ==
  /\ AlertsAt(s, "top")
  /\ AlertsGoto(s, IF cleared[s] THEN "exit" ELSE "ping")
  /\ UNCHANGED <<alertsFrame, listed, up, callVars>>

AlertsPing(s) ==
  /\ AlertsAt(s, "ping")
  /\ begin_req[s]
  /\ AlertsGoto(s, "wait")
  /\ UNCHANGED <<alertsFrame, listed, up, callVars>>

\* The thread uses begin_req, which it never checks, without req_lock: the
\* daemon crashes when clear() has set it to NULL.
AlertsCrash(s) ==
  /\ AlertsAt(s, "start") \/ AlertsAt(s, "ping")
  /\ ~begin_req[s]
  /\ up' = FALSE
  /\ UNCHANGED <<alertsFrame, listed, pc, callVars>>

\* A faulty send_alerts that leaves the loop without clearing the session.
NoAckNoClear(s) ==
  /\ AlertsAt(s, "wait")
  /\ ~cleared[s]
  /\ AlertsGoto(s, "exit")
  /\ UNCHANGED <<alertsFrame, listed, up, callVars>>

\* A minute after the ping the session is found cleared, or the RLI has sent
\* its ack in time, ...
AlertsCheck(s) ==
  /\ AlertsAt(s, "wait")
  /\ cleared[s] \/ rli[s]
  /\ AlertsGoto(s, IF cleared[s] THEN "exit" ELSE "top")
  /\ UNCHANGED <<alertsFrame, listed, up, callVars>>

\* ... or not, and the session is cleared.
AlertsNoAck(s) ==
  /\ AlertsAt(s, "wait")
  /\ ~cleared[s]
  /\ CallClear(<<"alerts", s>>, s)
  /\ AlertsGoto(s, "exit")
  /\ UNCHANGED <<alertsFrame, listed, up>>

\* A faulty remove_session that does not find the session.
RemoveNothing(s) ==
  /\ AlertsAt(s, "exit")
  /\ cpc[<<"alerts", s>>] = "no"
  /\ AlertsGoto(s, "gone")
  /\ UNCHANGED <<alertsFrame, listed, up, callVars>>

\* session_manager::remove_session, after send_alerts has returned.
AlertsRemove(s) ==
  /\ AlertsAt(s, "exit")
  /\ cpc[<<"alerts", s>>] = "no"
  /\ listed' = listed \ {s}
  /\ AlertsGoto(s, "gone")
  /\ UNCHANGED <<alertsFrame, up, callVars>>

AlertsStep(s) ==
  \/ AlertsStart(s) \/ AlertsTop(s) \/ AlertsPing(s) \/ AlertsCrash(s)
  \/ AlertsCheck(s) \/ AlertsNoAck(s) \/ AlertsRemove(s)

-----------------------------------------------------------------------------
RliStep(s) == \/ BeginCheck(s) \/ BeginReserved(s) \/ BeginAdd(s)
              \/ CommitLookUp(s) \/ ClearRequest(s) \/ RliDies(s)

Next ==
  /\ up
  /\ \/ Tick
     \/ \E s \in Sessions : RliStep(s) \/ CommitStep(s) \/ AlertsStep(s)
     \/ \E a \in Reqs : AddStep(a)
     \/ \E t \in Threads : ClearStep(t)

(***************************************************************************)
(* The daemon's threads run as long as they can: a mutex that is free is   *)
(* obtained, a sleep ends.  Nothing obliges the RLI to send a request or   *)
(* to answer a ping.                                                       *)
(***************************************************************************)
Fairness ==
  /\ \A s \in Sessions : /\ WF_vars(up /\ CommitStep(s))
                         /\ WF_vars(up /\ AlertsStep(s))
  /\ \A t \in Threads : WF_vars(up /\ ClearStep(t))

Spec == Init /\ [][Next]_vars
FairSpec == Spec /\ Fairness

-----------------------------------------------------------------------------
CommitPcs == {"none", "lock", "sleep", "assign", "components", "evict",
              "expire", "committed", "done"}
AlertsPcs == {"none", "start", "top", "ping", "wait", "exit", "gone"}

\* The variables hold values the code can give them.
TypeOK ==
  /\ clock \in 0 .. MaxTime
  /\ res \in [Users -> {"pending", "active", "used"}]
  /\ exp \in [Sessions -> {"none", "open", "closed"}]
  /\ up \in BOOLEAN
  /\ rli \in [Sessions -> BOOLEAN]
  /\ listed \subseteq Sessions
  /\ cleared \in [Sessions -> BOOLEAN]
  /\ begin_req \in [Sessions -> BOOLEAN]
  /\ queue \in [Sessions -> SUBSET Reqs]
  /\ answer \in [Reqs -> {"none", "failed", "fine", "handed"}]
  /\ comp \in [Reqs -> {"none", "made", "active", "removed"}]
  /\ req_lock \in [Sessions -> Threads \cup {NoThread}]
  /\ bpc \in [Sessions -> {"none", "checked", "reserved", "begun", "refused"}]
  /\ apc \in [Reqs -> {"none", "found", "done"}]
  /\ pc \in [Threads -> CommitPcs \cup AlertsPcs]
  /\ polls \in [Sessions -> 0 .. MaxPolls]
  /\ adding \in [Sessions -> Reqs \cup {NoReq}]
  /\ expired \in [Sessions -> SUBSET Users]
  /\ target \in [Threads -> Sessions]
  /\ cpc \in [Threads -> {"no", "want", "return", "remove"}]

\* A request is answered, or handed to the object that answers it, at most
\* once: commit and clear never both dispose of it (each deletes it).
AnsweredOnce ==
  [][\A a \in Reqs : answer[a] # "none" => answer'[a] = answer[a]]_vars

\* A session that has been given its reservation's resources keeps them until
\* it is cleared: no other session's clear ends its experiment or marks its
\* reservation used.
KeepsReservation ==
  \A s \in Sessions :
    /\ pc[<<"commit", s>>] \in {"components", "evict", "expire", "committed"}
    /\ ~cleared[s]
    => exp[s] = "open" /\ res[UserOf[s]] = "active"

\* A session leaves active_sessions only when it has been cleared, so that no
\* request of its RLI and no up message finds it gone while it holds nodes.
RemovedWhenCleared ==
  [][\A s \in Sessions : s \in listed /\ s \notin listed' => cleared[s]]_vars

\* session::commit ends, whatever becomes of the requests and of the session.
CommitEnds ==
  \A s \in Sessions :
    pc[<<"commit", s>>] = "lock" ~>
      ~up \/ pc[<<"commit", s>>] \in {"committed", "done"}

\* A session whose RLI is gone is cleared, unless the daemon crashes.
DeadRliCleared ==
  \A s \in Sessions : Live(s) /\ ~rli[s] ~> ~up \/ cleared[s]

\* A cleared session is removed from active_sessions.
ClearedRemoved ==
  \A s \in Sessions : cleared[s] ~> ~up \/ s \notin listed
=============================================================================
