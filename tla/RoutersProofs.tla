---------------------------- MODULE RoutersProofs ----------------------------
(***************************************************************************)
(* The routers: the network processor router, the software router and the  *)
(* hosts whose daemons descend from it.                                    *)
(*                                                                         *)
(* Plugins (module NprPlugins): the engines that run are those of the      *)
(* loaded plugins, and an answer of a plugin reaches the request it        *)
(* belongs to, for any number of plugins and requests.                     *)
(*                                                                         *)
(* Tables (module NprTables, instantiated as Tb by MCRouters): an entry of *)
(* the TCAM leads to its own result and no result slot is leaked, for any  *)
(* sizes of the tables and any number of threads, while no two deletes are *)
(* under way at once.  TabInv is the inductive invariant.                  *)
(*                                                                         *)
(* Queues (modules SwRouter, HostFilters, NdneHost and NprParams,          *)
(* instantiated as Sw, Hf, Nd and Pa): every queue has a place of its own, *)
(* for any ports, queues, threads and failures, as long as the numbers are *)
(* in the range of the code's formulas.  QueueInv and ParamsInv are the    *)
(* inductive invariants.                                                   *)
(***************************************************************************)
EXTENDS MCRouters, FiniteSetTheorems, SequenceTheorems, WellFoundedInduction, TLAPS

-----------------------------------------------------------------------------
(* Engines: used_me_mask is toggled, never set, when a plugin is deleted.   *)

LEMMA EnginesInit == Init => EnginesMatchPlugins
BY DEF Init, EnginesMatchPlugins

EnginesType == handle \in [Plugins -> BOOLEAN]

LEMMA EnginesNext ==
  ASSUME EnginesType, EnginesMatchPlugins, [Next]_vars
  PROVE  EnginesType' /\ EnginesMatchPlugins'
<1>1. CASE UNCHANGED code
  BY <1>1 DEF code, EnginesType, EnginesMatchPlugins
<1>2. ASSUME NEW p \in Plugins, add_plugin(p)
      PROVE  EnginesType' /\ EnginesMatchPlugins'
  <2>1. CASE UNCHANGED code
    BY <1>1, <2>1
  <2>2. CASE /\ handle' = [handle EXCEPT ![p] = TRUE]
             /\ used_me_mask' = used_me_mask \cup {p}
             /\ start_mes
    BY <2>2 DEF start_mes, EnginesType, EnginesMatchPlugins
  <2> QED
    BY <1>2, <2>1, <2>2 DEF add_plugin
<1>3. ASSUME NEW p \in Plugins, del_plugin(p)
      PROVE  EnginesType' /\ EnginesMatchPlugins'
  <2>1. CASE handle[p]
    BY <1>3, <2>1, PluginAssumption
       DEF del_plugin, stop_mes, EnginesType, EnginesMatchPlugins
  <2>2. CASE ~handle[p]
    BY <1>3, <2>2, PluginAssumption
       DEF del_plugin, stop_mes, EnginesType, EnginesMatchPlugins
  <2> QED
    BY <2>1, <2>2
<1>4. ASSUME NEW r \in Reqs, Request(r)
      PROVE  \/ UNCHANGED code
             \/ \E p \in Plugins : add_plugin(p) \/ del_plugin(p)
  BY <1>4 DEF Request, add_plugin_req, delete_plugin_req, get_plugins_req, plugin_debug_req,
              plugin_control_msg_req
<1>5. ASSUME NEW r \in Reqs, Step(r)
      PROVE  UNCHANGED code
  BY <1>5 DEF Step, send_msg_to_plugin, writemsg, pass_result_to_rli, send_plugin_response,
              ClearMsg
<1>6. check \/ readmsg => UNCHANGED code
  BY DEF check, readmsg
<1>7. ASSUME NEW p \in Plugins, PluginAnswers(p) \/ PluginDebugs(p)
      PROVE  UNCHANGED code
  BY <1>7 DEF PluginAnswers, PluginDebugs
<1>8. UNCHANGED vars => UNCHANGED code
  BY DEF vars, code
<1> QED
  BY <1>1, <1>2, <1>3, <1>4, <1>5, <1>6, <1>7, <1>8 DEF Next

\* The microengines that run are those of the router's own code and of the loaded
\* plugins: add_plugin and del_plugin never toggle a bit of used_me_mask the wrong way,
\* in any order and whatever fails.
THEOREM EnginesCorrect == Spec => []EnginesMatchPlugins
<1>1. Init => EnginesType
  BY DEF Init, EnginesType
<1> QED
  BY <1>1, EnginesInit, EnginesNext, PTL DEF Spec

-----------------------------------------------------------------------------
(* Messages: the inductive invariant.                                       *)

AnyPlugin == Plugins \cup {BadPlugin}
AnyReq == Reqs \cup {NoReq}
ThrType == [pc : {"new", "lock", "write", "done"}, plugin : AnyPlugin]
RcvType == [pc : {"none", "rsp", "send", "clear", "done"}, plugin : AnyPlugin, orig : AnyReq]

ChanType ==
  /\ lock \in [Plugins -> BOOLEAN]
  /\ msg \in [Plugins -> AnyReq]
  /\ toPlugin \in [Plugins -> Seq(Reqs)]
  /\ fromPlugin \in [Plugins -> Seq(AnyReq)]
  /\ ready \in AnyPlugin
  /\ ready # BadPlugin => fromPlugin[ready] # <<>>
  /\ thr \in [Reqs -> ThrType]
  /\ rcv \in [Reqs -> RcvType]
  /\ DOMAIN answered = Reqs

\* The places a message to plugin p can be at, from the moment its request has the
\* plugin's lock to the moment the lock is released: being written, the control ring to
\* the plugin, the ring back, and the thread that handles the answer.
At(p, place, i, r) ==
  \/ place = "write" /\ i = 0 /\ thr[r].pc = "write" /\ thr[r].plugin = p
  \/ place = "to" /\ i \in DOMAIN toPlugin[p] /\ toPlugin[p][i] = r
  \/ place = "from" /\ i \in DOMAIN fromPlugin[p] /\ fromPlugin[p][i] = r
  \/ place = "rsp" /\ i = 0 /\ rcv[r].pc = "rsp" /\ rcv[r].plugin = p

\* One message is at one place; it holds the lock and is the one plugin<p>_msg names,
\* unless the thread of the previous answer has cleared that already.
OneMessage ==
  \A p \in Plugins, r \in Reqs : \A x, i : At(p, x, i, r) =>
    /\ lock[p] /\ msg[p] \in {r, NoReq}
    /\ \A s \in Reqs : \A y, j : At(p, y, j, s) => s = r /\ y = x /\ j = i

\* A control message goes through the places in order and is answered at the end, to its
\* own request.
Journey(r) ==
  /\ thr[r].pc \in {"lock", "write"} => thr[r].plugin # BadPlugin
  /\ thr[r].pc = "new" => thr[r].plugin = BadPlugin /\ answered[r] = <<>>
  /\ thr[r].pc \in {"lock", "write"} => rcv[r].pc = "none"
  /\ \A p \in Plugins : \A i :
       At(p, "to", i, r) \/ At(p, "from", i, r) =>
         thr[r].pc = "done" /\ thr[r].plugin = p /\ rcv[r].pc = "none"
  /\ rcv[r].pc # "none" => thr[r].plugin # BadPlugin /\ rcv[r].plugin = thr[r].plugin
                           /\ thr[r].pc = "done"
  /\ rcv[r].pc = "send" => rcv[r].orig \in {r, NoReq}
  /\ thr[r].plugin # BadPlugin =>
       answered[r] = IF rcv[r].pc \in {"clear", "done"} /\ rcv[r].orig = r THEN <<r>> ELSE <<>>

MsgInv == ChanType /\ OneMessage /\ \A r \in Reqs : Journey(r)

LEMMA MsgInit == Init => MsgInv
<1> SUFFICES ASSUME Init PROVE MsgInv
  OBVIOUS
<1>1. ChanType
  BY DEF Init, ChanType, ThrType, RcvType, AnyPlugin, AnyReq, None, NoRcv
<1>2. \A p \in Plugins, r \in Reqs : \A x, i : ~At(p, x, i, r)
  BY DEF Init, At, None, NoRcv
<1>3. OneMessage
  BY <1>2 DEF OneMessage
<1>4. \A r \in Reqs : Journey(r)
  BY <1>2 DEF Journey, Init, None, NoRcv
<1> QED
  BY <1>1, <1>3, <1>4 DEF MsgInv

\* A step after which no message is at a new place.
LEMMA FewerPlaces ==
  ASSUME OneMessage,
         \A p \in Plugins, r \in Reqs : \A x, i : At(p, x, i, r)' =>
           At(p, x, i, r) /\ lock'[p] = lock[p] /\ msg'[p] \in {msg[p], NoReq}
  PROVE  OneMessage'
BY DEF OneMessage

\* A step of one request that leaves the rings alone.
LEMMA OwnStep ==
  ASSUME MsgInv, ChanType', NEW r \in Reqs,
         UNCHANGED <<toPlugin, fromPlugin>>,
         \A s \in Reqs \ {r} : thr'[s] = thr[s] /\ rcv'[s] = rcv[s] /\ answered'[s] = answered[s],
         Journey(r)'
  PROVE  \A s \in Reqs : Journey(s)'
<1>1. ASSUME NEW s \in Reqs \ {r}
      PROVE  Journey(s)'
  <2>1. \A p \in Plugins : \A i : /\ At(p, "to", i, s)' => At(p, "to", i, s)
                                  /\ At(p, "from", i, s)' => At(p, "from", i, s)
    BY DEF At
  <2>2. Journey(s)
    BY DEF MsgInv
  <2> QED
    BY <2>1, <2>2 DEF Journey
<1> QED
  BY <1>1

\* A request is answered at once.
LEMMA AnsweredAtOnce ==
  ASSUME MsgInv, NEW r \in Reqs, thr[r].pc = "new", thr' = [thr EXCEPT ![r].pc = "done"],
         DOMAIN answered' = Reqs, \A s \in Reqs \ {r} : answered'[s] = answered[s],
         UNCHANGED <<lock, msg, toPlugin, fromPlugin, ready, rcv>>
  PROVE  MsgInv'
<1>1. ChanType /\ OneMessage /\ Journey(r)
  BY DEF MsgInv
<1>2. /\ thr' \in [Reqs -> ThrType] /\ thr'[r].pc = "done" /\ thr'[r].plugin = BadPlugin
      /\ \A s \in Reqs \ {r} : thr'[s] = thr[s]
  BY <1>1 DEF ChanType, ThrType, Journey
<1>3. ChanType'
  BY <1>1, <1>2 DEF ChanType
<1>4. \A p \in Plugins, s \in Reqs : \A x, i : At(p, x, i, s)' => At(p, x, i, s)
  BY <1>2 DEF At
<1>5. OneMessage'
  BY <1>1, <1>4, FewerPlaces
<1>6. Journey(r)'
  <2>1. \A p \in Plugins : \A i : ~At(p, "to", i, r)' /\ ~At(p, "from", i, r)'
    BY <1>1, <1>4 DEF Journey
  <2> QED
    BY <1>1, <1>2, <2>1 DEF Journey
<1>7. \A s \in Reqs : Journey(s)'
  BY <1>2, <1>3, <1>6, OwnStep
<1> QED
  BY <1>3, <1>5, <1>7 DEF MsgInv

LEMMA RequestStep ==
  ASSUME MsgInv, NEW r \in Reqs, Request(r)
  PROVE  MsgInv'
<1>1. ChanType /\ OneMessage /\ Journey(r) /\ DOMAIN answered = Reqs
  BY DEF MsgInv, ChanType
<1>2. ASSUME NEW a, Answer(r, a)
      PROVE  /\ thr' = [thr EXCEPT ![r].pc = "done"] /\ DOMAIN answered' = Reqs
             /\ \A s \in Reqs \ {r} : answered'[s] = answered[s]
  BY <1>1, <1>2 DEF Answer
<1>3. CASE add_plugin_req(r) \/ delete_plugin_req(r)
  <2>1. /\ thr[r].pc = "new" /\ \E a : Answer(r, a)
        /\ UNCHANGED <<lock, msg, toPlugin, fromPlugin, ready, rcv>>
    BY <1>3 DEF add_plugin_req, delete_plugin_req
  <2> QED
    BY <1>2, <2>1, AnsweredAtOnce
<1>4. CASE get_plugins_req(r)
  <2>1. /\ thr[r].pc = "new" /\ thr' = [thr EXCEPT ![r].pc = "done"] /\ DOMAIN answered' = Reqs
        /\ \A s \in Reqs \ {r} : answered'[s] = answered[s]
        /\ UNCHANGED <<lock, msg, toPlugin, fromPlugin, ready, rcv>>
    BY <1>1, <1>2, <1>4 DEF get_plugins_req
  <2> QED
    BY <2>1, AnsweredAtOnce
<1>5. CASE plugin_debug_req(r)
  <2>1. /\ thr[r].pc = "new" /\ \E a : Answer(r, a)
        /\ UNCHANGED <<lock, msg, toPlugin, fromPlugin, ready, rcv>>
    BY <1>5 DEF plugin_debug_req
  <2> QED
    BY <1>2, <2>1, AnsweredAtOnce
<1>6. CASE plugin_control_msg_req(r)
  <2>1. thr[r].pc = "new" /\ UNCHANGED <<lock, msg, toPlugin, fromPlugin, ready, rcv>>
    BY <1>6 DEF plugin_control_msg_req
  <2>2. CASE Answer(r, "Failed")
    BY <1>2, <2>1, <2>2, AnsweredAtOnce
  <2>3. ASSUME NEW p \in Plugins, thr' = [thr EXCEPT ![r] = [pc |-> "lock", plugin |-> p]],
               UNCHANGED answered
        PROVE  MsgInv'
    <3>1. /\ thr' \in [Reqs -> ThrType] /\ thr'[r].pc = "lock" /\ thr'[r].plugin = p
          /\ \A s \in Reqs \ {r} : thr'[s] = thr[s]
      BY <1>1, <2>3 DEF ChanType, ThrType, AnyPlugin
    <3>2. ChanType'
      BY <1>1, <2>1, <2>3, <3>1 DEF ChanType
    <3>3. \A q \in Plugins, s \in Reqs : \A x, i : At(q, x, i, s)' => At(q, x, i, s)
      BY <2>1, <3>1 DEF At
    <3>4. OneMessage'
      BY <1>1, <2>1, <3>3, FewerPlaces
    <3>5. Journey(r)'
      <4>1. \A q \in Plugins : \A i : ~At(q, "to", i, r)' /\ ~At(q, "from", i, r)'
        BY <1>1, <2>1, <3>3 DEF Journey
      <4>2. rcv'[r].pc = "none"
        BY <1>1, <2>1, <2>3 DEF Journey
      <4> QED
        BY <1>1, <2>1, <2>3, <3>1, <4>1, <4>2, PluginAssumption DEF Journey
    <3>6. \A s \in Reqs : Journey(s)'
      BY <2>1, <2>3, <3>1, <3>2, <3>5, OwnStep
    <3> QED
      BY <3>2, <3>4, <3>6 DEF MsgInv
  <2> QED
    BY <1>6, <2>2, <2>3 DEF plugin_control_msg_req
<1> QED
  BY <1>3, <1>4, <1>5, <1>6 DEF Request

\* With the lock free no message is under way: the request's is the only one now.
LEMMA SendStep ==
  ASSUME MsgInv, NEW r \in Reqs, send_msg_to_plugin(r)
  PROVE  MsgInv'
<1> DEFINE p == thr[r].plugin
<1>1. ChanType /\ OneMessage /\ Journey(r)
  BY DEF MsgInv
<1>2. /\ thr[r].pc = "lock" /\ ~lock[p]
      /\ lock' = [lock EXCEPT ![p] = TRUE]
      /\ msg' = [msg EXCEPT ![p] = r]
      /\ thr' = [thr EXCEPT ![r].pc = "write"]
      /\ UNCHANGED <<toPlugin, fromPlugin, ready, rcv, answered>>
  BY DEF send_msg_to_plugin
<1>3. p \in Plugins
  BY <1>1, <1>2 DEF Journey, ChanType, ThrType, AnyPlugin
<1>4. /\ thr' \in [Reqs -> ThrType] /\ thr'[r].pc = "write" /\ thr'[r].plugin = p
      /\ \A s \in Reqs \ {r} : thr'[s] = thr[s]
  BY <1>1, <1>2 DEF ChanType, ThrType
<1> HIDE DEF p
<1>5. /\ lock' \in [Plugins -> BOOLEAN] /\ msg' \in [Plugins -> AnyReq]
      /\ lock'[p] /\ msg'[p] = r
      /\ \A q \in Plugins \ {p} : lock'[q] = lock[q] /\ msg'[q] = msg[q]
  BY <1>1, <1>2, <1>3 DEF ChanType, AnyReq
<1>6. ChanType'
  BY <1>1, <1>2, <1>4, <1>5 DEF ChanType
<1>7. \A q \in Plugins, s \in Reqs : \A x, i :
        At(q, x, i, s)' => \/ At(q, x, i, s)
                           \/ q = p /\ s = r /\ x = "write" /\ i = 0
  BY <1>2, <1>4 DEF At
<1>8. \A s \in Reqs : \A x, i : ~At(p, x, i, s)
  BY <1>1, <1>2, <1>3 DEF OneMessage
<1>9. OneMessage'
  BY <1>1, <1>3, <1>5, <1>7, <1>8 DEF OneMessage
<1>10. Journey(r)'
  <2>1. \A q \in Plugins : \A i : ~At(q, "to", i, r)' /\ ~At(q, "from", i, r)'
    BY <1>1, <1>2, <1>7 DEF Journey
  <2> QED
    BY <1>1, <1>2, <1>3, <1>4, <2>1 DEF Journey, p
<1>11. \A s \in Reqs : Journey(s)'
  BY <1>2, <1>4, <1>6, <1>10, OwnStep
<1> QED
  BY <1>6, <1>9, <1>11 DEF MsgInv

\* A ring that gets one more entry.
LEMMA AppendPlaces ==
  ASSUME NEW T, NEW q \in Seq(T), NEW e \in T
  PROVE  /\ Append(q, e) \in Seq(T) /\ Append(q, e) # <<>>
         /\ \A i \in DOMAIN Append(q, e) :
              \/ i \in DOMAIN q /\ Append(q, e)[i] = q[i]
              \/ i = Len(q) + 1 /\ Append(q, e)[i] = e
OBVIOUS

\* A ring that loses its first entry.
LEMMA TailPlaces ==
  ASSUME NEW T, NEW q \in Seq(T), q # <<>>
  PROVE  /\ Tail(q) \in Seq(T) /\ Head(q) \in T /\ 1 \in DOMAIN q /\ q[1] = Head(q)
         /\ \A i \in DOMAIN Tail(q) : i + 1 \in DOMAIN q /\ Tail(q)[i] = q[i + 1] /\ i + 1 # 1
                                      /\ i \in Nat
OBVIOUS

LEMMA WriteStep ==
  ASSUME MsgInv, NEW r \in Reqs, writemsg(r)
  PROVE  MsgInv'
<1> DEFINE p == thr[r].plugin
           q == toPlugin[p]
<1>1. ChanType /\ OneMessage /\ Journey(r)
  BY DEF MsgInv
<1>2. /\ thr[r].pc = "write"
      /\ toPlugin' = [toPlugin EXCEPT ![p] = Append(q, r)]
      /\ thr' = [thr EXCEPT ![r].pc = "done"]
      /\ UNCHANGED <<lock, msg, fromPlugin, ready, rcv, answered>>
  BY DEF writemsg
<1>3. p \in Plugins
  BY <1>1, <1>2 DEF Journey, ChanType, ThrType, AnyPlugin
<1>4. /\ thr' \in [Reqs -> ThrType] /\ thr'[r].pc = "done" /\ thr'[r].plugin = p
      /\ \A s \in Reqs \ {r} : thr'[s] = thr[s]
  BY <1>1, <1>2 DEF ChanType, ThrType
<1>5. At(p, "write", 0, r)
  BY <1>2 DEF At
<1> HIDE DEF p, q
<1>6. /\ toPlugin' \in [Plugins -> Seq(Reqs)]
      /\ \A m \in Plugins \ {p} : toPlugin'[m] = toPlugin[m]
      /\ \A i \in DOMAIN toPlugin'[p] : \/ i \in DOMAIN toPlugin[p] /\ toPlugin'[p][i] = toPlugin[p][i]
                                        \/ i = Len(q) + 1 /\ toPlugin'[p][i] = r
  <2>1. q \in Seq(Reqs) /\ toPlugin[p] = q
    BY <1>1, <1>3 DEF ChanType, q
  <2>2. toPlugin'[p] = Append(q, r) /\ \A m \in Plugins \ {p} : toPlugin'[m] = toPlugin[m]
    BY <1>1, <1>2, <1>3 DEF ChanType
  <2>3. Append(q, r) \in Seq(Reqs)
    BY <2>1, AppendPlaces
  <2>4. toPlugin' \in [Plugins -> Seq(Reqs)]
    BY <1>1, <1>2, <1>3, <2>3 DEF ChanType
  <2> QED
    BY <2>1, <2>2, <2>4, AppendPlaces
<1>7. ChanType'
  BY <1>1, <1>2, <1>4, <1>6 DEF ChanType
<1>8. \A m \in Plugins, s \in Reqs : \A x, i :
        At(m, x, i, s)' => \/ At(m, x, i, s) /\ ~(s = r /\ x = "write")
                           \/ m = p /\ s = r /\ x = "to" /\ i = Len(q) + 1
  BY <1>2, <1>4, <1>6 DEF At
<1>9. ASSUME NEW m \in Plugins, m = p
      PROVE  \A s \in Reqs : \A x, i : At(m, x, i, s)' => s = r /\ x = "to" /\ i = Len(q) + 1
  <2>1. ASSUME NEW s \in Reqs, NEW x, NEW i, At(p, x, i, s)
        PROVE  s = r /\ x = "write"
    BY <1>1, <1>3, <1>5, <2>1 DEF OneMessage
  <2> QED
    BY <1>8, <1>9, <2>1
<1>10. lock[p] /\ msg[p] \in {r, NoReq}
  BY <1>1, <1>3, <1>5 DEF OneMessage
<1>11. OneMessage'
  <2>1. ASSUME NEW m \in Plugins, NEW s \in Reqs, NEW x, NEW i, At(m, x, i, s)'
        PROVE  /\ lock'[m] /\ msg'[m] \in {s, NoReq}
               /\ \A t \in Reqs : \A y, j : At(m, y, j, t)' => t = s /\ y = x /\ j = i
    <3>1. CASE m = p
      BY <1>2, <1>9, <1>10, <2>1, <3>1
    <3>2. CASE m # p
      <4>1. \A t \in Reqs : \A y, j : At(m, y, j, t)' => At(m, y, j, t)
        BY <1>8, <3>2
      <4> QED
        BY <1>1, <1>2, <2>1, <4>1 DEF OneMessage
    <3> QED
      BY <3>1, <3>2
  <2> QED
    BY <2>1 DEF OneMessage
<1>12. ASSUME NEW s \in Reqs
       PROVE  Journey(s)'
  <2>1. CASE s = r
    BY <1>1, <1>2, <1>3, <1>4, <1>8, <2>1 DEF Journey, p
  <2>2. CASE s # r
    <3>1. Journey(s)
      BY DEF MsgInv
    <3> QED
      BY <1>2, <1>4, <1>8, <2>2, <3>1 DEF Journey
  <2> QED
    BY <2>1, <2>2
<1> QED
  BY <1>7, <1>11, <1>12 DEF MsgInv

LEMMA PluginAnswersStep ==
  ASSUME MsgInv, NEW p \in Plugins, PluginAnswers(p)
  PROVE  MsgInv'
<1> DEFINE to == toPlugin[p]
           from == fromPlugin[p]
           r == Head(to)
<1>1. ChanType /\ OneMessage
  BY DEF MsgInv
<1>2. /\ to # <<>>
      /\ toPlugin' = [toPlugin EXCEPT ![p] = Tail(to)]
      /\ fromPlugin' = [fromPlugin EXCEPT ![p] = Append(from, r)]
      /\ UNCHANGED <<lock, msg, ready, thr, rcv, answered>>
  BY DEF PluginAnswers
<1>3. to \in Seq(Reqs) /\ from \in Seq(AnyReq)
  BY <1>1 DEF ChanType
<1> HIDE DEF to, from, r
<1>4. /\ Tail(to) \in Seq(Reqs) /\ r \in Reqs /\ 1 \in DOMAIN to /\ to[1] = r
      /\ \A i \in DOMAIN Tail(to) : i + 1 \in DOMAIN to /\ Tail(to)[i] = to[i + 1] /\ i + 1 # 1
  BY <1>2, <1>3, TailPlaces DEF r
<1>5. At(p, "to", 1, r) /\ lock[p] /\ msg[p] \in {r, NoReq}
  BY <1>1, <1>4, ZenonT(40) DEF At, OneMessage, to
<1>6. DOMAIN Tail(to) = {}
  <2>1. ASSUME NEW i \in DOMAIN Tail(to)
        PROVE  FALSE
    <3>1. to[i + 1] \in Reqs
      BY <1>3, <1>4
    <3>2. At(p, "to", i + 1, to[i + 1])
      BY <1>4 DEF At, to
    <3> QED
      BY <1>1, <1>4, <1>5, <3>1, <3>2 DEF OneMessage
  <2> QED
    BY <2>1
<1>7. /\ Append(from, r) \in Seq(AnyReq) /\ Append(from, r) # <<>>
      /\ \A i \in DOMAIN Append(from, r) :
           \/ i \in DOMAIN from /\ Append(from, r)[i] = from[i]
           \/ i = Len(from) + 1 /\ Append(from, r)[i] = r
  BY <1>3, <1>4, AppendPlaces DEF AnyReq
<1>8. /\ toPlugin' \in [Plugins -> Seq(Reqs)] /\ toPlugin'[p] = Tail(to)
      /\ fromPlugin' \in [Plugins -> Seq(AnyReq)] /\ fromPlugin'[p] = Append(from, r)
      /\ \A m \in Plugins \ {p} : toPlugin'[m] = toPlugin[m] /\ fromPlugin'[m] = fromPlugin[m]
  BY <1>1, <1>2, <1>4, <1>7 DEF ChanType
<1>9. ChanType'
  BY <1>1, <1>2, <1>7, <1>8, PluginAssumption DEF ChanType, AnyPlugin
<1>10. \A m \in Plugins, s \in Reqs : \A x, i :
         At(m, x, i, s)' => \/ At(m, x, i, s) /\ (m = p => x # "to")
                            \/ m = p /\ s = r /\ x = "from" /\ i = Len(from) + 1
  BY <1>2, <1>6, <1>7, <1>8 DEF At, from
<1>11. \A s \in Reqs : \A x, i : At(p, x, i, s)' => s = r /\ x = "from" /\ i = Len(from) + 1
  BY <1>1, <1>4, <1>5, <1>10 DEF OneMessage
<1>12. OneMessage'
  BY <1>1, <1>2, <1>5, <1>10, <1>11 DEF OneMessage
<1>13. ASSUME NEW s \in Reqs
       PROVE  Journey(s)'
  <2>1. Journey(s)
    BY DEF MsgInv
  <2>2. \A m \in Plugins : \A i : At(m, "to", i, s)' \/ At(m, "from", i, s)' =>
          thr[s].pc = "done" /\ thr[s].plugin = m /\ rcv[s].pc = "none"
    BY <1>5, <1>10, <2>1 DEF Journey
  <2> QED
    BY <1>2, <2>1, <2>2 DEF Journey
<1> QED
  BY <1>9, <1>12, <1>13 DEF MsgInv

LEMMA PluginDebugsStep ==
  ASSUME MsgInv, NEW p \in Plugins, PluginDebugs(p)
  PROVE  MsgInv'
<1> DEFINE from == fromPlugin[p]
<1>1. ChanType /\ OneMessage
  BY DEF MsgInv
<1>2. /\ fromPlugin' = [fromPlugin EXCEPT ![p] = Append(from, NoReq)]
      /\ UNCHANGED <<lock, msg, toPlugin, ready, thr, rcv, answered>>
  BY DEF PluginDebugs
<1>3. from \in Seq(AnyReq) /\ NoReq \in AnyReq
  BY <1>1 DEF ChanType, AnyReq
<1> HIDE DEF from
<1>4. /\ Append(from, NoReq) \in Seq(AnyReq) /\ Append(from, NoReq) # <<>>
      /\ \A i \in DOMAIN Append(from, NoReq) :
           \/ i \in DOMAIN from /\ Append(from, NoReq)[i] = from[i]
           \/ Append(from, NoReq)[i] = NoReq
  BY <1>3, AppendPlaces
<1>5. /\ fromPlugin' \in [Plugins -> Seq(AnyReq)] /\ fromPlugin'[p] = Append(from, NoReq)
      /\ \A m \in Plugins \ {p} : fromPlugin'[m] = fromPlugin[m]
  BY <1>1, <1>2, <1>4 DEF ChanType
<1>6. ChanType'
  BY <1>1, <1>2, <1>4, <1>5, PluginAssumption DEF ChanType, AnyPlugin
<1>7. \A m \in Plugins, s \in Reqs : \A x, i : At(m, x, i, s)' => At(m, x, i, s)
  BY <1>2, <1>4, <1>5, PluginAssumption DEF At, from
<1>8. OneMessage'
  BY <1>1, <1>2, <1>7, FewerPlaces
<1>9. ASSUME NEW s \in Reqs
      PROVE  Journey(s)'
  <2>1. Journey(s)
    BY DEF MsgInv
  <2> QED
    BY <1>2, <1>7, <2>1 DEF Journey
<1> QED
  BY <1>6, <1>8, <1>9 DEF MsgInv

LEMMA CheckStep ==
  ASSUME MsgInv, check
  PROVE  MsgInv'
<1>1. ChanType /\ OneMessage
  BY DEF MsgInv
<1>2. UNCHANGED <<lock, msg, toPlugin, fromPlugin, thr, rcv, answered>>
  BY DEF check
<1>3. ChanType'
  BY <1>1, <1>2 DEF ChanType, check, AnyPlugin
<1>4. \A m \in Plugins, s \in Reqs : \A x, i : At(m, x, i, s)' => At(m, x, i, s)
  BY <1>2 DEF At
<1>5. OneMessage'
  BY <1>1, <1>2, <1>4, FewerPlaces
<1>6. ASSUME NEW s \in Reqs
      PROVE  Journey(s)'
  <2>1. Journey(s)
    BY DEF MsgInv
  <2> QED
    BY <1>2, <1>4, <2>1 DEF Journey
<1> QED
  BY <1>3, <1>5, <1>6 DEF MsgInv

\* The ring loses its first entry: a debug text, or the answer to the one message that is
\* under way, which its thread has now.
LEMMA ReadStep ==
  ASSUME MsgInv, readmsg
  PROVE  MsgInv'
<1>1. ChanType /\ OneMessage /\ ready \in Plugins
  BY DEF MsgInv, ChanType, readmsg, AnyPlugin
<1>2. PICK p \in Plugins : p = ready
  BY <1>1
<1>3. PICK from \in Seq(AnyReq) : from = fromPlugin[p] /\ from # <<>>
  BY <1>1, <1>2, PluginAssumption DEF ChanType
<1>4. PICK text \in AnyReq : text = Head(from)
  BY <1>3, TailPlaces
<1>5. /\ ready' = BadPlugin
      /\ fromPlugin' = [fromPlugin EXCEPT ![p] = Tail(from)]
      /\ UNCHANGED <<lock, msg, toPlugin, thr, answered>>
      /\ IF text = NoReq THEN UNCHANGED rcv
         ELSE rcv' = [rcv EXCEPT ![text] = [pc |-> "rsp", plugin |-> p, orig |-> NoReq]]
  BY <1>2, <1>3, <1>4 DEF readmsg, plugin_debug_msg
<1>6. /\ Tail(from) \in Seq(AnyReq) /\ 1 \in DOMAIN from /\ from[1] = text
      /\ \A i \in DOMAIN Tail(from) :
           /\ i + 1 \in DOMAIN from /\ Tail(from)[i] = from[i + 1] /\ i + 1 # 1 /\ i \in Nat
  BY <1>3, <1>4, TailPlaces
<1>7. /\ fromPlugin' \in [Plugins -> Seq(AnyReq)] /\ fromPlugin'[p] = Tail(from)
      /\ \A m \in Plugins \ {p} : fromPlugin'[m] = fromPlugin[m]
  BY <1>1, <1>5, <1>6 DEF ChanType
<1>8. CASE text = NoReq
  <2>1. UNCHANGED rcv
    BY <1>5, <1>8
  <2>2. ChanType'
    BY <1>1, <1>5, <1>7, <2>1 DEF ChanType, AnyPlugin
  <2>3. \A m \in Plugins \ {p}, s \in Reqs : \A x, i : At(m, x, i, s)' => At(m, x, i, s)
    BY <1>5, <1>7, <2>1 DEF At
  <2>4. \A s \in Reqs : \A x, i : At(p, x, i, s)' =>
          IF x = "from" THEN i \in Nat /\ At(p, "from", i + 1, s) ELSE At(p, x, i, s)
    BY <1>3, <1>5, <1>6, <1>7, <2>1 DEF At
  <2>5. OneMessage'
    <3>1. ASSUME NEW m \in Plugins, NEW r \in Reqs, NEW x, NEW i, At(m, x, i, r)'
          PROVE  /\ lock'[m] /\ msg'[m] \in {r, NoReq}
                 /\ \A s \in Reqs : \A y, j : At(m, y, j, s)' => s = r /\ y = x /\ j = i
      <4>1. CASE m # p
        BY <1>1, <1>5, <2>3, <3>1, <4>1 DEF OneMessage
      <4>2. CASE m = p
        <5>1. PICK k : At(p, x, k, r) /\ (IF x = "from" THEN i \in Nat /\ k = i + 1 ELSE k = i)
          BY <2>4, <3>1, <4>2
        <5>2. ASSUME NEW s \in Reqs, NEW y, NEW j, At(m, y, j, s)'
              PROVE  s = r /\ y = x /\ j = i
          <6>1. PICK l : At(p, y, l, s) /\ (IF y = "from" THEN j \in Nat /\ l = j + 1 ELSE l = j)
            BY <2>4, <4>2, <5>2
          <6>2. s = r /\ y = x /\ l = k
            BY <1>1, <5>1, <6>1 DEF OneMessage
          <6> QED
            BY <5>1, <6>1, <6>2
        <5>3. lock[p] /\ msg[p] \in {r, NoReq}
          BY <1>1, <5>1 DEF OneMessage
        <5> QED
          BY <1>5, <4>2, <5>2, <5>3
      <4> QED
        BY <4>1, <4>2
    <3> QED
      BY <3>1 DEF OneMessage
  <2>6. ASSUME NEW s \in Reqs
        PROVE  Journey(s)'
    <3>1. Journey(s)
      BY DEF MsgInv
    <3>2. \A m \in Plugins : \A i : At(m, "to", i, s)' \/ At(m, "from", i, s)' =>
            thr[s].pc = "done" /\ thr[s].plugin = m /\ rcv[s].pc = "none"
      BY <2>3, <2>4, <3>1 DEF Journey
    <3> QED
      BY <1>5, <2>1, <3>1, <3>2 DEF Journey
  <2> QED
    BY <2>2, <2>5, <2>6 DEF MsgInv
<1>9. CASE text # NoReq
  <2>1. text \in Reqs /\ At(p, "from", 1, text)
    BY <1>3, <1>4, <1>6, <1>9 DEF AnyReq, At
  <2>2. lock[p] /\ msg[p] \in {text, NoReq}
    BY <1>1, <2>1 DEF OneMessage
  <2>3. thr[text].pc = "done" /\ thr[text].plugin = p /\ rcv[text].pc = "none" /\ Journey(text)
    BY <2>1 DEF MsgInv, Journey
  <2>4. /\ rcv' \in [Reqs -> RcvType]
        /\ rcv'[text] = [pc |-> "rsp", plugin |-> p, orig |-> NoReq]
        /\ \A s \in Reqs \ {text} : rcv'[s] = rcv[s]
    <3> DEFINE k == [pc |-> "rsp", plugin |-> p, orig |-> NoReq]
    <3>1. k \in RcvType
      BY DEF RcvType, AnyPlugin, AnyReq
    <3> HIDE DEF k
    <3>2. rcv \in [Reqs -> RcvType] /\ rcv' = [rcv EXCEPT ![text] = k]
      BY <1>1, <1>5, <1>9 DEF ChanType, k
    <3>3. rcv' \in [Reqs -> RcvType] /\ rcv'[text] = k /\ \A s \in Reqs \ {text} : rcv'[s] = rcv[s]
      BY <2>1, <3>1, <3>2
    <3> QED
      BY <3>3 DEF k
  <2>5. ChanType'
    BY <1>1, <1>5, <1>7, <2>4 DEF ChanType, AnyPlugin
  <2>6. \A s \in Reqs : \A x, i : At(p, x, i, s) => s = text /\ x = "from" /\ i = 1
    BY <1>1, <2>1 DEF OneMessage
  <2>7. \A s \in Reqs : \A i : ~At(p, "from", i, s)'
    <3>1. ASSUME NEW s \in Reqs, NEW i, At(p, "from", i, s)'
          PROVE  FALSE
      <4>1. i \in DOMAIN Tail(from) /\ Tail(from)[i] = s
        BY <1>7, <3>1 DEF At
      <4>2. At(p, "from", i + 1, s) /\ i + 1 # 1
        BY <1>3, <1>6, <4>1 DEF At
      <4> QED
        BY <2>6, <4>2
    <3> QED
      BY <3>1
  <2>8. \A s \in Reqs : \A x, i : At(p, x, i, s)' => s = text /\ x = "rsp" /\ i = 0
    <3>1. ASSUME NEW s \in Reqs, NEW x, NEW i, At(p, x, i, s)', ~(s = text /\ x = "rsp")
          PROVE  FALSE
      <4>1. x # "from"
        BY <2>7, <3>1
      <4>2. At(p, x, i, s)
        BY <1>5, <2>4, <3>1, <4>1 DEF At
      <4> QED
        BY <2>6, <4>1, <4>2
    <3>2. \A s \in Reqs : \A i : At(p, "rsp", i, s)' => i = 0
      BY DEF At
    <3> QED
      BY <3>1, <3>2
  <2>9. \A m \in Plugins \ {p}, s \in Reqs : \A x, i : At(m, x, i, s)' => At(m, x, i, s)
    BY <1>5, <1>7, <2>4 DEF At
  <2>10. OneMessage'
    <3>1. ASSUME NEW m \in Plugins, NEW r \in Reqs, NEW x, NEW i, At(m, x, i, r)'
          PROVE  /\ lock'[m] /\ msg'[m] \in {r, NoReq}
                 /\ \A s \in Reqs : \A y, j : At(m, y, j, s)' => s = r /\ y = x /\ j = i
      <4>1. CASE m # p
        BY <1>1, <1>5, <2>9, <3>1, <4>1 DEF OneMessage
      <4>2. CASE m = p
        BY <1>5, <2>2, <2>8, <3>1, <4>2
      <4> QED
        BY <4>1, <4>2
    <3> QED
      BY <3>1 DEF OneMessage
  <2>11. ASSUME NEW s \in Reqs
         PROVE  Journey(s)'
    <3>1. CASE s = text
      <4>1. \A m \in Plugins : \A i : ~At(m, "to", i, s)' /\ ~At(m, "from", i, s)'
        BY <2>3, <2>8, <2>9, <3>1 DEF Journey
      <4> QED
        BY <1>5, <2>3, <2>4, <3>1, <4>1, PluginAssumption DEF Journey
    <3>2. CASE s # text
      <4>1. Journey(s)
        BY DEF MsgInv
      <4>2. \A m \in Plugins : \A i : At(m, "to", i, s)' \/ At(m, "from", i, s)' =>
              At(m, "to", i, s) \/ At(m, "from", i, s)
        BY <2>8, <2>9
      <4> QED
        BY <1>5, <2>4, <3>2, <4>1, <4>2 DEF Journey
    <3> QED
      BY <3>1, <3>2
  <2> QED
    BY <2>5, <2>10, <2>11 DEF MsgInv
<1> QED
  BY <1>8, <1>9

\* The thread of the answer takes the stored request and releases the lock: nothing else
\* is under way to this plugin.
LEMMA PassStep ==
  ASSUME MsgInv, NEW r \in Reqs, pass_result_to_rli(r)
  PROVE  MsgInv'
<1>1. ChanType /\ OneMessage /\ Journey(r) /\ rcv[r].pc = "rsp"
  BY DEF MsgInv, pass_result_to_rli
<1>2. PICK p \in Plugins : p = rcv[r].plugin /\ p = thr[r].plugin
  BY <1>1 DEF Journey, ChanType, ThrType, AnyPlugin
<1>3. /\ lock' = [lock EXCEPT ![p] = FALSE]
      /\ rcv' = [rcv EXCEPT ![r].pc = "send", ![r].orig = msg[p]]
      /\ UNCHANGED <<msg, toPlugin, fromPlugin, ready, thr, answered>>
  BY <1>2 DEF pass_result_to_rli
<1>4. At(p, "rsp", 0, r)
  BY <1>1, <1>2 DEF At
<1>5. msg[p] \in {r, NoReq} /\ \A s \in Reqs : \A x, i : At(p, x, i, s) => s = r /\ x = "rsp"
  BY <1>1, <1>4 DEF OneMessage
<1>6. /\ rcv' \in [Reqs -> RcvType]
      /\ rcv'[r].pc = "send" /\ rcv'[r].plugin = p /\ rcv'[r].orig = msg[p]
      /\ \A s \in Reqs \ {r} : rcv'[s] = rcv[s]
  <2>1. rcv \in [Reqs -> RcvType] /\ msg[p] \in AnyReq
    BY <1>1 DEF ChanType
  <2> DEFINE k == [rcv[r] EXCEPT !.pc = "send", !.orig = msg[p]]
  <2>2. k \in RcvType /\ k.pc = "send" /\ k.plugin = p /\ k.orig = msg[p]
    BY <1>2, <2>1 DEF RcvType
  <2>3. rcv' = [rcv EXCEPT ![r] = k]
    BY <1>3, <2>1
  <2> HIDE DEF k
  <2> QED
    BY <2>1, <2>2, <2>3
<1>7. lock' \in [Plugins -> BOOLEAN] /\ \A m \in Plugins \ {p} : lock'[m] = lock[m]
  BY <1>1, <1>3 DEF ChanType
<1>8. ChanType'
  BY <1>1, <1>3, <1>6, <1>7 DEF ChanType
<1>9. \A m \in Plugins, s \in Reqs : \A x, i :
        At(m, x, i, s)' => At(m, x, i, s) /\ ~(s = r /\ x = "rsp")
  BY <1>3, <1>6 DEF At
<1>10. \A m \in Plugins, s \in Reqs : \A x, i : At(m, x, i, s)' => m # p
  BY <1>5, <1>9
<1>11. OneMessage'
  BY <1>1, <1>3, <1>7, <1>9, <1>10, FewerPlaces
<1>12. Journey(r)'
  <2>1. \A m \in Plugins : \A i : ~At(m, "to", i, r)' /\ ~At(m, "from", i, r)'
    BY <1>1, <1>9 DEF Journey
  <2> QED
    BY <1>1, <1>2, <1>3, <1>5, <1>6, <2>1 DEF Journey
<1>13. \A s \in Reqs : Journey(s)'
  BY <1>3, <1>6, <1>8, <1>12, OwnStep
<1> QED
  BY <1>8, <1>11, <1>13 DEF MsgInv

\* The answer goes to the stored request, which is the one it belongs to.
LEMMA RespondStep ==
  ASSUME MsgInv, NEW r \in Reqs, send_plugin_response(r)
  PROVE  MsgInv'
<1>1. /\ ChanType /\ OneMessage /\ Journey(r) /\ rcv[r].pc = "send"
      /\ UNCHANGED <<lock, msg, toPlugin, fromPlugin, ready, thr>>
  BY DEF MsgInv, send_plugin_response
<1>2. /\ rcv[r].orig \in {r, NoReq} /\ answered[r] = <<>> /\ DOMAIN answered = Reqs
      /\ thr[r].plugin # BadPlugin /\ rcv[r].plugin = thr[r].plugin /\ thr[r].pc = "done"
  BY <1>1 DEF Journey, ChanType
<1>3. PICK a \in {"done", "clear"} : rcv' = [rcv EXCEPT ![r].pc = a]
  BY DEF send_plugin_response
<1>4. /\ rcv' \in [Reqs -> RcvType] /\ rcv'[r].pc = a
      /\ rcv'[r].plugin = rcv[r].plugin /\ rcv'[r].orig = rcv[r].orig
      /\ \A s \in Reqs \ {r} : rcv'[s] = rcv[s]
  <2>1. rcv \in [Reqs -> RcvType]
    BY <1>1 DEF ChanType
  <2> QED
    BY <1>3, <2>1 DEF RcvType
<1>5. /\ DOMAIN answered' = Reqs /\ \A s \in Reqs \ {r} : answered'[s] = answered[s]
      /\ answered'[r] = IF rcv[r].orig = r THEN <<r>> ELSE <<>>
  <2>1. CASE rcv[r].orig = NoReq
    BY <1>2, <2>1, PluginAssumption DEF send_plugin_response
  <2>2. CASE rcv[r].orig # NoReq
    <3>1. answered' = [answered EXCEPT ![r] = Append(<<>>, r)] /\ rcv[r].orig = r
      BY <1>2, <2>2 DEF send_plugin_response
    <3>2. Append(<<>>, r) = <<r>>
      OBVIOUS
    <3> QED
      BY <1>2, <3>1, <3>2
  <2> QED
    BY <2>1, <2>2
<1>6. ChanType'
  BY <1>1, <1>4, <1>5 DEF ChanType
<1>7. \A m \in Plugins, s \in Reqs : \A x, i : At(m, x, i, s)' => At(m, x, i, s)
  BY <1>1, <1>4 DEF At
<1>8. OneMessage'
  BY <1>1, <1>7, FewerPlaces
<1>9. Journey(r)'
  <2>1. \A m \in Plugins : \A i : ~At(m, "to", i, r)' /\ ~At(m, "from", i, r)'
    BY <1>1, <1>7 DEF Journey
  <2> QED
    BY <1>1, <1>2, <1>4, <1>5, <2>1 DEF Journey
<1>10. \A s \in Reqs : Journey(s)'
  BY <1>1, <1>4, <1>5, <1>6, <1>9, OwnStep
<1> QED
  BY <1>6, <1>8, <1>10 DEF MsgInv

LEMMA ClearStep ==
  ASSUME MsgInv, NEW r \in Reqs, ClearMsg(r)
  PROVE  MsgInv'
<1>1. /\ ChanType /\ OneMessage /\ Journey(r) /\ rcv[r].pc = "clear"
      /\ msg' = [msg EXCEPT ![rcv[r].plugin] = NoReq]
      /\ rcv' = [rcv EXCEPT ![r].pc = "done"]
      /\ UNCHANGED <<lock, toPlugin, fromPlugin, ready, thr, answered>>
  BY DEF MsgInv, ClearMsg
<1>2. /\ rcv' \in [Reqs -> RcvType] /\ rcv'[r].pc = "done"
      /\ rcv'[r].plugin = rcv[r].plugin /\ rcv'[r].orig = rcv[r].orig
      /\ \A s \in Reqs \ {r} : rcv'[s] = rcv[s]
  <2>1. rcv \in [Reqs -> RcvType]
    BY <1>1 DEF ChanType
  <2> QED
    BY <1>1, <2>1 DEF RcvType
<1>3. msg' \in [Plugins -> AnyReq] /\ \A p \in Plugins : msg'[p] \in {msg[p], NoReq}
  BY <1>1 DEF ChanType, AnyReq
<1>4. ChanType'
  BY <1>1, <1>2, <1>3 DEF ChanType
<1>5. \A m \in Plugins, s \in Reqs : \A x, i : At(m, x, i, s)' => At(m, x, i, s)
  BY <1>1, <1>2 DEF At
<1>6. OneMessage'
  BY <1>1, <1>3, <1>5, FewerPlaces
<1>7. Journey(r)'
  <2>1. \A m \in Plugins : \A i : ~At(m, "to", i, r)' /\ ~At(m, "from", i, r)'
    BY <1>1, <1>5 DEF Journey
  <2> QED
    BY <1>1, <1>2, <2>1 DEF Journey
<1>8. \A s \in Reqs : Journey(s)'
  BY <1>1, <1>2, <1>4, <1>7, OwnStep
<1> QED
  BY <1>4, <1>6, <1>8 DEF MsgInv

-----------------------------------------------------------------------------
LEMMA MsgNext == MsgInv /\ [Next]_vars => MsgInv'
<1> SUFFICES ASSUME MsgInv, [Next]_vars PROVE MsgInv'
  OBVIOUS
<1>1. CASE UNCHANGED vars
  <2>1. ChanType' /\ OneMessage'
    BY <1>1 DEF MsgInv, vars, ChanType, OneMessage, At
  <2>2. \A p \in Plugins, r \in Reqs : \A x, i : At(p, x, i, r)' => At(p, x, i, r)
    BY <1>1 DEF vars, At
  <2>3. ASSUME NEW r \in Reqs
        PROVE  Journey(r)'
    <3>1. Journey(r)
      BY DEF MsgInv
    <3> QED
      BY <1>1, <2>2, <3>1 DEF vars, Journey
  <2> QED
    BY <2>1, <2>3 DEF MsgInv
<1>2. ASSUME NEW r \in Reqs, Step(r)
      PROVE  MsgInv'
  BY <1>2, SendStep, WriteStep, PassStep, RespondStep, ClearStep DEF Step
<1> QED
  BY <1>1, <1>2, RequestStep, CheckStep, ReadStep, PluginAnswersStep, PluginDebugsStep DEF Next

\* At most one message is outstanding, and a control message is answered at most once,
\* with its own answer.
LEMMA MsgImplies == MsgInv => AnswersMatchMessages
<1> SUFFICES ASSUME MsgInv PROVE AnswersMatchMessages
  OBVIOUS
<1>1. ASSUME NEW p \in Plugins
      PROVE  Cardinality(Outstanding(p)) <= 1
  <2>1. \A r \in Outstanding(p) : r \in Reqs /\ \E x, i : At(p, x, i, r)
    <3>1. ASSUME NEW r \in Outstanding(p)
          PROVE  r \in Reqs /\ \E x, i : At(p, x, i, r)
      <4>1. r \in Reqs
        BY DEF Outstanding
      <4>2. CASE \E i \in DOMAIN toPlugin[p] : toPlugin[p][i] = r
        BY <4>1, <4>2 DEF At
      <4>3. CASE \E i \in DOMAIN fromPlugin[p] : fromPlugin[p][i] = r
        BY <4>1, <4>3 DEF At
      <4>4. CASE rcv[r].pc = "rsp" /\ rcv[r].plugin = p
        <5>1. At(p, "rsp", 0, r)
          BY <4>4 DEF At
        <5> QED
          BY <4>1, <5>1
      <4> QED
        BY <4>2, <4>3, <4>4 DEF Outstanding
    <3> QED
      BY <3>1
  <2>2. \A r, s \in Outstanding(p) : r = s
    BY <2>1 DEF MsgInv, OneMessage
  <2>3. CASE Outstanding(p) = {}
    BY <2>3, FS_EmptySet
  <2>4. ASSUME NEW r \in Outstanding(p)
        PROVE  Cardinality(Outstanding(p)) <= 1
    <3>1. Outstanding(p) = {r}
      BY <2>2
    <3> QED
      BY <3>1, FS_Singleton
  <2> QED
    BY <2>3, <2>4
<1>2. ASSUME NEW r \in Reqs, thr[r].plugin # BadPlugin
      PROVE  Len(answered[r]) <= 1 /\ \A i \in DOMAIN answered[r] : answered[r][i] = r
  <2>1. answered[r] \in {<<>>, <<r>>}
    BY <1>2 DEF MsgInv, Journey
  <2>2. CASE answered[r] = <<>>
    BY <2>2
  <2>3. CASE answered[r] = <<r>>
    BY <2>3
  <2> QED
    BY <2>1, <2>2, <2>3
<1> QED
  BY <1>1, <1>2 DEF AnswersMatchMessages

\* "only one outstanding message to each plugin is allowed at any one time"
\* (send_msg_to_plugin), and the answer of a plugin reaches the request that sent the
\* message and only it, although plugin<p>_msg is cleared after the lock is released.
THEOREM AnswersCorrect == Spec => []AnswersMatchMessages
  BY MsgInit, MsgNext, MsgImplies, PTL DEF Spec

-----------------------------------------------------------------------------
(* The tables: the invariant.                                              *)

Databases == {"route", "pfilter", "afilter", "arp"}
SlotList == <<"sram", 0>>
Db(d) == dbs[Npu][d]

\* A free list: ranges in ascending order.
Sorted(s) ==
  /\ \A i \in DOMAIN s : s[i][1] <= s[i][2]
  /\ \A i, j \in DOMAIN s : i < j => s[i][2] < s[j][1]

Held(l, x) == Tb!Holds(free[l], x)
FreeSlot(a) == Held(SlotList, a)
FreeIndex(d, x) == \E l \in Tb!Lists : Tb!DbOf(l) = d /\ Held(l, x)

FreeInv ==
  /\ free \in [Tb!Lists -> Seq(Nat \X Nat)]
  /\ \A l \in Tb!Lists : Sorted(free[l])
  /\ \A l, m \in Tb!Lists : \A x \in Nat :
       Tb!DbOf(l) = Tb!DbOf(m) /\ Held(l, x) /\ Held(m, x) => l = m
  /\ \A a \in Nat : FreeSlot(a) => a \in Tb!Results

TabThread ==
  [pc : {"idle", "alloc", "result", "tcam", "query", "read", "remove", "free", "update"},
   op : {"none", "add", "del", "update"}, db : Databases, key : Int, len : Int,
   list : Tb!Lists, index : Nat, addr : Nat]
TabEntry == [key : Int, len : Int, addr : Tb!Results]
TcamDb == UNION {[D -> TabEntry] : D \in SUBSET Nat}
Word == [of : {<<>>} \cup (Databases \X Int \X Int), index : Nat]

TabTypes ==
  /\ rthr \in [Tb!Threads -> TabThread]
  /\ sram \in [Tb!Results -> Word]
  /\ srmap \in [Tb!Results -> Nat]
  /\ todo \in Seq(Nat)
  /\ router \in {"STOP", "INIT", "START", "EXIT"}
  /\ conn \in [Npus -> BOOLEAN]
  /\ dbs \in [Npus -> [Databases -> TcamDb]]

\* What a thread at a place is about.
Placed(r) ==
  /\ r.op = "add" <=> r.pc \in {"alloc", "result", "tcam"}
  /\ r.op = "del" => r.pc \in {"query", "read", "remove", "free"} /\ r.db # "arp"
  /\ r.pc \in {"read", "remove", "free"} => r.op = "del"
  /\ r.op = "update" => r.pc \in {"query", "update"} /\ r.db = "arp"
  /\ r.pc = "update" => r.op = "update"
  /\ r.pc = "query" => r.op \in {"del", "update"}
  /\ r.op = "add" => Tb!DbOf(r.list) = r.db
  /\ r.op = "add" /\ r.db = "arp" => r.len = MaxPrefix
  /\ r.pc \in {"read", "update"} => r.addr \in Tb!Results

\* An entry leads to its own result, and nothing of it is free.
EntryOk(d, i) ==
  LET e == Db(d)[i]
  IN  /\ sram[e.addr] = [of |-> <<d, e.key, e.len>>, index |-> i]
      /\ ~FreeSlot(e.addr) /\ ~FreeIndex(d, i)
      /\ d = "arp" => e.len = MaxPrefix

EntryInv == \A d \in Databases : \A i \in DOMAIN Db(d) : EntryOk(d, i)

\* A thread has a slot and an index; they are neither free nor those of an entry, and
\* no other thread has them.
Has(r) == r.pc \in {"result", "tcam", "free"}

TakenOk(r) ==
  /\ r.addr \in Tb!Results
  /\ ~FreeSlot(r.addr) /\ ~FreeIndex(r.db, r.index)
  /\ r.index \notin DOMAIN Db(r.db)
  /\ \A d \in Databases : \A i \in DOMAIN Db(d) : Db(d)[i].addr # r.addr

TakenInv == \A t \in Tb!Threads : Has(rthr[t]) => TakenOk(rthr[t])

Apart(q, r) == q.addr # r.addr /\ ~(q.db = r.db /\ q.index = r.index)

ApartInv ==
  \A t, u \in Tb!Threads :
    t # u /\ Has(rthr[t]) /\ Has(rthr[u]) => Apart(rthr[t], rthr[u])

\* What a thread relies on while others work: the result it has written, the entry it
\* has found.
Relies(r) ==
  /\ r.pc = "tcam" => sram[r.addr] = Tb!ResultOf(r)
  /\ r.pc = "read" => \E i \in DOMAIN Db(r.db) : Db(r.db)[i].addr = r.addr
  /\ r.pc = "remove" => r.index \in DOMAIN Db(r.db) /\ Db(r.db)[r.index].addr = r.addr
  /\ r.pc = "update" => \E i \in DOMAIN Db("arp") :
                          Db("arp")[i].addr = r.addr /\ Db("arp")[i].key = r.key

MapInv == \A a \in Tb!Results : srmap[a] <= 1 /\ (srmap[a] = 1 => ~FreeSlot(a))

\* A slot is free, or an entry or a thread has it.
Somewhere(a) ==
  \/ FreeSlot(a)
  \/ \E d \in Databases : \E i \in DOMAIN Db(d) : Db(d)[i].addr = a
  \/ \E t \in Tb!Threads : Has(rthr[t]) /\ rthr[t].addr = a

SlotInv ==
  router \in {"INIT", "START"} /\ ~lost /\ conn[Npu] => \A a \in Tb!Results : Somewhere(a)

StartInv ==
  /\ router = "STOP" =>
       /\ \A d \in Databases : DOMAIN Db(d) = {}
       /\ rthr = [t \in Tb!Threads |-> Tb!Idle]
       /\ \A a \in Tb!Results : srmap[a] = 0
  /\ ~conn[Npu] => \A d \in Databases : DOMAIN Db(d) = {}

OneDelete ==
  kind = "tables" =>
    \A t, u \in Tb!Threads : rthr[t].op = "del" /\ rthr[u].op = "del" => t = u

TabInv ==
  /\ FreeInv /\ TabTypes
  /\ \A t \in Tb!Threads : Placed(rthr[t])
  /\ EntryInv /\ TakenInv /\ ApartInv
  /\ conn[Npu] => \A t \in Tb!Threads : Relies(rthr[t])
  /\ MapInv /\ SlotInv /\ StartInv

-----------------------------------------------------------------------------
\* A set of numbers has a least one.
LEMMA LeastElement ==
  ASSUME NEW S \in SUBSET Nat, S # {}
  PROVE  \E n \in S : \A m \in S : n <= m
<1> DEFINE R == OpToRel(<, Nat)
<1>1. \E n \in S : \A m \in S : ~(<<m, n>> \in R)
  BY NatLessThanWellFounded, WFMin
<1>2. PICK n \in S : \A m \in S : ~(<<m, n>> \in R)
  BY <1>1
<1>3. ASSUME NEW m \in S
      PROVE  n <= m
  <2>1. <<m, n>> \in Nat \X Nat /\ <<m, n>>[1] = m /\ <<m, n>>[2] = n
    OBVIOUS
  <2>2. ~(m < n)
    BY <1>2, <2>1 DEF OpToRel
  <2> QED
    BY <2>2
<1> QED
  BY <1>3

\* What the elements of a list are.
LEMMA Ranges ==
  ASSUME NEW s \in Seq(Nat \X Nat)
  PROVE  /\ Len(s) \in Nat /\ DOMAIN s = 1..Len(s)
         /\ \A i \in 1..Len(s) : s[i] = <<s[i][1], s[i][2]>> /\ s[i][1] \in Nat /\ s[i][2] \in Nat
OBVIOUS

\* Holds, for citing without its definition.
LEMMA HoldsIs ==
  ASSUME NEW s, NEW x
  PROVE  Tb!Holds(s, x) <=> \E i \in DOMAIN s : x \in s[i][1]..s[i][2]
BY DEF Tb!Holds

\* get_free_index takes the first index of the first range.
LEMMA TakeIndex ==
  ASSUME NEW s \in Seq(Nat \X Nat), Sorted(s), s # <<>>,
         NEW g, g = Tb!get_free_index(s)
  PROVE  /\ g.index \in Nat /\ g.list \in Seq(Nat \X Nat) /\ Sorted(g.list)
         /\ Tb!Holds(s, g.index)
         /\ \A x \in Nat : Tb!Holds(g.list, x) <=> (Tb!Holds(s, x) /\ x # g.index)
<1>1. /\ Len(s) \in Nat /\ Len(s) >= 1 /\ DOMAIN s = 1..Len(s)
      /\ \A i \in 1..Len(s) : s[i] = <<s[i][1], s[i][2]>> /\ s[i][1] \in Nat /\ s[i][2] \in Nat
  BY Ranges
<1>2. /\ g.index = s[1][1]
      /\ g.list = IF s[1][1] # s[1][2] THEN [s EXCEPT ![1][1] = @ + 1] ELSE Tail(s)
  BY DEF Tb!get_free_index
<1>3. /\ \A i \in 1..Len(s) : s[i][1] <= s[i][2]
      /\ \A i, j \in 1..Len(s) : i < j => s[i][2] < s[j][1]
  BY <1>1 DEF Sorted
<1>4. Tb!Holds(s, g.index)
  <2>1. 1 \in DOMAIN s /\ g.index \in s[1][1]..s[1][2]
    BY <1>1, <1>2, <1>3, SMTT(30)
  <2> QED
    BY <2>1, HoldsIs
<1>5. CASE s[1][1] = s[1][2]
  <2> DEFINE t == Tail(s)
  <2>1. g.list = t
    BY <1>2, <1>5
  <2>2. /\ t \in Seq(Nat \X Nat) /\ Len(t) = Len(s) - 1 /\ DOMAIN t = 1..(Len(s) - 1)
        /\ \A i \in 1..(Len(s) - 1) : t[i] = s[i + 1]
    BY <1>1
  <2> HIDE DEF t
  <2>3. Sorted(t)
    <3>1. \A i \in 1..(Len(s) - 1) : i + 1 \in 1..Len(s)
      BY <1>1, SMTT(30)
    <3>2. \A i \in DOMAIN t : t[i][1] <= t[i][2]
      BY <1>3, <2>2, <3>1
    <3>3. ASSUME NEW i \in DOMAIN t, NEW j \in DOMAIN t, i < j
          PROVE  t[i][2] < t[j][1]
      <4>0. i \in 1..(Len(s) - 1) /\ j \in 1..(Len(s) - 1)
        BY <2>2
      <4>a. i + 1 \in 1..Len(s) /\ j + 1 \in 1..Len(s)
        BY <3>1, <4>0
      <4>b. i \in Nat /\ j \in Nat
        BY <1>1, <4>0, SMTT(30)
      <4>1. i + 1 < j + 1 /\ i + 1 \in 1..Len(s) /\ j + 1 \in 1..Len(s)
        BY <3>3, <4>a, <4>b
      <4>2. t[i] = s[i + 1] /\ t[j] = s[j + 1]
        BY <2>2, <3>3
      <4> QED
        BY <1>3, <4>1, <4>2
    <3> QED
      BY <3>2, <3>3 DEF Sorted
  <2>4. ASSUME NEW x \in Nat, Tb!Holds(t, x)
        PROVE  Tb!Holds(s, x) /\ x # g.index
    <3>1. PICK i \in 1..(Len(s) - 1) : x \in s[i + 1][1]..s[i + 1][2]
      BY <2>2, <2>4, HoldsIs
    <3>2. i + 1 \in 1..Len(s) /\ 1 < i + 1
      BY <1>1
    <3>3. s[1][2] < s[i + 1][1]
      BY <1>1, <1>3, <3>2
    <3> QED
      BY <1>1, <1>2, <1>5, <3>1, <3>2, <3>3, HoldsIs, SMTT(30)
  <2>5. ASSUME NEW x \in Nat, Tb!Holds(s, x), x # g.index
        PROVE  Tb!Holds(t, x)
    <3>1. PICK i \in 1..Len(s) : x \in s[i][1]..s[i][2]
      BY <1>1, <2>5, HoldsIs
    <3>2. i # 1
      BY <1>1, <1>2, <1>5, <2>5, <3>1
    <3>3. i - 1 \in 1..(Len(s) - 1) /\ (i - 1) + 1 = i
      BY <1>1, <3>1, <3>2
    <3>4. t[i - 1] = s[i]
      BY <2>2, <3>3
    <3> QED
      BY <2>2, <3>1, <3>3, <3>4, HoldsIs
  <2>6. \A x \in Nat : Tb!Holds(t, x) <=> (Tb!Holds(s, x) /\ x # g.index)
    BY <2>4, <2>5
  <2>7. g.index \in Nat
    BY <1>1, <1>2
  <2> QED
    BY <1>4, <2>1, <2>2, <2>3, <2>6, <2>7
<1>6. CASE s[1][1] # s[1][2]
  <2> DEFINE p == [s[1] EXCEPT ![1] = s[1][1] + 1]
             t == [s EXCEPT ![1] = p]
  <2>1. g.list = t
    BY <1>2, <1>6
  <2>2. p = <<s[1][1] + 1, s[1][2]>> /\ p \in Nat \X Nat
    <3>1. s[1] \in Nat \X Nat
      BY <1>1
    <3>2. \A q \in Nat \X Nat, n \in Nat : [q EXCEPT ![1] = n] = <<n, q[2]>>
      OBVIOUS
    <3> QED
      BY <1>1, <3>1, <3>2
  <2>3. p[1] = s[1][1] + 1 /\ p[2] = s[1][2]
    BY <2>2
  <2> HIDE DEF p
  <2>4. /\ t \in Seq(Nat \X Nat) /\ DOMAIN t = 1..Len(s) /\ t[1] = p
        /\ \A i \in 1..Len(s) : i # 1 => t[i] = s[i]
    BY <1>1, <2>2
  <2> HIDE DEF t
  <2>5. Sorted(t)
    <3>1. \A i \in 1..Len(s) : t[i][1] \in Nat /\ t[i][2] = s[i][2] /\ s[i][1] <= t[i][1] /\ t[i][1] <= t[i][2]
      <4>1. s[1][1] + 1 <= s[1][2] /\ t[1][1] = s[1][1] + 1 /\ t[1][2] = s[1][2]
        BY <1>1, <1>3, <1>6, <2>3, <2>4
      <4>2. \A i \in 1..Len(s) : i # 1 => t[i][1] = s[i][1] /\ t[i][2] = s[i][2]
        BY <2>4
      <4> QED
        BY <1>1, <1>3, <4>1, <4>2
    <3>2. ASSUME NEW i \in DOMAIN t, NEW j \in DOMAIN t, i < j
          PROVE  t[i][2] < t[j][1]
      BY <1>1, <1>3, <2>4, <3>1, <3>2
    <3> QED
      BY <2>4, <3>1, <3>2 DEF Sorted
  <2>6. ASSUME NEW x \in Nat, Tb!Holds(t, x)
        PROVE  Tb!Holds(s, x) /\ x # g.index
    <3>1. PICK i \in 1..Len(s) : x \in t[i][1]..t[i][2]
      BY <2>4, <2>6, HoldsIs
    <3>2. CASE i = 1
      BY <1>1, <1>2, <2>3, <2>4, <3>1, <3>2, HoldsIs
    <3>3. CASE i # 1
      <4>1. s[1][2] < s[i][1] /\ x \in s[i][1]..s[i][2]
        BY <1>1, <1>3, <2>4, <3>1, <3>3
      <4> QED
        BY <1>1, <1>2, <1>3, <4>1, HoldsIs, SMTT(30)
    <3> QED
      BY <3>2, <3>3
  <2>7. ASSUME NEW x \in Nat, Tb!Holds(s, x), x # g.index
        PROVE  Tb!Holds(t, x)
    <3>1. PICK i \in 1..Len(s) : x \in s[i][1]..s[i][2]
      BY <1>1, <2>7, HoldsIs
    <3>2. x \in t[i][1]..t[i][2]
      <4>1. CASE i = 1
        BY <1>1, <1>2, <2>3, <2>4, <2>7, <3>1, <4>1
      <4>2. CASE i # 1
        BY <2>4, <3>1, <4>2
      <4> QED
        BY <4>1, <4>2
    <3> QED
      BY <2>4, <3>2, HoldsIs
  <2>8. \A x \in Nat : Tb!Holds(t, x) <=> (Tb!Holds(s, x) /\ x # g.index)
    BY <2>6, <2>7
  <2>9. g.index \in Nat
    BY <1>1, <1>2
  <2> QED
    BY <1>4, <2>1, <2>4, <2>5, <2>8, <2>9
<1> QED
  BY <1>5, <1>6

-----------------------------------------------------------------------------
(* The lists of free indices: add_free_index.                              *)

\* The elements of the concatenation of three sequences.
LEMMA Concat ==
  ASSUME NEW T, NEW x \in Seq(T), NEW y \in Seq(T)
  PROVE  /\ x \o y \in Seq(T) /\ Len(x \o y) = Len(x) + Len(y)
         /\ \A i \in 1..Len(x) : (x \o y)[i] = x[i]
         /\ \A i \in 1..Len(y) : (x \o y)[Len(x) + i] = y[i]
<1> DEFINE w == x \o y
<1>1. Len(x) \in Nat /\ Len(y) \in Nat
  OBVIOUS
<1>2. /\ w \in Seq(T) /\ Len(w) = Len(x) + Len(y)
      /\ \A i \in 1..(Len(x) + Len(y)) : w[i] = IF i <= Len(x) THEN x[i] ELSE y[i - Len(x)]
  BY ConcatProperties
<1> HIDE DEF w
<1>3. \A i \in 1..Len(x) : i \in 1..(Len(x) + Len(y)) /\ i <= Len(x)
  BY <1>1
<1>4. \A i \in 1..Len(y) : /\ Len(x) + i \in 1..(Len(x) + Len(y)) /\ ~(Len(x) + i <= Len(x))
                           /\ Len(x) + i - Len(x) = i
  BY <1>1
<1>5. \A i \in 1..Len(x) : w[i] = x[i]
  BY <1>2, <1>3
<1>6. ASSUME NEW i \in 1..Len(y)
      PROVE  w[Len(x) + i] = y[i]
  <2>1. w[Len(x) + i] = IF Len(x) + i <= Len(x) THEN x[Len(x) + i] ELSE y[Len(x) + i - Len(x)]
    BY <1>2, <1>4
  <2> QED
    BY <1>4, <2>1
<1> QED
  BY <1>2, <1>5, <1>6 DEF w

\* The first p of the n ranges of s, the range a..b and the last ones from q on.
Spliced(r, s, n, p, q, a, b) ==
  /\ r \in Seq(Nat \X Nat) /\ DOMAIN r = 1..(p + 1 + (n + 1 - q))
  /\ \A i \in 1..p : r[i] = s[i]
  /\ r[p + 1] = <<a, b>>
  /\ \A i \in 1..(n + 1 - q) : r[p + 1 + i] = s[q - 1 + i]

\* The elements of a spliced list.
LEMMA Splice ==
  ASSUME NEW s \in Seq(Nat \X Nat), NEW n \in Nat, n = Len(s), NEW p \in Nat, NEW q \in Nat,
         p < q, p <= n, q <= n + 1, NEW a \in Nat, NEW b \in Nat
  PROVE  Spliced(SubSeq(s, 1, p) \o <<<<a, b>>>> \o SubSeq(s, q, Len(s)), s, n, p, q, a, b)
<1> DEFINE T == Nat \X Nat
           x == SubSeq(s, 1, p)
           y == <<<<a, b>>>>
           z == SubSeq(s, q, Len(s))
           w == x \o y
           r == w \o z
<1>0. <<a, b>> \in T /\ s \in Seq(T) /\ \A i \in 1..n : s[i] \in T
  OBVIOUS
<1> HIDE DEF T
<1>1. x \in Seq(T) /\ Len(x) = p /\ \A i \in 1..p : x[i] = s[i]
  <2>1. \A i \in 1..p : s[i] \in T
    BY <1>0
  <2>2. /\ x \in Seq(T) /\ Len(x) = IF 1 <= p THEN p - 1 + 1 ELSE 0
        /\ \A i \in 1..(p - 1 + 1) : x[i] = s[1 + i - 1]
    BY <2>1, SubSeqProperties
  <2> HIDE DEF x
  <2>3. \A i \in 1..p : i \in 1..(p - 1 + 1) /\ 1 + i - 1 = i
    OBVIOUS
  <2>4. \A i \in 1..p : x[i] = s[i]
    BY <2>2, <2>3
  <2> QED
    BY <2>2, <2>4
<1>2. y \in Seq(T) /\ Len(y) = 1 /\ y[1] = <<a, b>>
  BY <1>0
<1>3. /\ z \in Seq(T) /\ Len(z) = n + 1 - q
      /\ \A i \in 1..(n + 1 - q) : z[i] = s[q - 1 + i]
  <2>1. \A i \in q..n : s[i] \in T
    BY <1>0
  <2>2. /\ z \in Seq(T) /\ Len(z) = IF q <= n THEN n - q + 1 ELSE 0
        /\ \A i \in 1..(n - q + 1) : z[i] = s[q + i - 1]
    BY <2>1, SubSeqProperties
  <2> HIDE DEF z
  <2>3. \A i \in 1..(n + 1 - q) : i \in 1..(n - q + 1) /\ q + i - 1 = q - 1 + i
    OBVIOUS
  <2>4. \A i \in 1..(n + 1 - q) : z[i] = s[q - 1 + i]
    BY <2>2, <2>3
  <2> QED
    BY <2>2, <2>4
<1>4. /\ w \in Seq(T) /\ Len(w) = p + 1
      /\ \A i \in 1..p : w[i] = s[i]
      /\ w[p + 1] = <<a, b>>
  <2> HIDE DEF x, y
  <2>1. /\ w \in Seq(T) /\ Len(w) = Len(x) + Len(y)
        /\ \A i \in 1..Len(x) : w[i] = x[i]
        /\ \A i \in 1..Len(y) : w[Len(x) + i] = y[i]
    <3>1. x \in Seq(T) /\ y \in Seq(T)
      BY <1>1, <1>2
    <3> QED
      BY <3>1, Concat
  <2> HIDE DEF w
  <2>2. 1 \in 1..Len(y)
    BY <1>2
  <2> QED
    BY <1>1, <1>2, <2>1, <2>2
<1> HIDE DEF x, y, z, w
<1>5. r = w \o z
  OBVIOUS
<1> HIDE DEF r
<1>6. /\ r \in Seq(T) /\ Len(r) = Len(w) + Len(z)
      /\ \A i \in 1..Len(w) : r[i] = w[i]
      /\ \A i \in 1..Len(z) : r[Len(w) + i] = z[i]
  <2>1. w \in Seq(T) /\ z \in Seq(T)
    BY <1>3, <1>4
  <2>2. /\ w \o z \in Seq(T) /\ Len(w \o z) = Len(w) + Len(z)
        /\ \A i \in 1..Len(w) : (w \o z)[i] = w[i]
        /\ \A i \in 1..Len(z) : (w \o z)[Len(w) + i] = z[i]
    BY <2>1, Concat
  <2> QED
    BY <1>5, <2>2
<1>7. Len(r) = p + 1 + (n + 1 - q) /\ DOMAIN r = 1..Len(r)
  BY <1>3, <1>4, <1>6
<1>8. \A i \in 1..p : i \in 1..Len(w)
  BY <1>4
<1>9. p + 1 \in 1..Len(w)
  BY <1>4
<1>10. \A i \in 1..p : r[i] = s[i]
  BY <1>4, <1>6, <1>8
<1>11. r[p + 1] = <<a, b>>
  BY <1>4, <1>6, <1>9
<1>12. \A i \in 1..(n + 1 - q) : r[p + 1 + i] = s[q - 1 + i]
  BY <1>3, <1>4, <1>6
<1> QED
  BY <1>6, <1>7, <1>10, <1>11, <1>12 DEF Spliced, T, r, w, x, y, z

\* A spliced list is sorted, and what it holds.
LEMMA SplicedSorted ==
  ASSUME NEW n \in Nat, NEW p \in Nat, NEW q \in Nat, p < q, p <= n, q <= n + 1,
         NEW a \in Nat, NEW b \in Nat, NEW s, NEW r
  PROVE  /\ s \in Seq(Nat \X Nat) /\ Sorted(s) /\ n = Len(s) /\ Spliced(r, s, n, p, q, a, b)
         /\ a <= b /\ (p > 0 => s[p][2] < a) /\ (q <= n => b < s[q][1])
         => /\ Sorted(r)
            /\ \A y \in Nat : Tb!Holds(r, y) <=>
                 \/ y \in a..b
                 \/ \E i \in 1..n : (i <= p \/ i >= q) /\ y \in s[i][1]..s[i][2]
<1>a. SUFFICES ASSUME s \in Seq(Nat \X Nat), Sorted(s), n = Len(s),
                      Spliced(r, s, n, p, q, a, b), a <= b,
                      p > 0 => s[p][2] < a, q <= n => b < s[q][1]
               PROVE  /\ Sorted(r)
                      /\ \A y \in Nat : Tb!Holds(r, y) <=>
                           \/ y \in a..b
                           \/ \E i \in 1..n : (i <= p \/ i >= q) /\ y \in s[i][1]..s[i][2]
  OBVIOUS
<1> DEFINE m == p + 1 + (n + 1 - q)
           from(i) == IF i <= p THEN i ELSE i - p - 2 + q
<1>0. m \in Nat /\ p + 1 \in 1..m 
  OBVIOUS
<1>1. /\ \A i \in 1..n : s[i][1] \in Nat /\ s[i][2] \in Nat /\ s[i][1] <= s[i][2]
      /\ \A i, j \in 1..n : i < j => s[i][2] < s[j][1]
  BY <1>a, Ranges DEF Sorted
<1>2. \A i \in 1..n : i <= p => s[i][2] < a
  <2>1. ASSUME NEW i \in 1..n, i <= p
        PROVE  s[i][2] < a
    <3>1. p \in 1..n /\ s[p][2] < a /\ (i = p \/ i < p)
      BY <1>a, <2>1
    <3>2. CASE i < p
      <4>1. s[i][2] < s[p][1] /\ s[p][1] <= s[p][2]
        BY <1>1, <3>1, <3>2
      <4> QED
        BY <1>1, <3>1, <4>1
    <3> QED
      BY <3>1, <3>2
  <2> QED
    BY <2>1
<1>3. \A i \in 1..n : i >= q => b < s[i][1]
  <2>1. ASSUME NEW i \in 1..n, i >= q
        PROVE  b < s[i][1]
    <3>1. q \in 1..n /\ b < s[q][1] /\ (i = q \/ q < i)
      BY <1>a, <2>1, SMTT(30)
    <3>2. CASE q < i
      <4>1. s[q][2] < s[i][1] /\ s[q][1] <= s[q][2]
        BY <1>1, <3>1, <3>2
      <4> QED
        BY <1>1, <3>1, <4>1
    <3> QED
      BY <3>1, <3>2
  <2> QED
    BY <2>1
<1>4. DOMAIN r = 1..m /\ r[p + 1] = <<a, b>> /\ r[p + 1][1] = a /\ r[p + 1][2] = b
  BY <1>a DEF Spliced
<1>5. ASSUME NEW i \in 1..m, i # p + 1
      PROVE  /\ from(i) \in 1..n /\ r[i] = s[from(i)]
             /\ i <= p => from(i) = i
             /\ i > p => from(i) >= q
  <2>1. CASE i <= p
    <3>1. from(i) = i /\ i \in 1..p /\ i \in 1..n
      BY <2>1
    <3> HIDE DEF from
    <3>2. r[i] = s[i]
      BY <1>a, <3>1 DEF Spliced
    <3> QED
      BY <2>1, <3>1, <3>2
  <2>2. CASE i > p
    <3>1. i - p - 1 \in 1..(n + 1 - q) /\ p + 1 + (i - p - 1) = i /\ q - 1 + (i - p - 1) = from(i)
      BY <1>5, <2>2 DEF m
    <3>2. r[p + 1 + (i - p - 1)] = s[q - 1 + (i - p - 1)]
      BY <1>a, <3>1 DEF Spliced
    <3>3. from(i) \in 1..n /\ from(i) >= q
      BY <1>5, <2>2
    <3> QED
      BY <2>2, <3>1, <3>2, <3>3
  <2> QED
    BY <2>1, <2>2
<1>6. \A i, j \in 1..m : i # p + 1 /\ j # p + 1 /\ i < j => from(i) < from(j)
  OBVIOUS
<1> HIDE DEF from, m
<1>7. ASSUME NEW i \in 1..m
      PROVE  r[i][1] <= r[i][2]
  <2>1. CASE i = p + 1
    BY <1>a, <1>4, <2>1
  <2>2. CASE i # p + 1
    BY <1>1, <1>5, <2>2
  <2> QED
    BY <2>1, <2>2
<1>8. ASSUME NEW i \in 1..m, NEW j \in 1..m, i < j
      PROVE  r[i][2] < r[j][1]
  <2>1. CASE i # p + 1 /\ j # p + 1
    <3>1. from(i) \in 1..n /\ from(j) \in 1..n /\ from(i) < from(j)
      BY <1>5, <1>6, <1>8, <2>1
    <3>2. r[i] = s[from(i)] /\ r[j] = s[from(j)]
      BY <1>5, <2>1
    <3> QED
      BY <1>1, <3>1, <3>2
  <2>2. CASE i = p + 1
    <3>1. j # p + 1 /\ j > p
      BY <1>0, <1>8, <2>2
    <3> QED
      BY <1>3, <1>4, <1>5, <2>2, <3>1
  <2>3. CASE j = p + 1
    <3>1. i # p + 1 /\ i <= p
      BY <1>0, <1>8, <2>3
    <3> QED
      BY <1>2, <1>4, <1>5, <2>3, <3>1
  <2> QED
    BY <2>1, <2>2, <2>3
<1>9. ASSUME NEW y \in Nat, Tb!Holds(r, y)
      PROVE  \/ y \in a..b
             \/ \E i \in 1..n : (i <= p \/ i >= q) /\ y \in s[i][1]..s[i][2]
  <2>1. PICK i \in 1..m : y \in r[i][1]..r[i][2]
    BY <1>4, <1>9, HoldsIs
  <2>2. CASE i = p + 1
    BY <1>4, <2>1, <2>2
  <2>3. CASE i # p + 1
    <3>1. from(i) \in 1..n /\ (from(i) <= p \/ from(i) >= q) /\ r[i] = s[from(i)]
      BY <1>0, <1>5, <2>3
    <3> QED
      BY <2>1, <3>1
  <2> QED
    BY <2>2, <2>3
<1>10. ASSUME NEW y \in Nat, y \in a..b
       PROVE  Tb!Holds(r, y)
  BY <1>0, <1>4, <1>10, HoldsIs
<1>11. ASSUME NEW y \in Nat, NEW i \in 1..n, i <= p \/ i >= q, y \in s[i][1]..s[i][2]
       PROVE  Tb!Holds(r, y)
  <2>1. CASE i <= p
    <3>1. i \in 1..m /\ i \in 1..p
      BY <2>1 DEF m
    <3>2. r[i] = s[i]
      BY <1>a, <3>1 DEF Spliced
    <3> QED
      BY <1>4, <1>11, <3>1, <3>2, HoldsIs
  <2>2. CASE i >= q
    <3>1. i - q + 1 \in 1..(n + 1 - q) /\ q - 1 + (i - q + 1) = i
      BY <2>2
    <3>2. r[p + 1 + (i - q + 1)] = s[i]
      BY <1>a, <3>1 DEF Spliced
    <3>3. p + 1 + (i - q + 1) \in 1..m
      BY <2>2 DEF m
    <3> QED
      BY <1>4, <1>11, <3>2, <3>3, HoldsIs
  <2> QED
    BY <1>11, <2>1, <2>2
<1> QED
  BY <1>4, <1>7, <1>8, <1>9, <1>10, <1>11 DEF Sorted

\* Where x belongs in s: behind the ranges that end before it.
Place(s, x, j) ==
  /\ \A i \in 1..j : s[i][2] < x
  /\ j < Len(s) => s[j + 1][2] >= x

\* An index has a place in a sorted list.
LEMMA PlaceExists ==
  ASSUME NEW s \in Seq(Nat \X Nat), NEW x \in Nat
  PROVE  \E j \in 0..Len(s) : Place(s, x, j)
<1> DEFINE n == Len(s)
           Beyond == {j \in 0..n : j < n => s[j + 1][2] >= x}
<1>0. n \in Nat /\ \A i \in 1..n : s[i][2] \in Nat
  BY Ranges
<1> HIDE DEF n
<1>1. n \in Beyond /\ Beyond \in SUBSET Nat
  BY <1>0
<1>2. PICK l \in Beyond : \A m \in Beyond : l <= m
  BY <1>1, LeastElement
<1>3. ASSUME NEW i \in 1..l
      PROVE  s[i][2] < x
  <2>1. l \in 0..n
    BY <1>2
  <2>2. i - 1 \in 0..n /\ i - 1 < l /\ i - 1 < n /\ (i - 1) + 1 = i /\ i \in 1..n
    BY <1>0, <2>1
  <2>3. ~(l <= i - 1)
    BY <1>0, <2>1, <2>2
  <2>4. i - 1 \notin Beyond
    BY <1>2, <2>3
  <2>5. ~(s[i][2] >= x)
    BY <2>2, <2>4
  <2> QED
    BY <1>0, <2>2, <2>5
<1>4. l \in 0..n /\ (l < n => s[l + 1][2] >= x)
  BY <1>2
<1> QED
  BY <1>3, <1>4 DEF Place, n

\* What is spliced in when x is put back behind the k-th range: one range, joined with
\* the neighbours that x touches.
Joins(s, n, k, x, p, q, a, b) ==
  /\ s \in Seq(Nat \X Nat) /\ Sorted(s) /\ n = Len(s)
  /\ \A i \in 1..n : i <= k => s[i][2] < x
  /\ \A i \in 1..n : i > k => s[i][1] > x
  /\ IF k > 0 /\ s[k][2] = x - 1 THEN p = k - 1 /\ a = s[k][1] ELSE p = k /\ a = x
  /\ IF k < n /\ s[k + 1][1] = x + 1 THEN q = k + 2 /\ b = s[k + 1][2]
                                     ELSE q = k + 1 /\ b = x

\* A list with the joined range holds x and what it held.
LEMMA Joined ==
  ASSUME NEW n \in Nat, NEW k \in Nat, k <= n, NEW x \in Nat, NEW s, NEW r,
         NEW p, NEW q, NEW a, NEW b
  PROVE  Joins(s, n, k, x, p, q, a, b)
         => /\ p \in Nat /\ q \in Nat /\ p < q /\ p <= n /\ q <= n + 1
            /\ a \in Nat /\ b \in Nat
            /\ Spliced(r, s, n, p, q, a, b)
               => /\ Sorted(r)
                  /\ \A y \in Nat : Tb!Holds(r, y) <=> (Tb!Holds(s, y) \/ y = x)
<1> DEFINE left == k > 0 /\ s[k][2] = x - 1
           right == k < n /\ s[k + 1][1] = x + 1
<1>a. SUFFICES ASSUME s \in Seq(Nat \X Nat), Sorted(s), n = Len(s),
                      \A i \in 1..n : i <= k => s[i][2] < x,
                      \A i \in 1..n : i > k => s[i][1] > x,
                      IF left THEN p = k - 1 /\ a = s[k][1] ELSE p = k /\ a = x,
                      IF right THEN q = k + 2 /\ b = s[k + 1][2] ELSE q = k + 1 /\ b = x
      PROVE  /\ p \in Nat /\ q \in Nat /\ p < q /\ p <= n /\ q <= n + 1
             /\ a \in Nat /\ b \in Nat
             /\ Spliced(r, s, n, p, q, a, b)
                => /\ Sorted(r)
                   /\ \A y \in Nat : Tb!Holds(r, y) <=> (Tb!Holds(s, y) \/ y = x)
  BY DEF Joins
<1>1. /\ DOMAIN s = 1..n
      /\ \A i \in 1..n : s[i][1] \in Nat /\ s[i][2] \in Nat /\ s[i][1] <= s[i][2]
      /\ \A i, j \in 1..n : i < j => s[i][2] < s[j][1]
  BY <1>a, Ranges DEF Sorted
<1>2. left => k \in 1..n
  OBVIOUS
<1>3. right => k + 1 \in 1..n
  OBVIOUS
<1>4. /\ left => p = k - 1 /\ a = s[k][1] /\ s[k][2] = x - 1
      /\ ~left => p = k /\ a = x
      /\ right => q = k + 2 /\ b = s[k + 1][2] /\ s[k + 1][1] = x + 1
      /\ ~right => q = k + 1 /\ b = x
  BY <1>a
<1>5. /\ \A i \in 1..n : i <= k => s[i][2] < x
      /\ \A i \in 1..n : i > k => s[i][1] > x
  BY <1>a
<1> HIDE DEF left, right
<1>6. left => p \in Nat /\ p <= n /\ p < k + 1
  BY <1>2, <1>4
<1>7. right => q \in Nat /\ q <= n + 1 /\ q > k
  BY <1>3, <1>4
<1>8. p \in Nat /\ p <= n /\ p <= k /\ q \in Nat /\ q <= n + 1 /\ q > k
  BY <1>4, <1>6, <1>7
<1>9. a \in Nat /\ a <= x
  <2>1. CASE left
    BY <1>1, <1>2, <1>4, <1>5, <2>1
  <2>2. CASE ~left
    BY <1>4, <2>2
  <2> QED
    BY <2>1, <2>2
<1>10. b \in Nat /\ x <= b
  <2>1. CASE right
    BY <1>1, <1>3, <1>4, <1>5, <2>1
  <2>2. CASE ~right
    BY <1>4, <2>2
  <2> QED
    BY <2>1, <2>2
<1>11. p > 0 => s[p][2] < a
  <2>1. CASE left
    <3>1. p > 0 => p \in 1..n /\ k \in 1..n /\ p < k
      BY <1>2, <1>4, <1>8, <2>1
    <3> QED
      BY <1>1, <1>4, <2>1, <3>1
  <2>2. CASE ~left
    <3>1. p > 0 => p \in 1..n /\ p <= k
      BY <1>8
    <3> QED
      BY <1>4, <1>5, <2>2, <3>1
  <2> QED
    BY <2>1, <2>2
<1>12. q <= n => b < s[q][1]
  <2>1. CASE right
    <3>1. q <= n => q \in 1..n /\ k + 1 \in 1..n /\ k + 1 < q
      BY <1>3, <1>4, <1>8, <2>1
    <3> QED
      BY <1>1, <1>4, <2>1, <3>1
  <2>2. CASE ~right
    <3>1. q <= n => q \in 1..n /\ q > k
      BY <1>8
    <3> QED
      BY <1>4, <1>5, <2>2, <3>1
  <2> QED
    BY <2>1, <2>2
<1>b. SUFFICES ASSUME Spliced(r, s, n, p, q, a, b)
               PROVE  /\ Sorted(r)
                      /\ \A y \in Nat : Tb!Holds(r, y) <=> (Tb!Holds(s, y) \/ y = x)
  BY <1>8, <1>9, <1>10
<1>13. p < q /\ a <= b
  BY <1>8, <1>9, <1>10
<1>14. /\ Sorted(r)
       /\ \A y \in Nat : Tb!Holds(r, y) <=>
            \/ y \in a..b
            \/ \E i \in 1..n : (i <= p \/ i >= q) /\ y \in s[i][1]..s[i][2]
  <2>1. /\ s \in Seq(Nat \X Nat) /\ Sorted(s) /\ n = Len(s) /\ Spliced(r, s, n, p, q, a, b)
        /\ a <= b /\ (p > 0 => s[p][2] < a) /\ (q <= n => b < s[q][1])
    BY <1>a, <1>b, <1>11, <1>12, <1>13
  <2>2. /\ n \in Nat /\ p \in Nat /\ q \in Nat /\ p < q /\ p <= n /\ q <= n + 1
        /\ a \in Nat /\ b \in Nat
    BY <1>8, <1>9, <1>10, <1>13
  <2> QED
    BY <2>1, <2>2, SplicedSorted
<1>15. ASSUME NEW y \in Nat, y \in a..b, y # x
       PROVE  \E i \in 1..n : y \in s[i][1]..s[i][2]
  <2>1. CASE y < x
    <3>1. left /\ y \in s[k][1]..s[k][2]
      BY <1>1, <1>2, <1>4, <1>9, <1>10, <1>15, <2>1, SMTT(30)
    <3> QED
      BY <1>2, <3>1
  <2>2. CASE y > x
    <3>1. right /\ y \in s[k + 1][1]..s[k + 1][2]
      BY <1>1, <1>3, <1>4, <1>9, <1>10, <1>15, <2>2
    <3> QED
      BY <1>3, <3>1
  <2> QED
    BY <1>15, <2>1, <2>2
<1>16. ASSUME NEW y \in Nat, NEW i \in 1..n, y \in s[i][1]..s[i][2]
       PROVE  (i <= p \/ i >= q) \/ y \in a..b
  <2>1. CASE left /\ i = k
    <3>1. y \in a..x
      BY <1>1, <1>2, <1>4, <1>9, <1>16, <2>1
    <3> QED
      BY <1>9, <1>10, <3>1
  <2>2. CASE right /\ i = k + 1
    <3>1. y \in x..b
      BY <1>1, <1>3, <1>4, <1>10, <1>16, <2>2
    <3> QED
      BY <1>9, <1>10, <3>1
  <2>3. CASE ~(left /\ i = k) /\ ~(right /\ i = k + 1)
    <3>1. i <= k => i <= p
      BY <1>4, <2>3
    <3>2. i > k => i >= q
      BY <1>4, <2>3
    <3> QED
      BY <3>1, <3>2
  <2> QED
    BY <2>1, <2>2, <2>3
<1>17. \A y \in Nat : Tb!Holds(s, y) <=> \E i \in 1..n : y \in s[i][1]..s[i][2]
  BY <1>1, HoldsIs
<1>18. ASSUME NEW y \in Nat, Tb!Holds(r, y), y # x
       PROVE  Tb!Holds(s, y)
  BY <1>14, <1>15, <1>17, <1>18
<1>19. ASSUME NEW y \in Nat, Tb!Holds(s, y)
       PROVE  Tb!Holds(r, y)
  BY <1>14, <1>16, <1>17, <1>19
<1>20. Tb!Holds(r, x)
  <2>1. x \in a..b
    BY <1>9, <1>10
  <2> QED
    BY <1>14, <2>1
<1>21. \A y \in Nat : Tb!Holds(r, y) <=> (Tb!Holds(s, y) \/ y = x)
  BY <1>18, <1>19, <1>20
<1> QED
  BY <1>14, <1>21

\* add_free_index puts back an index that is not there, and nothing else.
LEMMA GiveIndex ==
  ASSUME NEW s \in Seq(Nat \X Nat), Sorted(s), NEW x \in Nat, ~Tb!Holds(s, x)
  PROVE  /\ Tb!add_free_index(s, x) \in Seq(Nat \X Nat) /\ Sorted(Tb!add_free_index(s, x))
         /\ \A y \in Nat : Tb!Holds(Tb!add_free_index(s, x), y) <=> (Tb!Holds(s, y) \/ y = x)
<1> DEFINE n == Len(s)
           k == CHOOSE j \in 0..Len(s) : Place(s, x, j)
           left == k > 0 /\ s[k][2] = x - 1
           right == k < Len(s) /\ s[k + 1][1] = x + 1
           p == IF left THEN k - 1 ELSE k
           q == IF right THEN k + 2 ELSE k + 1
           a == IF left THEN s[k][1] ELSE x
           b == IF right THEN s[k + 1][2] ELSE x
           r == SubSeq(s, 1, p) \o <<<<a, b>>>> \o SubSeq(s, q, Len(s))
<1>1. Tb!add_free_index(s, x) = r
  BY DEF Tb!add_free_index, Place
<1>2. k \in 0..n /\ Place(s, x, k)
  <2>1. \E j \in 0..Len(s) : Place(s, x, j)
    BY PlaceExists
  <2> QED
    BY <2>1
<1>3. /\ IF left THEN p = k - 1 /\ a = s[k][1] ELSE p = k /\ a = x
      /\ IF right THEN q = k + 2 /\ b = s[k + 1][2] ELSE q = k + 1 /\ b = x
  OBVIOUS
<1> HIDE DEF k, p, q, a, b
<1>4. /\ n \in Nat /\ n = Len(s) /\ DOMAIN s = 1..n
      /\ \A i \in 1..n : s[i][1] \in Nat /\ s[i][2] \in Nat /\ s[i][1] <= s[i][2]
      /\ \A i, j \in 1..n : i < j => s[i][2] < s[j][1]
  BY Ranges DEF Sorted
<1>5. k \in Nat /\ k <= n /\ (\A i \in 1..k : s[i][2] < x) /\ (k < n => s[k + 1][2] >= x)
  BY <1>2, <1>4 DEF Place
<1>6. IF k < n /\ s[k + 1][1] = x + 1 THEN q = k + 2 /\ b = s[k + 1][2] ELSE q = k + 1 /\ b = x
  BY <1>3
<1> HIDE DEF n, r, left, right
<1>7. \A i \in 1..n : i <= k => s[i][2] < x
  BY <1>4, <1>5
<1>8. ASSUME k < n
      PROVE  s[k + 1][1] > x
  <2>1. k + 1 \in 1..n /\ s[k + 1][2] >= x
    BY <1>4, <1>5, <1>8
  <2>2. x \notin s[k + 1][1]..s[k + 1][2]
    BY <1>4, <2>1, HoldsIs
  <2> QED
    BY <1>4, <2>1, <2>2
<1>9. ASSUME NEW i \in 1..n, i > k
      PROVE  s[i][1] > x
  <2>1. k + 1 \in 1..n /\ k < n /\ (i = k + 1 \/ k + 1 < i)
    BY <1>4, <1>5, <1>9
  <2>2. CASE k + 1 < i
    <3>1. s[k + 1][2] < s[i][1] /\ s[k + 1][1] <= s[k + 1][2]
      BY <1>4, <2>1, <2>2
    <3> QED
      BY <1>4, <1>8, <2>1, <3>1
  <2> QED
    BY <1>8, <2>1, <2>2
<1>10. /\ p \in Nat /\ q \in Nat /\ p < q /\ p <= n /\ q <= n + 1
       /\ a \in Nat /\ b \in Nat
       /\ Spliced(r, s, n, p, q, a, b)
          => /\ Sorted(r)
             /\ \A y \in Nat : Tb!Holds(r, y) <=> (Tb!Holds(s, y) \/ y = x)
  <2>1. IF k > 0 /\ s[k][2] = x - 1 THEN p = k - 1 /\ a = s[k][1] ELSE p = k /\ a = x
    BY <1>3 DEF left
  <2> QED
    <3>1. Joins(s, n, k, x, p, q, a, b)
      BY <1>4, <1>6, <1>7, <1>9, <2>1 DEF Joins
    <3>2. n \in Nat /\ k \in Nat /\ k <= n /\ x \in Nat
      BY <1>4, <1>5
    <3> QED
      BY <3>1, <3>2, Joined
<1>11. Spliced(r, s, n, p, q, a, b)
  BY <1>4, <1>10, Splice DEF r
<1> QED
  BY <1>1, <1>10, <1>11 DEF Spliced

-----------------------------------------------------------------------------
(* The commands to the TCAM daemon.                                        *)

\* A step that adds the entry e to a database d, at an index not in use.
Adds(d, i, e) ==
  /\ dbs \in [Npus -> [Databases -> TcamDb]] /\ d \in Databases /\ i \in Nat
  /\ i \notin DOMAIN Db(d) /\ e \in TabEntry /\ dbs' = Tb!T!AddEntry(Npu, d, i, e)

\* What the step comes to.
Added(d, i, e) ==
  /\ dbs' \in [Npus -> [Databases -> TcamDb]]
  /\ DOMAIN Db(d)' = DOMAIN Db(d) \cup {i}
  /\ Db(d)'[i] = e /\ \A j \in DOMAIN Db(d) : Db(d)'[j] = Db(d)[j]
  /\ \A c \in Databases : c # d => Db(c)' = Db(c)

\* The databases after an entry was added.
LEMMA AddEffect ==
  ASSUME NEW d, NEW i, NEW e, Adds(d, i, e)
  PROVE  Added(d, i, e)
<1>0. /\ dbs \in [Npus -> [Databases -> TcamDb]] /\ d \in Databases /\ i \in Nat
      /\ i \notin DOMAIN Db(d) /\ e \in TabEntry /\ dbs' = Tb!T!AddEntry(Npu, d, i, e)
  BY DEF Adds
<1> USE <1>0
<1> DEFINE f == [j \in DOMAIN dbs[Npu][d] \cup {i} |-> IF j = i THEN e ELSE dbs[Npu][d][j]]
           row == [dbs[Npu] EXCEPT ![d] = f]
<1>1. dbs' = [dbs EXCEPT ![Npu] = row]
  BY DEF Tb!T!AddEntry, Db
<1>2. Npu \in Npus /\ dbs[Npu] \in [Databases -> TcamDb] /\ Db(d) \in TcamDb /\ Db(d) = dbs[Npu][d]
  BY TableAssumption DEF Db
<1>3. PICK D \in SUBSET Nat : Db(d) \in [D -> TabEntry]
  BY <1>2 DEF TcamDb
<1>4. f \in [D \cup {i} -> TabEntry] /\ D \cup {i} \in SUBSET Nat
  BY <1>2, <1>3
<1>5. /\ f \in TcamDb /\ DOMAIN f = DOMAIN Db(d) \cup {i} /\ f[i] = e
      /\ \A j \in DOMAIN Db(d) : f[j] = Db(d)[j]
  <2>1. f \in UNION {[E -> TabEntry] : E \in SUBSET Nat}
    BY <1>4
  <2> QED
    BY <1>2, <2>1 DEF TcamDb
<1> HIDE DEF f
<1>6. row \in [Databases -> TcamDb] /\ row[d] = f /\ \A c \in Databases : c # d => row[c] = dbs[Npu][c]
  BY <1>2, <1>5
<1> HIDE DEF row
<1>7. dbs' \in [Npus -> [Databases -> TcamDb]] /\ dbs'[Npu] = row
  BY <1>1, <1>2, <1>6
<1> QED
  BY <1>5, <1>6, <1>7 DEF Db, Added

\* The same for a step that removes an entry.
Dels(d, i) ==
  /\ dbs \in [Npus -> [Databases -> TcamDb]] /\ d \in Databases
  /\ dbs' = Tb!T!DelEntry(Npu, d, i)

Deleted(d, i) ==
  /\ dbs' \in [Npus -> [Databases -> TcamDb]]
  /\ DOMAIN Db(d)' = DOMAIN Db(d) \ {i}
  /\ \A j \in DOMAIN Db(d) : j # i => Db(d)'[j] = Db(d)[j]
  /\ \A c \in Databases : c # d => Db(c)' = Db(c)

\* The databases after an entry was removed.
LEMMA DelEffect ==
  ASSUME NEW d, NEW i, Dels(d, i)
  PROVE  Deleted(d, i)
<1>0. /\ dbs \in [Npus -> [Databases -> TcamDb]] /\ d \in Databases
      /\ dbs' = Tb!T!DelEntry(Npu, d, i)
  BY DEF Dels
<1> USE <1>0
<1> DEFINE f == [j \in DOMAIN dbs[Npu][d] \ {i} |-> dbs[Npu][d][j]]
           row == [dbs[Npu] EXCEPT ![d] = f]
<1>1. dbs' = [dbs EXCEPT ![Npu] = row]
  BY DEF Tb!T!DelEntry
<1>2. Npu \in Npus /\ dbs[Npu] \in [Databases -> TcamDb] /\ Db(d) \in TcamDb /\ Db(d) = dbs[Npu][d]
  BY TableAssumption DEF Db
<1>3. PICK D \in SUBSET Nat : Db(d) \in [D -> TabEntry]
  BY <1>2 DEF TcamDb
<1>4. f \in [D \ {i} -> TabEntry] /\ D \ {i} \in SUBSET Nat
  BY <1>2, <1>3
<1>5. /\ f \in TcamDb /\ DOMAIN f = DOMAIN Db(d) \ {i}
      /\ \A j \in DOMAIN Db(d) : j # i => f[j] = Db(d)[j]
  <2>1. f \in UNION {[E -> TabEntry] : E \in SUBSET Nat}
    BY <1>4
  <2> QED
    BY <1>2, <2>1 DEF TcamDb
<1> HIDE DEF f
<1>6. row \in [Databases -> TcamDb] /\ row[d] = f /\ \A c \in Databases : c # d => row[c] = dbs[Npu][c]
  BY <1>2, <1>5
<1> HIDE DEF row
<1>7. dbs' \in [Npus -> [Databases -> TcamDb]] /\ dbs'[Npu] = row
  BY <1>1, <1>2, <1>6
<1> QED
  BY <1>5, <1>6, <1>7 DEF Db, Deleted

\* An entry of a database is one.
LEMMA EntriesAre ==
  ASSUME dbs \in [Npus -> [Databases -> TcamDb]], NEW d \in Databases
  PROVE  DOMAIN Db(d) \subseteq Nat /\ \A i \in DOMAIN Db(d) : Db(d)[i] \in TabEntry
<1>1. Db(d) \in TcamDb
  BY TableAssumption DEF Db
<1> QED
  BY <1>1 DEF TcamDb

\* TcamAdd adds the entry of the thread.
LEMMA TcamAddIs ==
  ASSUME NEW r, r.db \in Databases
  PROVE  Tb!TcamAdd(r) = Tb!T!AddEntry(Npu, r.db, r.index, Tb!TcamEntry(r))
BY DEF Tb!TcamAdd, Tb!T!addroute, Tb!T!addpfilter, Tb!T!addafilter, Tb!T!addarp, Databases

\* The delete commands remove the entry.
LEMMA TcamDelIs ==
  ASSUME NEW r, r.db \in Databases, r.db # "arp"
  PROVE  (CASE r.db = "route" -> Tb!T!delroute(Npu, r.index)
            [] r.db = "pfilter" -> Tb!T!delpfilter(Npu, r.index)
            [] r.db = "afilter" -> Tb!T!delafilter(Npu, r.index))
         = Tb!T!DelEntry(Npu, r.db, r.index)
BY DEF Tb!T!delroute, Tb!T!delpfilter, Tb!T!delafilter, Databases

-----------------------------------------------------------------------------
(* Steps that touch little.                                                *)

\* TcamQuery, by database.
LEMMA TcamQueryIs ==
  ASSUME NEW r, r.db \in Databases
  PROVE  Tb!TcamQuery(r) = Tb!T!Query(Npu, r.db, r.key)
BY DEF Tb!TcamQuery, Tb!T!queryroute, Tb!T!querypfilter, Tb!T!queryafilter, Tb!T!queryarp,
       Databases

\* A query finds an entry that matches, for ARP the one of the address.
LEMMA QueryFinds ==
  ASSUME dbs \in [Npus -> [Databases -> TcamDb]], NEW d \in Databases, NEW key \in Int,
         Tb!T!Query(Npu, d, key) # 0
  PROVE  \E i \in DOMAIN Db(d) :
           /\ Db(d)[i].addr = Tb!T!Query(Npu, d, key)
           /\ Db(d)[i].len = MaxPrefix => Db(d)[i].key = key
<1> DEFINE S == Tb!T!Found(Npu, d, key)
<1>1. S = {i \in DOMAIN Db(d) : Tb!T!Matches(Db(d)[i], key)}
  BY DEF Tb!T!Found, Db
<1>2. DOMAIN Db(d) \subseteq Nat /\ \A i \in DOMAIN Db(d) : Db(d)[i] \in TabEntry
  BY EntriesAre
<1>3. S # {} /\ S \in SUBSET Nat
  BY <1>1, <1>2 DEF Tb!T!Query
<1>4. \E i \in S : \A j \in S : i <= j
  BY <1>3, LeastElement
<1> DEFINE i == CHOOSE x \in S : \A j \in S : x <= j
<1>5. i \in S
  BY <1>4
<1>6. Tb!T!Query(Npu, d, key) = Db(d)[i].addr
  BY <1>3 DEF Tb!T!Query, Tb!T!Lookup, Db
<1> HIDE DEF i
<1>7. i \in DOMAIN Db(d) /\ Tb!T!Matches(Db(d)[i], key) /\ Db(d)[i].key \in Int
  BY <1>1, <1>2, <1>5 DEF TabEntry
<1>8. ASSUME Db(d)[i].len = MaxPrefix
      PROVE  Db(d)[i].key = key
  <2> DEFINE k == Db(d)[i].key
  <2>1. k \div 2^(MaxPrefix - MaxPrefix) = key \div 2^(MaxPrefix - MaxPrefix)
    BY <1>7, <1>8 DEF Tb!T!Matches
  <2>2. k \in Int
    BY <1>7
  <2> HIDE DEF k
  <2>3. 2^(MaxPrefix - MaxPrefix) = 1
    <3>1. MaxPrefix - MaxPrefix = 0 /\ 2^0 = 1
      BY TableAssumption
    <3> QED
      BY <3>1
  <2>4. k \div 1 = k /\ key \div 1 = key
    BY <2>2
  <2> QED
    BY <2>1, <2>3, <2>4 DEF k
<1> QED
  BY <1>6, <1>7, <1>8

-----------------------------------------------------------------------------
\* One thread changes.
LEMMA Moved ==
  ASSUME TabTypes, NEW t \in Tb!Threads, NEW q \in TabThread, rthr' = [rthr EXCEPT ![t] = q]
  PROVE  /\ rthr' \in [Tb!Threads -> TabThread] /\ rthr'[t] = q
         /\ \A u \in Tb!Threads : u # t => rthr'[u] = rthr[u]
BY DEF TabTypes

\* An idle thread has nothing.
LEMMA IdleIs ==
  /\ Tb!Idle \in TabThread /\ Placed(Tb!Idle) /\ ~Has(Tb!Idle) /\ Tb!Idle.pc = "idle"
  /\ Tb!Idle.op = "none"
<1>1. <<"uc", 0>> \in Tb!Lists
  BY TableAssumption DEF Tb!Lists
<1> QED
  BY <1>1 DEF Tb!Idle, TabThread, Placed, Has, Databases

\* The same free indices: nothing changes for who has one.
LEMMA SameFree ==
  ASSUME UNCHANGED free
  PROVE  /\ \A l, x : Held(l, x)' <=> Held(l, x)
         /\ \A a : FreeSlot(a)' <=> FreeSlot(a)
         /\ \A d, x : FreeIndex(d, x)' <=> FreeIndex(d, x)
         /\ FreeInv => FreeInv'
BY DEF Held, FreeSlot, FreeIndex, FreeInv

\* A step of a thread that has nothing, before and after, and touches no table.
LEMMA QuietMove ==
  ASSUME TabInv, NEW t \in Tb!Threads, NEW q \in TabThread, rthr' = [rthr EXCEPT ![t] = q],
         UNCHANGED <<conn, dbs, free, sram, srmap, lost>>, todo' \in Seq(Nat),
         router' \in {"INIT", "START", "EXIT"},
         router' \in {"INIT", "START"} => router \in {"INIT", "START"},
         ~Has(rthr[t]), ~Has(q), Placed(q), conn[Npu] => Relies(q)
  PROVE  TabInv'
<1>1. /\ rthr' \in [Tb!Threads -> TabThread] /\ rthr'[t] = q
      /\ \A u \in Tb!Threads : u # t => rthr'[u] = rthr[u]
  BY Moved DEF TabInv
<1>2. \A u \in Tb!Threads : Has(rthr'[u]) => u # t /\ rthr'[u] = rthr[u] /\ Has(rthr[u])
  BY <1>1
<1>3. \A u \in Tb!Threads : Has(rthr[u]) => u # t /\ rthr'[u] = rthr[u]
  BY <1>1
<1>4. TabTypes'
  BY <1>1 DEF TabInv, TabTypes
<1>5. \A u \in Tb!Threads : Placed(rthr[u])'
  <2>1. \A u \in Tb!Threads : Placed(rthr'[u])
    BY <1>1 DEF TabInv
  <2> QED
    BY <2>1 DEF Placed
<1>6. EntryInv'
  BY SameFree DEF TabInv, EntryInv, EntryOk, Db
<1>7. TakenInv'
  <2>1. ASSUME NEW u \in Tb!Threads, Has(rthr[u])'
        PROVE  TakenOk(rthr[u])'
    <3>1. rthr'[u] = rthr[u] /\ Has(rthr[u])
      BY <1>2, <2>1 DEF Has
    <3>2. TakenOk(rthr[u])
      BY <3>1 DEF TabInv, TakenInv
    <3> QED
      BY <3>1, <3>2, SameFree DEF TakenOk, Db
  <2> QED
    BY <2>1 DEF TakenInv
<1>8. ApartInv'
  BY <1>2 DEF TabInv, ApartInv, Apart, Has
<1>9. ASSUME conn'[Npu], NEW u \in Tb!Threads
      PROVE  Relies(rthr[u])'
  <2>1. Relies(rthr'[u])
    BY <1>1, <1>9 DEF TabInv
  <2> QED
    BY <2>1 DEF Relies, Db
<1>10. MapInv'
  BY SameFree DEF TabInv, MapInv
<1>11. SlotInv'
  <2>1. ASSUME NEW a \in Tb!Results, Somewhere(a)
        PROVE  Somewhere(a)'
    BY <1>3, <2>1, SameFree DEF Somewhere, Db, Has
  <2> QED
    BY <2>1 DEF TabInv, SlotInv
<1>12. StartInv'
  BY DEF TabInv, StartInv, Db
<1> QED
  BY <1>4, <1>5, <1>6, <1>7, <1>8, <1>9, <1>10, <1>11, <1>12, SameFree DEF TabInv

\* The list of the result slots is no database's.
LEMMA SlotListIs == SlotList \in Tb!Lists /\ Tb!DbOf(SlotList) = "sram"
<1>1. SlotList \in Tb!Lists
  BY DEF SlotList, Tb!Lists
<1>2. SlotList[1] = "sram" /\ "sram" # "mc" /\ "sram" # "uc"
  BY DEF SlotList
<1> QED
  BY <1>1, <1>2 DEF Tb!DbOf

\* Fewer indices are free.
Fewer == \A l \in Tb!Lists : \A x \in Nat : Held(l, x)' => Held(l, x)

\* Fewer free indices, in the words of the invariant.
LEMMA FewerFree ==
  ASSUME Fewer
  PROVE  /\ \A a \in Nat : FreeSlot(a)' => FreeSlot(a)
         /\ \A d : \A x \in Nat : FreeIndex(d, x)' => FreeIndex(d, x)
<1>1. \A a \in Nat : Held(SlotList, a)' => Held(SlotList, a)
  BY SlotListIs DEF Fewer
<1>2. \A a \in Nat : FreeSlot(a)' => FreeSlot(a)
  BY <1>1 DEF FreeSlot
<1>3. ASSUME NEW d, NEW x \in Nat, FreeIndex(d, x)'
      PROVE  FreeIndex(d, x)
  <2>1. PICK l \in Tb!Lists : Tb!DbOf(l) = d /\ Held(l, x)'
    BY <1>3 DEF FreeIndex, Tb!Lists, Tb!DbOf
  <2> QED
    BY <2>1 DEF Fewer, FreeIndex
<1> QED
  BY <1>2, <1>3

\* Slots are numbers.
LEMMA SlotsAreNat == Tb!Results \subseteq Nat
BY DEF Tb!Results

\* The entries stay what they are when fewer indices are free.
LEMMA EntriesKeep ==
  ASSUME TabInv, UNCHANGED <<dbs, sram>>, Fewer
  PROVE  EntryInv'
<1>1. ASSUME NEW d \in Databases, NEW i \in DOMAIN Db(d)
      PROVE  EntryOk(d, i)'
  <2>1. EntryOk(d, i)
    BY DEF TabInv, EntryInv
  <2>2. i \in Nat /\ Db(d)[i].addr \in Nat
    <3>1. i \in Nat /\ Db(d)[i] \in TabEntry
      BY EntriesAre DEF TabInv, TabTypes
    <3> QED
      BY <3>1, SlotsAreNat DEF TabEntry
  <2>3. ~FreeSlot(Db(d)[i].addr)' /\ ~FreeIndex(d, i)'
    <3>1. Db(d)' = Db(d)
      BY DEF Db
    <3>2. \A a \in Nat : FreeSlot(a)' => FreeSlot(a)
      BY FewerFree
    <3>3. FreeIndex(d, i)' => FreeIndex(d, i)
      BY <2>2, FewerFree
    <3>4. \A a : FreeSlot(a)' <=> Held(SlotList, a)'
      BY DEF FreeSlot
    <3>5. ~FreeSlot(Db(d)[i].addr)
      BY <2>1 DEF EntryOk
    <3>6. ~FreeIndex(d, i)
      BY <2>1 DEF EntryOk
    <3> QED
      BY <2>2, <3>1, <3>2, <3>3, <3>5, <3>6 DEF Db
  <2> QED
    BY <2>1, <2>3 DEF EntryOk, Db
<1> QED
  BY <1>1 DEF EntryInv, Db

\* A thread has a slot and an index in the next state.
TakenNext(q) ==
  /\ q.addr \in Tb!Results
  /\ ~FreeSlot(q.addr)' /\ ~FreeIndex(q.db, q.index)'
  /\ q.index \notin DOMAIN Db(q.db)'
  /\ \A d \in Databases : \A i \in DOMAIN Db(d)' : Db(d)'[i].addr # q.addr

\* What a thread has stays out of the free lists and the entries.
LEMMA TakenKeeps ==
  ASSUME UNCHANGED dbs, Fewer, NEW r \in TabThread, TakenOk(r)
  PROVE  TakenNext(r)
<1>1. r.addr \in Nat /\ r.index \in Nat
  BY DEF TabThread
<1>2. ~FreeSlot(r.addr)' /\ ~FreeIndex(r.db, r.index)'
  BY <1>1, FewerFree DEF TakenOk
<1> QED
  BY <1>2 DEF TakenOk, TakenNext, Db

\* What the threads have stays theirs, when one of them moves to q.
MoveKeeps(t, q) ==
  /\ Has(q) => TakenNext(q)
  /\ \A u \in Tb!Threads : \A p \in TabThread :
       u # t /\ p = rthr[u] /\ Has(p) => TakenNext(p)
  /\ Has(q) => \A u \in Tb!Threads : u # t /\ Has(rthr[u]) => Apart(rthr[u], q)

\* TakenNext is TakenOk in the next state.
LEMMA TakenNextIs ==
  ASSUME NEW u, NEW q, rthr'[u] = q, TakenNext(q)
  PROVE  TakenOk(rthr[u])'
BY DEF TakenNext, TakenOk, Db

\* The threads stay apart when one moves.
LEMMA ApartMoved ==
  ASSUME TabInv, NEW t \in Tb!Threads, NEW q \in TabThread, rthr' = [rthr EXCEPT ![t] = q],
         MoveKeeps(t, q)
  PROVE  TakenInv' /\ ApartInv'
<1>1. /\ rthr'[t] = q
      /\ \A u \in Tb!Threads : u # t => rthr'[u] = rthr[u]
  BY Moved DEF TabInv
<1>2. ASSUME NEW u \in Tb!Threads, Has(rthr[u])'
      PROVE  TakenOk(rthr[u])'
  <2>1. Has(rthr'[u])
    BY <1>2 DEF Has
  <2>2. CASE u = t
    BY <1>1, <2>1, <2>2, TakenNextIs DEF MoveKeeps
  <2>3. CASE u # t
    <3>1. rthr'[u] = rthr[u] /\ rthr[u] \in TabThread
      BY <1>1, <2>3 DEF TabInv, TabTypes
    <3>2. PICK p \in TabThread : p = rthr[u]
      BY <3>1
    <3>3. TakenNext(p)
      BY <2>1, <2>3, <3>1, <3>2 DEF MoveKeeps
    <3> QED
      BY <3>1, <3>2, <3>3, TakenNextIs
  <2> QED
    BY <2>2, <2>3
<1>3. TakenInv'
  BY <1>2 DEF TakenInv
<1>4. ASSUME NEW u \in Tb!Threads, NEW v \in Tb!Threads, u # v, Has(rthr'[u]), Has(rthr'[v])
      PROVE  Apart(rthr'[u], rthr'[v])
  <2>1. CASE u = t
    <3>1. rthr'[u] = q /\ rthr'[v] = rthr[v] /\ v # t
      BY <1>1, <1>4, <2>1
    <3>2. Apart(rthr[v], q)
      BY <1>4, <3>1 DEF MoveKeeps
    <3> QED
      BY <3>1, <3>2 DEF Apart
  <2>2. CASE v = t
    <3>1. rthr'[v] = q /\ rthr'[u] = rthr[u] /\ u # t
      BY <1>1, <1>4, <2>2
    <3> QED
      BY <1>4, <3>1 DEF MoveKeeps
  <2>3. CASE u # t /\ v # t
    BY <1>1, <1>4, <2>3 DEF TabInv, ApartInv
  <2> QED
    BY <2>1, <2>2, <2>3
<1>5. ApartInv'
  BY <1>4 DEF ApartInv, Apart, Has
<1> QED
  BY <1>3, <1>5

\* Every thread is about something when one moves.
LEMMA PlacedMoved ==
  ASSUME TabInv, NEW t \in Tb!Threads, NEW q \in TabThread, rthr' = [rthr EXCEPT ![t] = q],
         Placed(q)
  PROVE  /\ \A u \in Tb!Threads : Placed(rthr[u])'
         /\ rthr' \in [Tb!Threads -> TabThread]
<1>1. /\ rthr' \in [Tb!Threads -> TabThread] /\ rthr'[t] = q
      /\ \A u \in Tb!Threads : u # t => rthr'[u] = rthr[u]
  BY Moved DEF TabInv
<1>2. \A u \in Tb!Threads : Placed(rthr'[u])
  BY <1>1 DEF TabInv
<1> QED
  BY <1>1, <1>2 DEF Placed

\* A thread moves to a record and fewer indices are free; the entries and their results
\* stay.
LEMMA FewerMove ==
  ASSUME TabInv, NEW t \in Tb!Threads, NEW q \in TabThread, rthr' = [rthr EXCEPT ![t] = q],
         UNCHANGED <<conn, dbs, sram, todo, router>>, Fewer, FreeInv', router # "STOP",
         srmap' \in [Tb!Results -> Nat], MapInv', SlotInv',
         Placed(q), conn[Npu] => Relies(q), Has(q) => TakenNext(q),
         Has(q) => \A u \in Tb!Threads : u # t /\ Has(rthr[u]) => Apart(rthr[u], q)
  PROVE  TabInv'
<1>1. /\ rthr'[t] = q
      /\ \A u \in Tb!Threads : u # t => rthr'[u] = rthr[u]
  BY Moved DEF TabInv
<1>2. \A u \in Tb!Threads : Placed(rthr[u])'
  BY PlacedMoved
<1>3. TabTypes'
  BY PlacedMoved DEF TabInv, TabTypes
<1>4. EntryInv'
  BY EntriesKeep
<1>5. MoveKeeps(t, q)
  <2>1. ASSUME NEW u \in Tb!Threads, NEW p \in TabThread, p = rthr[u], Has(p)
        PROVE  TakenNext(p)
    <3>1. TakenOk(p)
      BY <2>1 DEF TabInv, TakenInv
    <3> QED
      BY <3>1, TakenKeeps
  <2> QED
    BY <2>1 DEF MoveKeeps
<1>6. TakenInv' /\ ApartInv'
  BY <1>5, ApartMoved
<1>7. ASSUME conn'[Npu], NEW u \in Tb!Threads
      PROVE  Relies(rthr[u])'
  <2>1. Relies(rthr'[u])
    BY <1>1, <1>7 DEF TabInv
  <2> QED
    BY <2>1 DEF Relies, Db
<1>8. StartInv'
  BY DEF TabInv, StartInv, Db
<1> QED
  BY <1>2, <1>3, <1>4, <1>6, <1>7, <1>8 DEF TabInv

\* The daemon ends: every thread is idle.
LEMMA AllIdle ==
  ASSUME TabInv, rthr' = [t \in Tb!Threads |-> Tb!Idle], router' = "EXIT",
         UNCHANGED <<conn, dbs, sram, srmap, todo>>, Fewer, FreeInv'
  PROVE  TabInv'
<1>1. rthr' \in [Tb!Threads -> TabThread] /\ \A u \in Tb!Threads : rthr'[u] = Tb!Idle
  BY IdleIs
<1>2. \A u \in Tb!Threads : Placed(rthr[u])'
  <2>1. \A u \in Tb!Threads : Placed(rthr'[u])
    BY <1>1, IdleIs
  <2> QED
    BY <2>1 DEF Placed
<1>3. \A u \in Tb!Threads : ~Has(rthr[u])'
  <2>1. \A u \in Tb!Threads : ~Has(rthr'[u])
    BY <1>1, IdleIs
  <2> QED
    BY <2>1 DEF Has
<1>4. TabTypes'
  BY <1>1 DEF TabInv, TabTypes
<1>5. EntryInv'
  BY EntriesKeep
<1>6. TakenInv' /\ ApartInv'
  BY <1>3 DEF TakenInv, ApartInv
<1>7. \A u \in Tb!Threads : Relies(rthr[u])'
  <2>1. \A u \in Tb!Threads : Relies(rthr'[u])
    BY <1>1, IdleIs DEF Relies
  <2> QED
    BY <2>1 DEF Relies, Db
<1>8. MapInv'
  <2>1. \A a \in Tb!Results : a \in Nat
    BY SlotsAreNat
  <2>2. \A a \in Tb!Results : FreeSlot(a)' => FreeSlot(a)
    BY <2>1, FewerFree
  <2> QED
    BY <2>2 DEF TabInv, MapInv
<1>9. SlotInv' /\ StartInv'
  <2>1. router' # "INIT" /\ router' # "START" /\ router' # "STOP"
    OBVIOUS
  <2> QED
    BY <2>1 DEF TabInv, SlotInv, StartInv, Db
<1> QED
  BY <1>2, <1>4, <1>5, <1>6, <1>7, <1>8, <1>9 DEF TabInv

\* FreeInv of any lists.
FreeOk(f) ==
  /\ f \in [Tb!Lists -> Seq(Nat \X Nat)]
  /\ \A l \in Tb!Lists : Sorted(f[l])
  /\ \A l, m \in Tb!Lists : \A x \in Nat :
       Tb!DbOf(l) = Tb!DbOf(m) /\ Tb!Holds(f[l], x) /\ Tb!Holds(f[m], x) => l = m
  /\ \A a \in Nat : Tb!Holds(f[SlotList], a) => a \in Tb!Results

\* FreeInv is FreeOk of the lists.
LEMMA FreeInvIs == FreeInv <=> FreeOk(free)
BY DEF FreeInv, FreeOk, Held, FreeSlot

\* The same for the next state.
LEMMA FreeInvNext ==
  ASSUME NEW h, free' = h
  PROVE  /\ FreeOk(h) => FreeInv'
         /\ \A l, x : Held(l, x)' <=> Tb!Holds(h[l], x)
         /\ \A a : FreeSlot(a)' <=> Tb!Holds(h[SlotList], a)
         /\ \A d, x : FreeIndex(d, x)' <=> \E l \in Tb!Lists : Tb!DbOf(l) = d /\ Tb!Holds(h[l], x)
<1>1. \A l, x : Held(l, x)' <=> Tb!Holds(h[l], x)
  BY DEF Held, Tb!Holds
<1>2. \A a : FreeSlot(a)' <=> Tb!Holds(h[SlotList], a)
  BY DEF FreeSlot, Held, Tb!Holds
<1>3. \A d, x : FreeIndex(d, x)' <=> \E l \in Tb!Lists : Tb!DbOf(l) = d /\ Tb!Holds(h[l], x)
  BY DEF FreeIndex, Held, Tb!Holds
<1>4. FreeOk(h) => FreeInv'
  BY DEF FreeOk, FreeInv, Held, FreeSlot, Sorted, Tb!Holds
<1> QED
  BY <1>1, <1>2, <1>3, <1>4

\* A list that loses its first index.
Takes(f, l, g, h) ==
  /\ FreeOk(f) /\ l \in Tb!Lists /\ f[l] # <<>>
  /\ g = Tb!get_free_index(f[l]) /\ h = [f EXCEPT ![l] = g.list]

\* What is free after get_free_index.
LEMMA TakeFrom ==
  ASSUME NEW f, NEW l, NEW g, NEW h, Takes(f, l, g, h)
  PROVE  /\ FreeOk(h) /\ g.index \in Nat /\ Tb!Holds(f[l], g.index)
         /\ \A m \in Tb!Lists : \A x \in Nat :
              Tb!Holds(h[m], x) <=> (Tb!Holds(f[m], x) /\ ~(m = l /\ x = g.index))
<1>0. /\ FreeOk(f) /\ l \in Tb!Lists /\ f[l] # <<>>
      /\ g = Tb!get_free_index(f[l]) /\ h = [f EXCEPT ![l] = g.list]
  BY DEF Takes
<1>1. /\ g.index \in Nat /\ g.list \in Seq(Nat \X Nat) /\ Sorted(g.list)
      /\ Tb!Holds(f[l], g.index)
      /\ \A x \in Nat : Tb!Holds(g.list, x) <=> (Tb!Holds(f[l], x) /\ x # g.index)
  BY <1>0, TakeIndex DEF FreeOk
<1>2. /\ h \in [Tb!Lists -> Seq(Nat \X Nat)] /\ h[l] = g.list
      /\ \A m \in Tb!Lists : m # l => h[m] = f[m]
  BY <1>0, <1>1 DEF FreeOk
<1>3. \A m \in Tb!Lists : \A x \in Nat :
        Tb!Holds(h[m], x) <=> (Tb!Holds(f[m], x) /\ ~(m = l /\ x = g.index))
  BY <1>1, <1>2
<1>4. \A m \in Tb!Lists : Sorted(h[m])
  BY <1>0, <1>1, <1>2 DEF FreeOk
<1>5. FreeOk(h)
  BY <1>0, <1>2, <1>3, <1>4, SlotListIs DEF FreeOk
<1> QED
  BY <1>1, <1>3, <1>5

\* A list that gets an index back. A list that does not exist changes nothing.
Gives(f, l, x, h) ==
  /\ FreeOk(f) /\ x \in Nat
  /\ \A m \in Tb!Lists : Tb!DbOf(m) = Tb!DbOf(l) => ~Tb!Holds(f[m], x)
  /\ l = SlotList => x \in Tb!Results
  /\ h = [f EXCEPT ![l] = Tb!add_free_index(f[l], x)]

\* What is free after add_free_index.
LEMMA GiveTo ==
  ASSUME NEW f, NEW l, NEW x, NEW h, Gives(f, l, x, h)
  PROVE  /\ FreeOk(h)
         /\ \A m \in Tb!Lists : \A y \in Nat :
              Tb!Holds(h[m], y) <=> (Tb!Holds(f[m], y) \/ (m = l /\ y = x))
<1>0. /\ FreeOk(f) /\ x \in Nat
      /\ \A m \in Tb!Lists : Tb!DbOf(m) = Tb!DbOf(l) => ~Tb!Holds(f[m], x)
      /\ l = SlotList => x \in Tb!Results
      /\ h = [f EXCEPT ![l] = Tb!add_free_index(f[l], x)]
  BY DEF Gives
<1> USE <1>0
<1>1. CASE l \notin Tb!Lists
  <2>1. h = f
    BY <1>1 DEF FreeOk
  <2> QED
    BY <1>1, <2>1
<1>2. CASE l \in Tb!Lists
  <2> DEFINE s == Tb!add_free_index(f[l], x)
  <2>1. /\ s \in Seq(Nat \X Nat) /\ Sorted(s)
        /\ \A y \in Nat : Tb!Holds(s, y) <=> (Tb!Holds(f[l], y) \/ y = x)
    <3>1. f[l] \in Seq(Nat \X Nat) /\ Sorted(f[l]) /\ ~Tb!Holds(f[l], x)
      BY <1>2 DEF FreeOk
    <3> QED
      BY <3>1, GiveIndex
  <2>2. h = [f EXCEPT ![l] = s]
    OBVIOUS
  <2> HIDE DEF s
  <2>3. /\ h \in [Tb!Lists -> Seq(Nat \X Nat)] /\ h[l] = s
        /\ \A m \in Tb!Lists : m # l => h[m] = f[m]
    BY <1>2, <2>1, <2>2 DEF FreeOk
  <2>4. \A m \in Tb!Lists : \A y \in Nat :
          Tb!Holds(h[m], y) <=> (Tb!Holds(f[m], y) \/ (m = l /\ y = x))
    BY <2>1, <2>3
  <2>5. \A m \in Tb!Lists : Sorted(h[m])
    BY <2>1, <2>3 DEF FreeOk
  <2>6. ASSUME NEW k \in Tb!Lists, NEW m \in Tb!Lists, NEW y \in Nat,
               Tb!DbOf(k) = Tb!DbOf(m), Tb!Holds(h[k], y), Tb!Holds(h[m], y)
        PROVE  k = m
    <3>1. CASE y = x
      <4>1. /\ k = l \/ Tb!Holds(f[k], x)
            /\ m = l \/ Tb!Holds(f[m], x)
        BY <2>4, <2>6, <3>1
      <4>2. k = l => m = l
        BY <2>6, <4>1
      <4>3. m = l => k = l
        BY <2>6, <4>1
      <4>4. CASE k # l /\ m # l
        BY <2>6, <4>1, <4>4 DEF FreeOk
      <4> QED
        BY <4>2, <4>3, <4>4
    <3>2. CASE y # x
      BY <2>4, <2>6, <3>2 DEF FreeOk
    <3> QED
      BY <3>1, <3>2
  <2>7. \A a \in Nat : Tb!Holds(h[SlotList], a) => a \in Tb!Results
    BY <2>4, SlotListIs DEF FreeOk
  <2>8. FreeOk(h)
    BY <2>3, <2>5, <2>6, <2>7 DEF FreeOk
  <2> QED
    BY <2>4, <2>8
<1> QED
  BY <1>1, <1>2

-----------------------------------------------------------------------------
(* An add: Alloc, WriteResult, WriteTcam, and the exceptions.              *)

\* A thread that works is one of a daemon that was started.
LEMMA Running ==
  ASSUME TabInv, NEW t \in Tb!Threads
  PROVE  /\ rthr[t] \in TabThread /\ Placed(rthr[t])
         /\ rthr[t].pc # "idle" => router \in {"INIT", "START", "EXIT"}
<1>1. rthr[t] \in TabThread /\ Placed(rthr[t]) /\ router \in {"STOP", "INIT", "START", "EXIT"}
  BY DEF TabInv, TabTypes
<1>2. rthr[t].pc # "idle" => router # "STOP"
  BY IdleIs DEF TabInv, StartInv
<1> QED
  BY <1>1, <1>2

\* The result map, when no slot is given back.
LEMMA MapKeeps ==
  ASSUME MapInv, UNCHANGED srmap, Fewer
  PROVE  MapInv'
<1>1. \A a \in Tb!Results : a \in Nat
  BY SlotsAreNat
<1>2. \A a \in Tb!Results : FreeSlot(a)' => FreeSlot(a)
  BY <1>1, FewerFree
<1> QED
  BY <1>2 DEF MapInv

\* An exception of a thread that drops what it had.
LEMMA ThrowLost ==
  ASSUME TabInv, NEW t \in Tb!Threads, Tb!Throw(t), rthr[t].pc # "idle",
         UNCHANGED <<conn, dbs, sram, srmap, todo>>, Fewer, FreeInv', lost' = TRUE
  PROVE  TabInv'
<1>1. CASE t = Tb!Main
  BY <1>1, AllIdle DEF Tb!Throw
<1>2. CASE t # Tb!Main
  <2>1. rthr' = [rthr EXCEPT ![t] = Tb!Idle] /\ UNCHANGED router
    BY <1>2 DEF Tb!Throw
  <2>2. MapInv'
    BY MapKeeps DEF TabInv
  <2>3. SlotInv'
    BY DEF SlotInv
  <2>4. srmap' \in [Tb!Results -> Nat]
    BY DEF TabInv, TabTypes
  <2>5. Relies(Tb!Idle)
    BY IdleIs DEF Relies
  <2>6. router # "STOP"
    BY Running
  <2> QED
    BY <2>1, <2>2, <2>3, <2>4, <2>5, <2>6, IdleIs, FewerMove
<1> QED
  BY <1>1, <1>2

\* An exception of a thread that has nothing.
LEMMA ThrowQuiet ==
  ASSUME TabInv, NEW t \in Tb!Threads, Tb!Throw(t), rthr[t].pc # "idle", ~Has(rthr[t]),
         UNCHANGED <<conn, dbs, free, sram, srmap, todo, lost>>
  PROVE  TabInv'
<1>1. CASE t = Tb!Main
  <2>1. Fewer /\ FreeInv'
    BY SameFree DEF Fewer, TabInv
  <2> QED
    BY <1>1, <2>1, AllIdle DEF Tb!Throw
<1>2. CASE t # Tb!Main
  <2>1. rthr' = [rthr EXCEPT ![t] = Tb!Idle] /\ UNCHANGED router
    BY <1>2 DEF Tb!Throw
  <2>2. Relies(Tb!Idle)
    BY IdleIs DEF Relies
  <2>3. router' \in {"INIT", "START", "EXIT"} /\ todo' \in Seq(Nat)
    BY <2>1, Running DEF TabInv, TabTypes
  <2> QED
    BY <2>1, <2>2, <2>3, IdleIs, QuietMove
<1> QED
  BY <1>1, <1>2

-----------------------------------------------------------------------------
\* A thread takes the index x and the slot b.
LEMMA AllocTakes ==
  ASSUME TabInv, NEW t \in Tb!Threads, NEW r \in TabThread, r = rthr[t], Placed(r), ~Has(r),
         r.op = "add", router \in {"INIT", "START", "EXIT"},
         NEW x \in Nat, NEW b \in Nat, Held(r.list, x), FreeSlot(b),
         NEW k, FreeOk(k), free' = k,
         \A m \in Tb!Lists : \A y \in Nat :
           Tb!Holds(k[m], y) <=> Held(m, y) /\ ~(m = r.list /\ y = x) /\ ~(m = SlotList /\ y = b),
         NEW q, q = [r EXCEPT !.pc = "result", !.index = x, !.addr = b],
         rthr' = [rthr EXCEPT ![t] = q],
         srmap' = IF r.db = "arp" THEN srmap ELSE [srmap EXCEPT ![b] = @ + 1],
         UNCHANGED <<conn, dbs, todo, sram, lost, router>>
  PROVE  TabInv'
<1>2. r.list # SlotList /\ Tb!DbOf(r.list) = r.db /\ r.list \in Tb!Lists /\ r.db \in Databases
  <2>1. r.db # "sram" /\ r.db \in Databases
    BY DEF Databases, TabThread
  <2> QED
    BY <2>1, SlotListIs DEF Placed, TabThread
<1>b. \A a : FreeSlot(a)' <=> Tb!Holds(k[SlotList], a)
  BY FreeInvNext
<1>c. \A d, v : FreeIndex(d, v)' <=> \E l \in Tb!Lists : Tb!DbOf(l) = d /\ Tb!Holds(k[l], v)
  BY FreeInvNext
<1>3. Fewer /\ FreeInv'
  BY FreeInvNext DEF Fewer
<1>4. b \in Tb!Results /\ ~FreeSlot(b)'
  <2>1. b \in Tb!Results
    BY DEF TabInv, FreeInv
  <2>2. ~Tb!Holds(k[SlotList], b)
    BY SlotListIs
  <2> QED
    BY <1>b, <2>1, <2>2
<1>5. \A a \in Nat : FreeSlot(a) /\ a # b => FreeSlot(a)'
  <2>1. ASSUME NEW a \in Nat, FreeSlot(a), a # b
        PROVE  Tb!Holds(k[SlotList], a)
    BY <1>2, <2>1, SlotListIs DEF FreeSlot
  <2> QED
    BY <1>b, <2>1
<1>6. FreeIndex(r.db, x) /\ ~FreeIndex(r.db, x)'
  <2>1. FreeIndex(r.db, x)
    BY <1>2 DEF FreeIndex
  <2>2. ASSUME NEW l \in Tb!Lists, Tb!DbOf(l) = r.db, Tb!Holds(k[l], x)
        PROVE  FALSE
    <3>1. Held(l, x) /\ l # r.list
      BY <2>2
    <3> QED
      BY <1>2, <2>2, <3>1 DEF TabInv, FreeInv
  <2> QED
    BY <1>c, <2>1, <2>2
<1>7. /\ q \in TabThread /\ q.pc = "result" /\ q.db = r.db /\ q.index = x
      /\ q.addr = b /\ q.op = r.op /\ q.list = r.list /\ q.len = r.len
  BY DEF TabThread
<1>8. Placed(q) /\ Relies(q)
  <2>1. Placed(q)
    BY <1>7 DEF Placed
  <2> QED
    BY <1>7, <2>1 DEF Relies
<1>9. TakenNext(q)
  <2>1. ASSUME NEW d \in Databases, NEW i \in DOMAIN Db(d)
        PROVE  Db(d)[i].addr # b /\ (d = r.db => i # x)
    <3>1. EntryOk(d, i)
      BY DEF TabInv, EntryInv
    <3> QED
      BY <1>6, <3>1 DEF EntryOk
  <2>2. \A d : Db(d)' = Db(d)
    BY DEF Db
  <2>3. ~FreeSlot(q.addr)'
    BY <1>4, <1>7
  <2>4. ~FreeIndex(q.db, q.index)'
    BY <1>6, <1>7
  <2>5. q.index \notin DOMAIN Db(q.db)'
    BY <1>2, <1>7, <2>1, <2>2
  <2>6. \A d \in Databases : \A i \in DOMAIN Db(d)' : Db(d)'[i].addr # q.addr
    BY <1>7, <2>1, <2>2
  <2> QED
    BY <1>4, <1>7, <2>3, <2>4, <2>5, <2>6 DEF TakenNext
<1>10. \A u \in Tb!Threads : u # t /\ Has(rthr[u]) => Apart(rthr[u], q)
  <2>1. ASSUME NEW u \in Tb!Threads, Has(rthr[u])
        PROVE  Apart(rthr[u], q)
    <3>1. TakenOk(rthr[u])
      BY <2>1 DEF TabInv, TakenInv
    <3> QED
      BY <1>6, <1>7, <3>1 DEF TakenOk, Apart
  <2> QED
    BY <2>1
<1>11. srmap' \in [Tb!Results -> Nat] /\ MapInv'
  <2>1. srmap \in [Tb!Results -> Nat] /\ MapInv
    BY DEF TabInv, TabTypes
  <2>2. CASE r.db = "arp"
    <3>1. UNCHANGED srmap
      BY <2>2
    <3> QED
      BY <1>3, <2>1, <3>1, MapKeeps
  <2>3. CASE r.db # "arp"
    <3>1. srmap' = [srmap EXCEPT ![b] = srmap[b] + 1]
      BY <2>3
    <3>2. srmap[b] = 0
      BY <1>4, <2>1 DEF MapInv
    <3>3. /\ srmap' \in [Tb!Results -> Nat] /\ srmap'[b] = 1
          /\ \A a \in Tb!Results : a # b => srmap'[a] = srmap[a]
      BY <1>4, <2>1, <3>1, <3>2
    <3>4. \A a \in Tb!Results : FreeSlot(a)' => FreeSlot(a)
      <4>1. \A a \in Tb!Results : a \in Nat
        BY SlotsAreNat
      <4> QED
        BY <1>3, <4>1, FewerFree
    <3>5. ASSUME NEW a \in Tb!Results
          PROVE  srmap'[a] <= 1 /\ (srmap'[a] = 1 => ~FreeSlot(a)')
      <4>1. CASE a = b
        BY <1>4, <3>3, <4>1
      <4>2. CASE a # b
        BY <2>1, <3>3, <3>4, <4>2 DEF MapInv
      <4> QED
        BY <4>1, <4>2
    <3> QED
      BY <3>3, <3>5 DEF MapInv
  <2> QED
    BY <2>2, <2>3
<1>12. SlotInv'
  <2>1. /\ rthr'[t] = q
        /\ \A u \in Tb!Threads : u # t => rthr'[u] = rthr[u]
    BY <1>7, Moved DEF TabInv
  <2>2. ASSUME NEW a \in Tb!Results, Somewhere(a)
        PROVE  Somewhere(a)'
    <3>1. CASE FreeSlot(a)
      <4>1. CASE a = b
        <5>1. Has(rthr'[t]) /\ rthr'[t].addr = a
          BY <1>7, <2>1, <4>1 DEF Has
        <5> QED
          BY <5>1 DEF Somewhere, Has
      <4>2. CASE a # b
        <5>1. a \in Nat
          BY SlotsAreNat
        <5> QED
          BY <1>5, <3>1, <4>2, <5>1 DEF Somewhere
      <4> QED
        BY <4>1, <4>2
    <3>2. CASE \E d \in Databases : \E i \in DOMAIN Db(d) : Db(d)[i].addr = a
      BY <3>2 DEF Somewhere, Db
    <3>3. CASE \E u \in Tb!Threads : Has(rthr[u]) /\ rthr[u].addr = a
      <4>1. PICK u \in Tb!Threads : Has(rthr[u]) /\ rthr[u].addr = a
        BY <3>3
      <4>2. rthr'[u] = rthr[u]
        BY <2>1, <4>1
      <4> QED
        BY <4>1, <4>2 DEF Somewhere, Has
    <3> QED
      BY <2>2, <3>1, <3>2, <3>3 DEF Somewhere
  <2> QED
    BY <2>2 DEF TabInv, SlotInv
<1> QED
  BY <1>3, <1>7, <1>8, <1>9, <1>10, <1>11, <1>12, FewerMove

\* A thread takes its index and its slot (with conf_lock).
LEMMA AllocKeeps ==
  ASSUME TabInv, NEW t \in Tb!Threads, Tb!Alloc(t)
  PROVE  TabInv'
<1> DEFINE r == rthr[t]
           tcam == Tb!get_free_index(free[r.list])
           res == Tb!get_free_index(free[SlotList])
<1>1. /\ r \in TabThread /\ Placed(r) /\ r.pc = "alloc" /\ router \in {"INIT", "START", "EXIT"}
      /\ r.list \in Tb!Lists /\ r.db \in Databases
  BY Running DEF Tb!Alloc, TabThread
<1>2. ~Has(r) /\ r.op = "add" /\ Tb!DbOf(r.list) = r.db /\ r.list # SlotList
  <2>1. ~Has(r)
    BY <1>1 DEF Has
  <2>2. r.op = "add" /\ Tb!DbOf(r.list) = r.db
    BY <1>1 DEF Placed
  <2>3. r.db # "sram"
    BY <1>1 DEF Databases
  <2> QED
    BY <2>1, <2>2, <2>3, SlotListIs
<1>3. UNCHANGED <<conn, dbs, todo, sram>>
  BY DEF Tb!Alloc
<1>4. FreeOk(free)
  BY FreeInvIs DEF TabInv
<1>5. CASE free[r.list] = <<>>
  <2>1. Tb!Throw(t) /\ UNCHANGED <<free, srmap, lost>>
    BY <1>5 DEF Tb!Alloc
  <2> QED
    BY <1>1, <1>2, <1>3, <2>1, ThrowQuiet
<1>6. CASE free[r.list] # <<>>
  <2> DEFINE h == [free EXCEPT ![r.list] = tcam.list]
  <2>1. /\ FreeOk(h) /\ tcam.index \in Nat /\ Held(r.list, tcam.index)
        /\ \A m \in Tb!Lists : \A x \in Nat :
             Tb!Holds(h[m], x) <=> Held(m, x) /\ ~(m = r.list /\ x = tcam.index)
    <3> HIDE DEF h, tcam
    <3>1. tcam = Tb!get_free_index(free[r.list]) /\ h = [free EXCEPT ![r.list] = tcam.list]
      BY DEF h, tcam
    <3>2. /\ FreeOk(h) /\ tcam.index \in Nat /\ Tb!Holds(free[r.list], tcam.index)
          /\ \A m \in Tb!Lists : \A x \in Nat :
               Tb!Holds(h[m], x) <=> Tb!Holds(free[m], x) /\ ~(m = r.list /\ x = tcam.index)
      <4> HIDE DEF r
      <4>1. Takes(free, r.list, tcam, h)
        BY <1>1, <1>4, <1>6, <3>1 DEF Takes
      <4> QED
        BY <4>1, TakeFrom
    <3> QED
      BY <3>2 DEF Held
  <2>2. CASE free[SlotList] = <<>>
    <3>1. free' = h /\ lost' = TRUE /\ Tb!Throw(t) /\ UNCHANGED srmap
      BY <1>6, <2>2 DEF Tb!Alloc, SlotList
    <3> HIDE DEF h
    <3>2. Fewer /\ FreeInv'
      BY <2>1, <3>1, FreeInvNext DEF Fewer
    <3> QED
      BY <1>1, <1>3, <3>1, <3>2, ThrowLost
  <2>3. CASE free[SlotList] # <<>>
    <3> DEFINE k == [h EXCEPT ![SlotList] = res.list]
               q == [r EXCEPT !.pc = "result", !.index = tcam.index, !.addr = res.index]
    <3>1. /\ free' = k
          /\ srmap' = IF r.db = "arp" THEN srmap ELSE [srmap EXCEPT ![res.index] = @ + 1]
          /\ rthr' = [rthr EXCEPT ![t] = q] /\ UNCHANGED <<lost, router>>
      <4>1. /\ free' = [free EXCEPT ![r.list] = tcam.list, ![SlotList] = res.list]
            /\ srmap' = IF r.db = "arp" THEN srmap ELSE [srmap EXCEPT ![res.index] = @ + 1]
            /\ rthr' = [rthr EXCEPT ![t].pc = "result", ![t].index = tcam.index,
                                   ![t].addr = res.index]
            /\ UNCHANGED <<lost, router>>
        BY <1>6, <2>3 DEF Tb!Alloc, SlotList
      <4>2. rthr' = [rthr EXCEPT ![t] = q]
        BY <4>1 DEF TabInv, TabTypes
      <4> QED
        BY <4>1, <4>2
    <3>2. /\ FreeOk(k) /\ res.index \in Nat /\ FreeSlot(res.index)
          /\ \A m \in Tb!Lists : \A x \in Nat :
               Tb!Holds(k[m], x) <=> Tb!Holds(h[m], x) /\ ~(m = SlotList /\ x = res.index)
      <4>1. h[SlotList] = free[SlotList]
        BY <1>2, <1>4, SlotListIs DEF FreeOk
      <4> HIDE DEF h
      <4>2. res = Tb!get_free_index(h[SlotList]) /\ h[SlotList] # <<>>
        BY <2>3, <4>1
      <4>3. k = [h EXCEPT ![SlotList] = res.list]
        OBVIOUS
      <4> HIDE DEF res, k
      <4>9. Takes(h, SlotList, res, k)
        BY <2>1, <4>2, <4>3, SlotListIs DEF Takes
      <4>4. Tb!Holds(h[SlotList], res.index)
        BY <4>9, TakeFrom
      <4>5. FreeSlot(res.index)
        BY <4>1, <4>4 DEF FreeSlot, Held
      <4>6. FreeOk(h)
        BY <2>1
      <4>7. /\ FreeOk(k) /\ res.index \in Nat
            /\ \A m \in Tb!Lists : \A x \in Nat :
                 Tb!Holds(k[m], x) <=> Tb!Holds(h[m], x) /\ ~(m = SlotList /\ x = res.index)
        BY <4>9, TakeFrom
      <4> QED
        BY <4>5, <4>7
    <3>3. \A m \in Tb!Lists : \A y \in Nat :
            Tb!Holds(k[m], y) <=> /\ Held(m, y) /\ ~(m = r.list /\ y = tcam.index)
                                  /\ ~(m = SlotList /\ y = res.index)
      <4> HIDE DEF h, k, tcam, res, r
      <4> QED
        BY <2>1, <3>2
    <3>4. free' = k /\ UNCHANGED <<lost, router>>
      BY <3>1
    <3>5. tcam.index \in Nat /\ Held(r.list, tcam.index)
      BY <2>1
    <3> HIDE DEF h, k, tcam, res
    <3> QED
      BY <1>1, <1>2, <1>3, <3>1, <3>2, <3>3, <3>4, <3>5, AllocTakes
  <2> QED
    BY <2>2, <2>3
<1> QED
  BY <1>5, <1>6

\* A delete or an ARP update finds the entry of its key.
LEMMA QueryKeeps ==
  ASSUME TabInv, NEW t \in Tb!Threads, Tb!QueryTcam(t)
  PROVE  TabInv'
<1> DEFINE r == rthr[t]
           found == IF conn[Npu] THEN Tb!TcamQuery(r) ELSE 0
<1>1. /\ r \in TabThread /\ Placed(r) /\ r.pc = "query" /\ router \in {"INIT", "START", "EXIT"}
      /\ r.db \in Databases /\ r.key \in Int
  BY Running DEF Tb!QueryTcam, TabThread
<1>2. ~Has(r)
  BY <1>1 DEF Has
<1>3. UNCHANGED <<conn, dbs, todo, free, sram, srmap, lost>>
  BY DEF Tb!QueryTcam
<1>4. CASE found = 0
  <2>1. Tb!Throw(t)
    BY <1>4 DEF Tb!QueryTcam
  <2> QED
    BY <1>1, <1>2, <1>3, <2>1, ThrowQuiet
<1>5. CASE found # 0
  <2> DEFINE q == [r EXCEPT !.addr = found, !.pc = IF r.op = "del" THEN "read" ELSE "update"]
  <2>1. rthr' = [rthr EXCEPT ![t] = q] /\ UNCHANGED router
    BY <1>5 DEF Tb!QueryTcam, TabInv, TabTypes
  <2>2. conn[Npu] /\ found = Tb!T!Query(Npu, r.db, r.key)
    BY <1>1, <1>5, TcamQueryIs
  <2>3. PICK i \in DOMAIN Db(r.db) :
          Db(r.db)[i].addr = found /\ (Db(r.db)[i].len = MaxPrefix => Db(r.db)[i].key = r.key)
    <3>1. dbs \in [Npus -> [Databases -> TcamDb]] /\ Tb!T!Query(Npu, r.db, r.key) # 0
      BY <1>5, <2>2 DEF TabInv, TabTypes
    <3> HIDE DEF r, found
    <3> QED
      BY <1>1, <2>2, <3>1, QueryFinds
  <2>4. found \in Tb!Results /\ found \in Nat
    <3>1. Db(r.db)[i] \in TabEntry
      BY <1>1, EntriesAre DEF TabInv, TabTypes
    <3> QED
      BY <2>3, <3>1, SlotsAreNat DEF TabEntry
  <2> HIDE DEF found
  <2>5. /\ q \in TabThread /\ q.pc = (IF r.op = "del" THEN "read" ELSE "update")
        /\ q.op = r.op /\ q.db = r.db /\ q.key = r.key /\ q.addr = found
    BY <1>1, <2>4 DEF TabThread
  <2> HIDE DEF q
  <2>6. (r.op = "del" /\ r.db # "arp") \/ (r.op = "update" /\ r.db = "arp")
    <3>1. r.op \in {"del", "update"}
      BY <1>1 DEF Placed
    <3>2. r.op = "del" => r.db # "arp"
      BY <1>1 DEF Placed
    <3>3. r.op = "update" => r.db = "arp"
      BY <1>1 DEF Placed
    <3> QED
      BY <3>1, <3>2, <3>3
  <2>7. Placed(q) /\ ~Has(q)
    BY <2>4, <2>5, <2>6 DEF Placed, Has
  <2>8. Relies(q)
    <3>1. CASE r.op = "del"
      BY <2>3, <2>5, <3>1 DEF Relies
    <3>2. CASE r.op = "update"
      <4>1. q.pc = "update" /\ r.db = "arp"
        BY <2>5, <2>6, <3>2
      <4>2. EntryOk("arp", i) /\ i \in DOMAIN Db("arp")
        BY <1>1, <2>3, <4>1 DEF TabInv, EntryInv
      <4>3. Db("arp")[i].addr = q.addr /\ Db("arp")[i].key = q.key
        BY <2>3, <2>5, <4>1, <4>2 DEF EntryOk
      <4> QED
        BY <4>1, <4>2, <4>3 DEF Relies
    <3> QED
      BY <2>6, <3>1, <3>2
  <2>9. router' \in {"INIT", "START", "EXIT"} /\ todo' \in Seq(Nat)
    BY <1>1, <1>3, <2>1 DEF TabInv, TabTypes
  <2> QED
    BY <1>1, <1>2, <1>3, <2>1, <2>5, <2>7, <2>8, <2>9, QuietMove
<1> QED
  BY <1>4, <1>5

\* The fourth word of a result is the index of its entry.
LEMMA ReadKeeps ==
  ASSUME TabInv, NEW t \in Tb!Threads, Tb!ReadIndex(t)
  PROVE  TabInv'
<1> DEFINE r == rthr[t]
           x == sram[r.addr].index
           q == [r EXCEPT !.index = x, !.pc = "remove"]
<1>1. /\ r \in TabThread /\ Placed(r) /\ r.pc = "read" /\ router \in {"INIT", "START", "EXIT"}
      /\ r.db \in Databases
  BY Running DEF Tb!ReadIndex, TabThread
<1>2. ~Has(r) /\ r.op = "del" /\ r.db # "arp" /\ r.addr \in Tb!Results
  BY <1>1 DEF Has, Placed
<1>3. UNCHANGED <<conn, dbs, todo, free, sram, srmap, lost, router>>
  BY DEF Tb!ReadIndex
<1>4. rthr' = [rthr EXCEPT ![t] = q]
  BY DEF Tb!ReadIndex, TabInv, TabTypes
<1>5. x \in Nat
  BY <1>2 DEF TabInv, TabTypes, Word
<1>6. conn[Npu] => x \in DOMAIN Db(r.db) /\ Db(r.db)[x].addr = r.addr
  <2>1. SUFFICES ASSUME conn[Npu]
                 PROVE  x \in DOMAIN Db(r.db) /\ Db(r.db)[x].addr = r.addr
    OBVIOUS
  <2>2. Relies(r)
    BY <2>1 DEF TabInv
  <2>3. PICK i \in DOMAIN Db(r.db) : Db(r.db)[i].addr = r.addr
    BY <1>1, <2>2 DEF Relies
  <2>4. EntryOk(r.db, i)
    BY <1>1 DEF TabInv, EntryInv
  <2>5. x = i
    BY <2>3, <2>4 DEF EntryOk
  <2> QED
    BY <2>3, <2>5
<1> HIDE DEF x
<1>7. /\ q \in TabThread /\ q.pc = "remove" /\ q.op = r.op /\ q.db = r.db /\ q.addr = r.addr
      /\ q.index = x
  BY <1>1, <1>5 DEF TabThread
<1> HIDE DEF q
<1>8. Placed(q) /\ ~Has(q)
  BY <1>1, <1>2, <1>7 DEF Placed, Has
<1>9. conn[Npu] => Relies(q)
  BY <1>6, <1>7 DEF Relies
<1>10. router' \in {"INIT", "START", "EXIT"} /\ todo' \in Seq(Nat)
  BY <1>1, <1>3 DEF TabInv, TabTypes
<1> QED
  BY <1>1, <1>2, <1>3, <1>4, <1>7, <1>8, <1>9, <1>10, QuietMove

-----------------------------------------------------------------------------
\* Without a connection there is no entry: the result may become anything.
LEMMA UpdateAlone ==
  ASSUME TabInv, NEW t \in Tb!Threads, rthr' = [rthr EXCEPT ![t] = Tb!Idle], ~conn[Npu],
         ~Has(rthr[t]), router # "STOP",
         UNCHANGED <<conn, dbs, todo, free, srmap, lost, router>>,
         sram' \in [Tb!Results -> Word]
  PROVE  TabInv'
<1>1. /\ rthr' \in [Tb!Threads -> TabThread] /\ rthr'[t] = Tb!Idle
      /\ \A u \in Tb!Threads : u # t => rthr'[u] = rthr[u]
  BY Moved, IdleIs DEF TabInv
<1>2. \A d \in Databases : DOMAIN Db(d) = {}
  BY DEF TabInv, StartInv
<1>3. Fewer /\ FreeInv'
  BY SameFree DEF Fewer, TabInv
<1>4. TabTypes'
  BY <1>1 DEF TabInv, TabTypes
<1>5. \A u \in Tb!Threads : Placed(rthr[u])'
  BY PlacedMoved, IdleIs
<1>6. EntryInv'
  BY <1>2 DEF EntryInv, Db
<1>7. MoveKeeps(t, Tb!Idle)
  <2>1. ASSUME NEW u \in Tb!Threads, NEW p \in TabThread, p = rthr[u], Has(p)
        PROVE  TakenNext(p)
    <3>1. TakenOk(p)
      BY <2>1 DEF TabInv, TakenInv
    <3> QED
      BY <1>3, <3>1, TakenKeeps
  <2> QED
    BY <2>1, IdleIs DEF MoveKeeps
<1>8. TakenInv' /\ ApartInv'
  BY <1>7, IdleIs, ApartMoved
<1>9. MapInv'
  BY <1>3, MapKeeps DEF TabInv
<1>10. SlotInv' /\ StartInv'
  BY DEF TabInv, SlotInv, StartInv, Db
<1>11. ~conn'[Npu]
  OBVIOUS
<1> QED
  BY <1>3, <1>4, <1>5, <1>6, <1>8, <1>9, <1>10, <1>11 DEF TabInv

\* update_arp rewrites the result of the address it is about.
LEMMA UpdateKeeps ==
  ASSUME TabInv, NEW t \in Tb!Threads, Tb!UpdateArp(t)
  PROVE  TabInv'
<1> DEFINE r == rthr[t]
           of == <<"arp", r.key, MaxPrefix>>
<1>1. /\ r \in TabThread /\ Placed(r) /\ r.pc = "update" /\ router \in {"INIT", "START", "EXIT"}
      /\ r.key \in Int
  BY Running DEF Tb!UpdateArp, TabThread
<1>2. ~Has(r) /\ r.addr \in Tb!Results
  BY <1>1 DEF Has, Placed
<1>3. /\ UNCHANGED <<conn, dbs, todo, free, srmap, lost, router>>
      /\ rthr' = [rthr EXCEPT ![t] = Tb!Idle]
      /\ sram' = [sram EXCEPT ![r.addr].of = of]
  BY DEF Tb!UpdateArp, Tb!Answer
<1>4. sram \in [Tb!Results -> Word] /\ todo \in Seq(Nat)
  BY DEF TabInv, TabTypes
<1>5. CASE conn[Npu]
  <2>1. Relies(r)
    BY <1>5 DEF TabInv
  <2>2. PICK i \in DOMAIN Db("arp") : Db("arp")[i].addr = r.addr /\ Db("arp")[i].key = r.key
    BY <1>1, <2>1 DEF Relies
  <2>3. EntryOk("arp", i)
    BY DEF TabInv, EntryInv, Databases
  <2>4. sram[r.addr].of = of
    BY <2>2, <2>3 DEF EntryOk
  <2>5. sram[r.addr] \in Word
    BY <1>2, <1>4
  <2>6. [sram[r.addr] EXCEPT !.of = of] = sram[r.addr]
    BY <2>4, <2>5 DEF Word
  <2>7. sram' = sram
    BY <1>2, <1>3, <1>4, <2>6
  <2>8. Relies(Tb!Idle)
    BY IdleIs DEF Relies
  <2> QED
    BY <1>1, <1>2, <1>3, <1>4, <2>7, <2>8, IdleIs, QuietMove
<1>6. CASE ~conn[Npu]
  <2>1. MaxPrefix \in Int /\ "arp" \in Databases
    BY TableAssumption DEF Databases
  <2>2. of \in Databases \X Int \X Int
    BY <1>1, <2>1
  <2> HIDE DEF of
  <2>3. sram[r.addr] \in Word
    BY <1>2, <1>4
  <2>4. [sram[r.addr] EXCEPT !.of = of] \in Word
    BY <2>2, <2>3 DEF Word
  <2>5. sram' \in [Tb!Results -> Word]
    BY <1>2, <1>3, <1>4, <2>4
  <2> QED
    BY <1>1, <1>2, <1>3, <1>6, <2>5, UpdateAlone
<1> QED
  BY <1>5, <1>6

\* A result is written before the entry that leads to it.
LEMMA WriteResultKeeps ==
  ASSUME TabInv, NEW t \in Tb!Threads, Tb!WriteResult(t)
  PROVE  TabInv'
<1> DEFINE r == rthr[t]
           w == Tb!ResultOf(r)
<1>1. /\ r \in TabThread /\ Placed(r) /\ r.pc = "result" /\ router \in {"INIT", "START", "EXIT"}
      /\ r.db \in Databases
  BY Running DEF Tb!WriteResult, TabThread
<1>2. Has(r) /\ TakenOk(r) /\ r.addr \in Tb!Results
  <2>1. Has(r)
    BY <1>1 DEF Has
  <2> QED
    BY <2>1 DEF TabInv, TakenInv, TakenOk
<1>3. /\ UNCHANGED <<conn, dbs, todo, free, srmap, lost, router>>
      /\ sram' = [sram EXCEPT ![r.addr] = w]
      /\ rthr' = [rthr EXCEPT ![t].pc = "tcam"]
  BY DEF Tb!WriteResult, Tb!Goto
<1>a. PICK q : q = [r EXCEPT !.pc = "tcam"]
  OBVIOUS
<1>4. rthr' = [rthr EXCEPT ![t] = q]
  BY <1>3, <1>a DEF TabInv, TabTypes
<1>5. /\ q \in TabThread /\ q.pc = "tcam" /\ q.op = r.op /\ q.db = r.db /\ q.addr = r.addr
      /\ q.index = r.index /\ q.key = r.key /\ q.len = r.len /\ q.list = r.list
  BY <1>1, <1>a DEF TabThread
<1>6. w \in Word /\ w = Tb!ResultOf(q)
  <2>1. w.of = <<r.db, r.key, r.len>> /\ w.index = r.index
    BY DEF Tb!ResultOf
  <2>2. r.key \in Int /\ r.len \in Int /\ r.index \in Nat
    BY <1>1 DEF TabThread
  <2>3. w \in Word
    <3>1. <<r.db, r.key, r.len>> \in Databases \X Int \X Int
      BY <1>1, <2>2
    <3> QED
      BY <2>2, <3>1 DEF Word, Tb!ResultOf
  <2>4. w = Tb!ResultOf(q)
    BY <1>5 DEF Tb!ResultOf
  <2> QED
    BY <2>3, <2>4
<1> HIDE DEF w
<1>7. /\ sram' \in [Tb!Results -> Word] /\ sram'[r.addr] = w
      /\ \A a \in Tb!Results : a # r.addr => sram'[a] = sram[a]
  BY <1>2, <1>3, <1>6 DEF TabInv, TabTypes
<1>8. Placed(q)
  BY <1>1, <1>5 DEF Placed
<1>9. /\ rthr' \in [Tb!Threads -> TabThread] /\ rthr'[t] = q
      /\ \A u \in Tb!Threads : u # t => rthr'[u] = rthr[u]
  BY <1>4, <1>5, Moved DEF TabInv
<1>10. \A u \in Tb!Threads : Placed(rthr[u])'
  BY <1>4, <1>5, <1>8, PlacedMoved
<1>11. TabTypes'
  BY <1>3, <1>7, <1>9 DEF TabInv, TabTypes
<1>12. Fewer /\ FreeInv'
  BY <1>3, SameFree DEF Fewer, TabInv
<1>13. EntryInv'
  <2>1. ASSUME NEW d \in Databases, NEW i \in DOMAIN Db(d)
        PROVE  EntryOk(d, i)'
    <3>1. EntryOk(d, i)
      BY DEF TabInv, EntryInv
    <3>2. Db(d)[i].addr # r.addr
      BY <1>2 DEF TakenOk
    <3>3. Db(d)[i].addr \in Tb!Results
      BY EntriesAre DEF TabInv, TabTypes, TabEntry
    <3>4. sram'[Db(d)[i].addr] = sram[Db(d)[i].addr]
      BY <1>7, <3>2, <3>3
    <3>5. Db(d)' = Db(d)
      BY <1>3 DEF Db
    <3>6. FreeSlot(Db(d)[i].addr)' <=> FreeSlot(Db(d)[i].addr)
      BY <1>3, <3>5 DEF FreeSlot, Held, Db
    <3>7. FreeIndex(d, i)' <=> FreeIndex(d, i)
      BY <1>3, SameFree
    <3> QED
      BY <3>1, <3>4, <3>5, <3>6, <3>7 DEF EntryOk
  <2> QED
    BY <1>3, <2>1 DEF EntryInv, Db
<1>14. ASSUME NEW u \in Tb!Threads, NEW p \in TabThread, p = rthr[u], Has(p)
       PROVE  TakenNext(p)
  <2>1. TakenOk(p)
    BY <1>14 DEF TabInv, TakenInv
  <2> QED
    BY <1>3, <1>12, <2>1, TakenKeeps
<1>15. TakenNext(q)
  <2>2. PICK p \in TabThread : p = r
    BY <1>1
  <2>3. TakenNext(p) /\ q.addr = p.addr /\ q.index = p.index /\ q.db = p.db
    BY <1>2, <1>5, <1>14, <2>2
  <2> QED
    BY <2>3 DEF TakenNext
<1>16. \A u \in Tb!Threads : u # t /\ Has(rthr[u]) => Apart(rthr[u], q)
  BY <1>2, <1>5 DEF TabInv, ApartInv, Apart
<1>17. TakenInv' /\ ApartInv'
  <2>1. MoveKeeps(t, q)
    BY <1>14, <1>15, <1>16 DEF MoveKeeps
  <2> QED
    BY <1>4, <1>5, <2>1, ApartMoved
<1>18. ASSUME conn'[Npu], NEW u \in Tb!Threads
       PROVE  Relies(rthr[u])'
  <2>1. CASE u = t
    <3>1. rthr'[u] = q /\ sram'[q.addr] = Tb!ResultOf(q)
      BY <1>5, <1>6, <1>7, <1>9, <2>1
    <3> QED
      BY <1>5, <3>1 DEF Relies, Tb!ResultOf
  <2>2. CASE u # t
    <3>1. rthr'[u] = rthr[u] /\ Relies(rthr[u])
      BY <1>3, <1>9, <1>18, <2>2 DEF TabInv
    <3>2. rthr[u].pc = "tcam" => sram'[rthr[u].addr] = sram[rthr[u].addr]
      <4>1. SUFFICES ASSUME rthr[u].pc = "tcam"
                     PROVE  sram'[rthr[u].addr] = sram[rthr[u].addr]
        OBVIOUS
      <4>2. Has(rthr[u])
        BY <4>1 DEF Has
      <4>3. rthr[u].addr \in Tb!Results /\ rthr[u].addr # r.addr
        BY <1>2, <2>2, <4>2 DEF TabInv, TakenInv, TakenOk, ApartInv, Apart
      <4> QED
        BY <1>7, <4>3
    <3> QED
      BY <1>3, <3>1, <3>2 DEF Relies, Db, Tb!ResultOf
  <2> QED
    BY <2>1, <2>2
<1>19. MapInv'
  BY <1>3, <1>12, MapKeeps DEF TabInv
<1>20. SlotInv'
  <2>1. ASSUME NEW a \in Tb!Results, Somewhere(a)
        PROVE  Somewhere(a)'
    <3>1. CASE FreeSlot(a)
      BY <1>3, <3>1, SameFree DEF Somewhere
    <3>2. CASE \E d \in Databases : \E i \in DOMAIN Db(d) : Db(d)[i].addr = a
      BY <1>3, <3>2 DEF Somewhere, Db
    <3>3. CASE \E u \in Tb!Threads : Has(rthr[u]) /\ rthr[u].addr = a
      <4>1. PICK u \in Tb!Threads : Has(rthr[u]) /\ rthr[u].addr = a
        BY <3>3
      <4>2. Has(rthr'[u]) /\ rthr'[u].addr = a
        BY <1>5, <1>9, <4>1 DEF Has
      <4> QED
        BY <4>2 DEF Somewhere, Has
    <3> QED
      BY <2>1, <3>1, <3>2, <3>3 DEF Somewhere
  <2> QED
    BY <1>3, <2>1 DEF TabInv, SlotInv
<1>21. StartInv'
  BY <1>1, <1>3 DEF TabInv, StartInv, Db
<1> QED
  BY <1>10, <1>11, <1>12, <1>13, <1>17, <1>18, <1>19, <1>20, <1>21 DEF TabInv

\* A failed command drops the indices of the thread.
LEMMA TcamFailKeeps ==
  ASSUME TabInv, NEW t \in Tb!Threads, Tb!WriteTcam(t),
         ~(conn[Npu] /\ Tb!T!AddResponse(Npu, rthr[t].db, rthr[t].index) = "SUCCESS")
  PROVE  TabInv'
<1>1. /\ Tb!Throw(t) /\ lost' = TRUE /\ rthr[t].pc # "idle"
      /\ UNCHANGED <<conn, dbs, todo, free, sram, srmap>>
  BY DEF Tb!WriteTcam
<1>2. Fewer /\ FreeInv'
  BY <1>1, SameFree DEF Fewer, TabInv
<1> QED
  BY <1>1, <1>2, ThrowLost

\* The entry of a thread goes into the TCAM.
LEMMA EntryJoins ==
  ASSUME TabInv, NEW t \in Tb!Threads, NEW r \in TabThread, r = rthr[t], r.pc = "tcam",
         conn[Npu], NEW e \in TabEntry, e.key = r.key, e.len = r.len, e.addr = r.addr, Adds(r.db, r.index, e),
         rthr' = [rthr EXCEPT ![t] = Tb!Idle],
         UNCHANGED <<conn, todo, free, sram, srmap, lost, router>>
  PROVE  TabInv'
<1>1. Placed(r) /\ router \in {"INIT", "START", "EXIT"} /\ r.db \in Databases /\ r.index \in Nat
  BY Running DEF TabThread
<1>2. Has(r) /\ TakenOk(r) /\ r.addr \in Tb!Results
  <2>1. Has(r)
    BY DEF Has
  <2> QED
    BY <2>1 DEF TabInv, TakenInv, TakenOk
<1>3. e \in TabEntry /\ e.key = r.key /\ e.len = r.len /\ e.addr = r.addr
  OBVIOUS
<1>4. /\ dbs' \in [Npus -> [Databases -> TcamDb]]
      /\ DOMAIN Db(r.db)' = DOMAIN Db(r.db) \cup {r.index}
      /\ Db(r.db)'[r.index] = e
      /\ \A j \in DOMAIN Db(r.db) : Db(r.db)'[j] = Db(r.db)[j]
      /\ \A c \in Databases : c # r.db => Db(c)' = Db(c)
  <2>1. Added(r.db, r.index, e)
    BY AddEffect
  <2> QED
    BY <2>1 DEF Added
<1>5. /\ rthr' \in [Tb!Threads -> TabThread] /\ rthr'[t] = Tb!Idle
      /\ \A u \in Tb!Threads : u # t => rthr'[u] = rthr[u]
  BY IdleIs, Moved DEF TabInv
<1>6. \A u \in Tb!Threads : Placed(rthr[u])'
  BY IdleIs, PlacedMoved
<1>7. TabTypes'
  BY <1>4, <1>5 DEF TabInv, TabTypes
<1>8. FreeInv'
  BY SameFree DEF TabInv
\* Every entry is the new one or an old one.
<1>9. ASSUME NEW d \in Databases, NEW i \in DOMAIN Db(d)'
      PROVE  \/ d = r.db /\ i = r.index
             \/ i \in DOMAIN Db(d) /\ Db(d)'[i] = Db(d)[i]
  BY <1>4
<1>10. ASSUME NEW d \in Databases, NEW i \in DOMAIN Db(d)
       PROVE  i \in DOMAIN Db(d)' /\ Db(d)'[i] = Db(d)[i]
  BY <1>4
<1>11. ASSUME NEW d \in Databases, NEW i, i \in DOMAIN Db(d)'
       PROVE  EntryOk(d, i)'
  <2>1. CASE d = r.db /\ i = r.index
    <3>1. Db(d)'[i] = e
      BY <1>4, <2>1
    <3>2. sram'[r.addr] = [of |-> <<d, e.key, e.len>>, index |-> i]
      <4>1. Relies(r)
        BY DEF TabInv
      <4> QED
        BY <1>3, <2>1, <4>1 DEF Relies, Tb!ResultOf
    <3>3. ~FreeSlot(r.addr)' /\ ~FreeIndex(d, i)'
      BY <1>2, <2>1, SameFree DEF TakenOk
    <3>4. d = "arp" => e.len = MaxPrefix
      BY <1>1, <1>3, <2>1 DEF Placed
    <3> QED
      BY <1>3, <3>1, <3>2, <3>3, <3>4 DEF EntryOk
  <2>2. CASE i \in DOMAIN Db(d) /\ Db(d)'[i] = Db(d)[i]
    <3>1. EntryOk(d, i)
      BY <2>2 DEF TabInv, EntryInv
    <3>2. FreeSlot(Db(d)[i].addr)' <=> FreeSlot(Db(d)[i].addr)'
      OBVIOUS
    <3>3. PICK a : a = Db(d)[i].addr
      OBVIOUS
    <3>4. ~FreeSlot(a)' /\ ~FreeIndex(d, i)'
      BY <3>1, <3>3, SameFree DEF EntryOk
    <3> QED
      BY <2>2, <3>1, <3>3, <3>4 DEF EntryOk
  <2> QED
    BY <1>9, <1>11, <2>1, <2>2
<1>12. EntryInv'
  BY <1>11 DEF EntryInv
<1>13. MoveKeeps(t, Tb!Idle)
  <2>1. ASSUME NEW u \in Tb!Threads, u # t, NEW p \in TabThread, p = rthr[u], Has(p)
        PROVE  TakenNext(p)
    <3>1. TakenOk(p) /\ Apart(p, r)
      BY <1>2, <2>1 DEF TabInv, TakenInv, ApartInv
    <3>2. ~FreeSlot(p.addr)' /\ ~FreeIndex(p.db, p.index)' /\ p.addr \in Tb!Results
      BY <3>1, SameFree DEF TakenOk
    <3>3. p.db \in Databases
      BY DEF TabThread
    <3>4. p.index \notin DOMAIN Db(p.db)'
      BY <1>9, <3>1, <3>3 DEF TakenOk, Apart
    <3>5. \A d \in Databases : \A i \in DOMAIN Db(d)' : Db(d)'[i].addr # p.addr
      BY <1>3, <1>4, <1>9, <3>1 DEF TakenOk, Apart
    <3> QED
      BY <3>2, <3>4, <3>5 DEF TakenNext
  <2> QED
    BY <2>1, IdleIs DEF MoveKeeps
<1>14. TakenInv' /\ ApartInv'
  BY <1>13, IdleIs, ApartMoved
<1>15. ASSUME NEW u \in Tb!Threads
       PROVE  Relies(rthr[u])'
  <2>1. CASE u = t
    <3>1. rthr'[u] = Tb!Idle
      BY <1>5, <2>1
    <3> QED
      BY <3>1, IdleIs DEF Relies
  <2>2. CASE u # t
    <3>1. rthr'[u] = rthr[u] /\ Relies(rthr[u]) /\ rthr[u].db \in Databases
      BY <1>5, <2>2 DEF TabInv, TabTypes, TabThread
    <3>2. "arp" \in Databases
      BY DEF Databases
    <3> QED
      BY <1>10, <3>1, <3>2 DEF Relies, Tb!ResultOf
  <2> QED
    BY <2>1, <2>2
<1>16. MapInv'
  BY SameFree DEF TabInv, MapInv
<1>17. SlotInv'
  <2>1. ASSUME NEW a \in Tb!Results, Somewhere(a)
        PROVE  Somewhere(a)'
    <3>1. CASE FreeSlot(a)
      BY <3>1, SameFree DEF Somewhere
    <3>2. CASE \E d \in Databases : \E i \in DOMAIN Db(d) : Db(d)[i].addr = a
      BY <1>10, <3>2 DEF Somewhere
    <3>3. CASE \E u \in Tb!Threads : Has(rthr[u]) /\ rthr[u].addr = a
      <4>1. PICK u \in Tb!Threads : Has(rthr[u]) /\ rthr[u].addr = a
        BY <3>3
      <4>2. CASE u = t
        <5>1. r.index \in DOMAIN Db(r.db)' /\ Db(r.db)'[r.index].addr = a
          BY <1>3, <1>4, <4>1, <4>2
        <5> QED
          BY <1>1, <5>1 DEF Somewhere
      <4>3. CASE u # t
        <5>1. rthr'[u] = rthr[u]
          BY <1>5, <4>3
        <5> QED
          BY <4>1, <5>1 DEF Somewhere, Has
      <4> QED
        BY <4>2, <4>3
    <3> QED
      BY <2>1, <3>1, <3>2, <3>3 DEF Somewhere
  <2> QED
    BY <2>1 DEF TabInv, SlotInv
<1>18. StartInv'
  BY <1>1 DEF TabInv, StartInv
<1> QED
  BY <1>6, <1>7, <1>8, <1>12, <1>14, <1>15, <1>16, <1>17, <1>18 DEF TabInv

\* The command to the TCAM daemon, answered or not.
LEMMA WriteTcamKeeps ==
  ASSUME TabInv, NEW t \in Tb!Threads, Tb!WriteTcam(t)
  PROVE  TabInv'
<1>1. CASE ~(conn[Npu] /\ Tb!T!AddResponse(Npu, rthr[t].db, rthr[t].index) = "SUCCESS")
  BY <1>1, TcamFailKeeps
<1>2. CASE conn[Npu] /\ Tb!T!AddResponse(Npu, rthr[t].db, rthr[t].index) = "SUCCESS"
  <2>1. PICK r \in TabThread : r = rthr[t]
    BY Running
  <2>2. /\ r.pc = "tcam" /\ dbs' = Tb!TcamAdd(rthr[t])
        /\ rthr' = [rthr EXCEPT ![t] = Tb!Idle]
        /\ UNCHANGED <<conn, todo, free, sram, srmap, lost, router>>
    BY <1>2, <2>1 DEF Tb!WriteTcam, Tb!Answer
  <2>3. r.index \notin DOMAIN Db(r.db)
    <3>1. "INUSE" # "SUCCESS"
      OBVIOUS
    <3> QED
      BY <1>2, <2>1, <3>1 DEF Tb!T!AddResponse, Db
  <2>4. r.db \in Databases /\ r.index \in Nat /\ r.addr \in Tb!Results
    <3>1. Has(rthr[t])
      BY <2>1, <2>2 DEF Has
    <3> QED
      BY <2>1, <3>1 DEF TabInv, TakenInv, TakenOk, TabThread
  <2>5. PICK e : e = Tb!TcamEntry(r)
    OBVIOUS
  <2>6. e \in TabEntry
    BY <2>4, <2>5 DEF Tb!TcamEntry, TabEntry, TabThread
  <2>7. Adds(r.db, r.index, e)
    BY <2>1, <2>2, <2>3, <2>4, <2>5, <2>6, TcamAddIs DEF Adds, TabInv, TabTypes
  <2>8. e.key = r.key /\ e.len = r.len /\ e.addr = r.addr
    BY <2>5 DEF Tb!TcamEntry
  <2> QED
    BY <1>2, <2>1, <2>2, <2>6, <2>7, <2>8, EntryJoins
<1> QED
  BY <1>1, <1>2

\* The entry of a thread leaves the TCAM; its index and its slot stay the thread's. Only
\* one thread deletes, so no other relies on the entry.
LEMMA EntryLeaves ==
  ASSUME TabInv, NEW t \in Tb!Threads, NEW r \in TabThread, r = rthr[t], r.pc = "remove",
         Placed(r), conn[Npu], Dels(r.db, r.index),
         NEW q \in TabThread, q.pc = "free", q.op = r.op, q.db = r.db, q.addr = r.addr,
         q.index = r.index, rthr' = [rthr EXCEPT ![t] = q],
         \A u \in Tb!Threads : u # t => rthr[u].op # "del",
         UNCHANGED <<conn, todo, free, sram, srmap, lost, router>>
  PROVE  TabInv'
<1>1. router \in {"INIT", "START", "EXIT"} /\ r.db \in Databases /\ r.op = "del" /\ r.db # "arp"
  <2>1. r.op = "del" /\ r.db # "arp"
    BY DEF Placed
  <2> QED
    BY <2>1, Running DEF TabThread
<1>2. /\ r.index \in DOMAIN Db(r.db) /\ Db(r.db)[r.index].addr = r.addr
      /\ r.addr \in Tb!Results /\ EntryOk(r.db, r.index)
  <2>1. r.index \in DOMAIN Db(r.db) /\ Db(r.db)[r.index].addr = r.addr
    BY DEF TabInv, Relies
  <2>2. Db(r.db)[r.index] \in TabEntry
    BY <1>1, <2>1, EntriesAre DEF TabInv, TabTypes
  <2> QED
    BY <1>1, <2>1, <2>2 DEF TabInv, EntryInv, TabEntry
<1>3. /\ dbs' \in [Npus -> [Databases -> TcamDb]]
      /\ DOMAIN Db(r.db)' = DOMAIN Db(r.db) \ {r.index}
      /\ \A j \in DOMAIN Db(r.db) : j # r.index => Db(r.db)'[j] = Db(r.db)[j]
      /\ \A c \in Databases : c # r.db => Db(c)' = Db(c)
  <2>1. Deleted(r.db, r.index)
    BY DelEffect
  <2> QED
    BY <2>1 DEF Deleted
<1>4. ASSUME NEW d \in Databases, NEW i, i \in DOMAIN Db(d)'
      PROVE  i \in DOMAIN Db(d) /\ Db(d)'[i] = Db(d)[i] /\ ~(d = r.db /\ i = r.index)
  BY <1>3, <1>4
<1>5. ASSUME NEW d \in Databases, NEW i, i \in DOMAIN Db(d), ~(d = r.db /\ i = r.index)
      PROVE  i \in DOMAIN Db(d)' /\ Db(d)'[i] = Db(d)[i]
  BY <1>3, <1>5
<1>6. /\ rthr' \in [Tb!Threads -> TabThread] /\ rthr'[t] = q
      /\ \A u \in Tb!Threads : u # t => rthr'[u] = rthr[u]
  BY Moved DEF TabInv
<1>7. Placed(q)
  BY <1>1 DEF Placed
<1>8. \A u \in Tb!Threads : Placed(rthr[u])'
  BY <1>7, PlacedMoved
<1>9. TabTypes'
  BY <1>3, <1>6 DEF TabInv, TabTypes
<1>10. FreeInv'
  BY SameFree DEF TabInv
<1>11. ASSUME NEW d \in Databases, NEW i, i \in DOMAIN Db(d)'
       PROVE  EntryOk(d, i)'
  <2>1. i \in DOMAIN Db(d) /\ Db(d)'[i] = Db(d)[i]
    BY <1>4, <1>11
  <2>2. EntryOk(d, i)
    BY <2>1 DEF TabInv, EntryInv
  <2>3. PICK a : a = Db(d)[i].addr
    OBVIOUS
  <2>4. ~FreeSlot(a)' /\ ~FreeIndex(d, i)'
    BY <2>2, <2>3, SameFree DEF EntryOk
  <2> QED
    BY <2>1, <2>2, <2>3, <2>4 DEF EntryOk
<1>12. EntryInv'
  BY <1>11 DEF EntryInv
<1>13. TakenNext(q)
  <2>1. ~FreeSlot(q.addr)' /\ ~FreeIndex(q.db, q.index)'
    BY <1>2, SameFree DEF EntryOk
  <2>2. q.index \notin DOMAIN Db(q.db)'
    BY <1>3
  <2>3. ASSUME NEW d \in Databases, NEW i, i \in DOMAIN Db(d)', Db(d)'[i].addr = q.addr
        PROVE  FALSE
    <3>1. i \in DOMAIN Db(d) /\ Db(d)[i].addr = r.addr /\ ~(d = r.db /\ i = r.index)
      BY <1>4, <2>3
    <3>2. EntryOk(d, i)
      BY <3>1 DEF TabInv, EntryInv
    <3>3. sram[r.addr].index = i /\ sram[r.addr].of[1] = d
      BY <3>1, <3>2 DEF EntryOk
    <3>4. sram[r.addr].index = r.index /\ sram[r.addr].of[1] = r.db
      BY <1>2 DEF EntryOk
    <3> QED
      BY <3>1, <3>3, <3>4
  <2> QED
    BY <1>2, <2>1, <2>2, <2>3 DEF TakenNext
<1>14. ASSUME NEW u \in Tb!Threads, u # t, NEW p \in TabThread, p = rthr[u], Has(p)
       PROVE  TakenNext(p) /\ Apart(p, q)
  <2>1. TakenOk(p)
    BY <1>14 DEF TabInv, TakenInv
  <2>2. ~FreeSlot(p.addr)' /\ ~FreeIndex(p.db, p.index)' /\ p.addr \in Tb!Results
    BY <2>1, SameFree DEF TakenOk
  <2>3. p.db \in Databases
    BY DEF TabThread
  <2>4. p.index \notin DOMAIN Db(p.db)'
    BY <1>4, <2>1, <2>3 DEF TakenOk
  <2>5. \A d \in Databases : \A i \in DOMAIN Db(d)' : Db(d)'[i].addr # p.addr
    BY <1>4, <2>1 DEF TakenOk
  <2>6. Apart(p, q)
    BY <1>1, <1>2, <2>1 DEF TakenOk, Apart
  <2> QED
    BY <2>2, <2>4, <2>5, <2>6 DEF TakenNext
<1>15. TakenInv' /\ ApartInv'
  <2>1. \A u \in Tb!Threads : u # t /\ Has(rthr[u]) => Apart(rthr[u], q)
    BY <1>14 DEF TabInv, TabTypes
  <2>2. MoveKeeps(t, q)
    BY <1>13, <1>14, <2>1 DEF MoveKeeps
  <2> QED
    BY <2>2, ApartMoved
<1>16. ASSUME NEW u \in Tb!Threads
       PROVE  Relies(rthr[u])'
  <2>1. CASE u = t
    <3>1. rthr'[u] = q
      BY <1>6, <2>1
    <3> QED
      BY <3>1 DEF Relies
  <2>2. CASE u # t
    <3>1. rthr'[u] = rthr[u] /\ Relies(rthr[u]) /\ Placed(rthr[u]) /\ rthr[u].op # "del"
      BY <1>6, <2>2 DEF TabInv
    <3>2. Db("arp")' = Db("arp")
      BY <1>1, <1>3 DEF Databases
    <3>3. rthr[u].pc \notin {"read", "remove"}
      BY <3>1 DEF Placed
    <3> QED
      BY <3>1, <3>2, <3>3 DEF Relies, Tb!ResultOf
  <2> QED
    BY <2>1, <2>2
<1>17. MapInv'
  BY SameFree DEF TabInv, MapInv
<1>18. SlotInv'
  <2>1. ASSUME NEW a \in Tb!Results, Somewhere(a)
        PROVE  Somewhere(a)'
    <3>0. Has(rthr'[t]) /\ rthr'[t].addr = r.addr
      BY <1>6 DEF Has
    <3>1. CASE FreeSlot(a)
      BY <3>1, SameFree DEF Somewhere
    <3>2. CASE \E d \in Databases : \E i \in DOMAIN Db(d) : Db(d)[i].addr = a
      <4>1. PICK d \in Databases : \E i \in DOMAIN Db(d) : Db(d)[i].addr = a
        BY <3>2
      <4>2. PICK i \in DOMAIN Db(d) : Db(d)[i].addr = a
        BY <4>1
      <4>3. CASE d = r.db /\ i = r.index
        <5>1. a = r.addr
          BY <1>2, <4>2, <4>3
        <5> QED
          BY <3>0, <5>1 DEF Somewhere, Has
      <4>4. CASE ~(d = r.db /\ i = r.index)
        BY <1>5, <4>2, <4>4 DEF Somewhere
      <4> QED
        BY <4>3, <4>4
    <3>3. CASE \E u \in Tb!Threads : Has(rthr[u]) /\ rthr[u].addr = a
      <4>1. PICK u \in Tb!Threads : Has(rthr[u]) /\ rthr[u].addr = a
        BY <3>3
      <4>2. rthr'[u] = rthr[u]
        BY <1>6, <4>1 DEF Has
      <4> QED
        BY <4>1, <4>2 DEF Somewhere, Has
    <3> QED
      BY <2>1, <3>1, <3>2, <3>3 DEF Somewhere
  <2> QED
    BY <2>1 DEF TabInv, SlotInv
<1>19. StartInv'
  BY <1>1 DEF TabInv, StartInv
<1> QED
  BY <1>8, <1>9, <1>10, <1>12, <1>15, <1>16, <1>17, <1>18, <1>19 DEF TabInv

\* The entry leaves the TCAM, or the command fails.
LEMMA RemoveKeeps ==
  ASSUME TabInv, OneDelete, kind = "tables", NEW t \in Tb!Threads, Tb!RemoveTcam(t)
  PROVE  TabInv'
<1>1. PICK r \in TabThread : r = rthr[t]
  BY Running
<1>2. Placed(r) /\ r.pc = "remove" /\ r.db \in Databases
  BY <1>1, Running DEF Tb!RemoveTcam, TabThread
<1>3. r.op = "del" /\ r.db # "arp" /\ ~Has(r)
  BY <1>2 DEF Placed, Has
<1>4. UNCHANGED <<conn, todo, free, sram, srmap, lost>>
  BY DEF Tb!RemoveTcam
<1>5. CASE ~conn[Npu]
  <2>1. UNCHANGED dbs /\ Tb!Throw(t)
    BY <1>5 DEF Tb!RemoveTcam
  <2> QED
    BY <1>1, <1>2, <1>3, <1>4, <2>1, ThrowQuiet
<1>6. CASE conn[Npu]
  <2>1. PICK q : q = [r EXCEPT !.pc = "free"]
    OBVIOUS
  <2>2. rthr' = [rthr EXCEPT ![t].pc = "free"] /\ UNCHANGED router
    BY <1>6 DEF Tb!RemoveTcam, Tb!Goto
  <2>3. rthr' = [rthr EXCEPT ![t] = q]
    BY <1>1, <2>1, <2>2 DEF TabInv, TabTypes
  <2>4. /\ q \in TabThread /\ q.pc = "free" /\ q.op = r.op /\ q.db = r.db /\ q.addr = r.addr
        /\ q.index = r.index
    BY <2>1 DEF TabThread
  <2>5. dbs' = Tb!T!DelEntry(Npu, r.db, r.index)
    <3>1. dbs' = CASE r.db = "route" -> Tb!T!delroute(Npu, r.index)
                   [] r.db = "pfilter" -> Tb!T!delpfilter(Npu, r.index)
                   [] r.db = "afilter" -> Tb!T!delafilter(Npu, r.index)
      BY <1>1, <1>6 DEF Tb!RemoveTcam
    <3> QED
      BY <1>2, <1>3, <3>1, TcamDelIs
  <2>6. Dels(r.db, r.index)
    BY <1>2, <2>5 DEF Dels, TabInv, TabTypes
  <2>7. \A u \in Tb!Threads : u # t => rthr[u].op # "del"
    BY <1>1, <1>3 DEF OneDelete
  <2> QED
    BY <1>1, <1>2, <1>4, <1>6, <2>2, <2>3, <2>4, <2>6, <2>7, EntryLeaves
<1> QED
  BY <1>5, <1>6

\* The list an index of a database goes back to is one of that database.
LEMMA ListOfIs ==
  ASSUME NEW d \in Databases, d # "arp", NEW x
  PROVE  Tb!DbOf(Tb!ListOf(d, x)) = d /\ Tb!ListOf(d, x) # SlotList
<1>1. CASE d = "route"
  <2>1. Tb!ListOf(d, x) = Tb!RouteListOf(x)
    BY <1>1 DEF Tb!ListOf
  <2>2. Tb!RouteListOf(x)[1] \in {"mc", "uc"}
    BY DEF Tb!RouteListOf
  <2>3. SlotList[1] = "sram"
    BY DEF SlotList
  <2> QED
    BY <1>1, <2>1, <2>2, <2>3 DEF Tb!DbOf
<1>2. CASE d # "route"
  <2>1. Tb!ListOf(d, x) = Tb!FilterListOf(d, x)
    BY <1>2 DEF Tb!ListOf
  <2>2. Tb!FilterListOf(d, x)[1] = d
    BY DEF Tb!FilterListOf
  <2>3. SlotList[1] = "sram" /\ d # "sram" /\ d # "mc" /\ d # "uc"
    BY DEF SlotList, Databases
  <2> QED
    BY <2>1, <2>2, <2>3 DEF Tb!DbOf
<1> QED
  BY <1>1, <1>2

\* A thread gives back the slot and the index it had.
Returns(t, r, l, k) ==
  /\ r = rthr[t] /\ r.pc = "free" /\ Tb!DbOf(l) = r.db /\ l # SlotList
  /\ free' = k /\ FreeOk(k)
  /\ \A m \in Tb!Lists : \A y \in Nat :
       Tb!Holds(k[m], y) <=> \/ Held(m, y) \/ (m = SlotList /\ y = r.addr)
                             \/ (m = l /\ y = r.index)
  /\ rthr' = [rthr EXCEPT ![t] = Tb!Idle]
  /\ srmap' = [srmap EXCEPT ![r.addr] = IF srmap[r.addr] = 0 THEN 0 ELSE srmap[r.addr] - 1]
  /\ UNCHANGED <<conn, dbs, todo, sram, lost, router>>

\* Both lists are sorted and hold what was given back.
LEMMA BothBack ==
  ASSUME TabInv, NEW t \in Tb!Threads, NEW r \in TabThread, NEW l, NEW k, Returns(t, r, l, k)
  PROVE  TabInv'
<1>0. /\ r = rthr[t] /\ r.pc = "free" /\ Tb!DbOf(l) = r.db /\ l # SlotList
      /\ free' = k /\ FreeOk(k)
      /\ \A m \in Tb!Lists : \A y \in Nat :
           Tb!Holds(k[m], y) <=> \/ Held(m, y) \/ (m = SlotList /\ y = r.addr)
                                 \/ (m = l /\ y = r.index)
      /\ rthr' = [rthr EXCEPT ![t] = Tb!Idle]
      /\ srmap' = [srmap EXCEPT ![r.addr] = IF srmap[r.addr] = 0 THEN 0 ELSE srmap[r.addr] - 1]
      /\ UNCHANGED <<conn, dbs, todo, sram, lost, router>>
  BY DEF Returns
<1> USE <1>0
<1>1. Has(r) /\ TakenOk(r) /\ r.addr \in Tb!Results /\ r.addr \in Nat /\ r.index \in Nat
      /\ r.db \in Databases
  <2>1. Has(r)
    BY DEF Has
  <2> QED
    BY <2>1 DEF TabInv, TakenInv, TakenOk, TabThread
<1>2. router \in {"INIT", "START", "EXIT"}
  BY Running
<1>3. FreeInv'
  BY FreeInvNext
<1>4. \A a \in Nat : FreeSlot(a)' <=> (FreeSlot(a) \/ a = r.addr)
  <2>1. \A a : FreeSlot(a)' <=> Tb!Holds(k[SlotList], a)
    BY FreeInvNext
  <2>2. \A a \in Nat : Tb!Holds(k[SlotList], a) <=> (FreeSlot(a) \/ a = r.addr)
    BY SlotListIs DEF FreeSlot
  <2> QED
    BY <2>1, <2>2
<1>5. ASSUME NEW d \in Databases, NEW x \in Nat, FreeIndex(d, x)'
      PROVE  FreeIndex(d, x) \/ (d = r.db /\ x = r.index)
  <2>1. \E m \in Tb!Lists : Tb!DbOf(m) = d /\ Tb!Holds(k[m], x)
    <3>1. \A c, y : FreeIndex(c, y)' <=> \E m \in Tb!Lists : Tb!DbOf(m) = c /\ Tb!Holds(k[m], y)
      BY FreeInvNext
    <3> QED
      BY <1>5, <3>1
  <2>2. PICK m \in Tb!Lists : Tb!DbOf(m) = d /\ Tb!Holds(k[m], x)
    BY <2>1
  <2>3. m # SlotList
    BY <2>2, SlotListIs DEF Databases
  <2>4. Held(m, x) \/ (m = l /\ x = r.index)
    BY <2>2, <2>3
  <2> QED
    BY <2>2, <2>4 DEF FreeIndex
<1>6. /\ rthr' \in [Tb!Threads -> TabThread] /\ rthr'[t] = Tb!Idle
      /\ \A u \in Tb!Threads : u # t => rthr'[u] = rthr[u]
  BY IdleIs, Moved DEF TabInv
<1>7. \A u \in Tb!Threads : Placed(rthr[u])'
  BY IdleIs, PlacedMoved
<1>8. /\ srmap' \in [Tb!Results -> Nat] /\ srmap'[r.addr] = 0
      /\ \A a \in Tb!Results : a # r.addr => srmap'[a] = srmap[a]
  <2>1. srmap \in [Tb!Results -> Nat] /\ srmap[r.addr] \in Nat /\ srmap[r.addr] <= 1
    BY <1>1 DEF TabInv, TabTypes, MapInv
  <2>2. PICK n : n = IF srmap[r.addr] = 0 THEN 0 ELSE srmap[r.addr] - 1
    OBVIOUS
  <2>3. n = 0
    BY <2>1, <2>2
  <2>4. srmap' = [srmap EXCEPT ![r.addr] = 0]
    BY <2>2, <2>3
  <2> QED
    BY <1>1, <2>1, <2>4
<1>9. TabTypes'
  BY <1>6, <1>8 DEF TabInv, TabTypes
<1>10. \A d : Db(d)' = Db(d)
  BY DEF Db
<1>11. ASSUME NEW d \in Databases, NEW i, i \in DOMAIN Db(d)
       PROVE  EntryOk(d, i)'
  <2>1. EntryOk(d, i)
    BY <1>11 DEF TabInv, EntryInv
  <2>2. i \in Nat /\ Db(d)[i] \in TabEntry
    BY <1>11, EntriesAre DEF TabInv, TabTypes
  <2>3. PICK a \in Nat : a = Db(d)[i].addr
    BY <2>2, SlotsAreNat DEF TabEntry
  <2>4. a # r.addr /\ ~(d = r.db /\ i = r.index)
    BY <1>1, <1>11, <2>3 DEF TakenOk
  <2>5. ~FreeSlot(a)' /\ ~FreeIndex(d, i)'
    BY <1>4, <1>5, <2>1, <2>2, <2>3, <2>4 DEF EntryOk
  <2> QED
    BY <1>10, <2>1, <2>3, <2>5 DEF EntryOk
<1>12. EntryInv'
  BY <1>10, <1>11 DEF EntryInv
<1>13. ASSUME NEW u \in Tb!Threads, NEW p \in TabThread, u # t, p = rthr[u], Has(p)
       PROVE  TakenNext(p)
  <2>1. TakenOk(p) /\ Apart(p, r)
    BY <1>1, <1>13 DEF TabInv, TakenInv, ApartInv
  <2>2. p.addr \in Nat /\ p.index \in Nat /\ p.db \in Databases
    BY DEF TabThread
  <2>3. ~FreeSlot(p.addr)' /\ ~FreeIndex(p.db, p.index)'
    BY <1>4, <1>5, <2>1, <2>2 DEF TakenOk, Apart
  <2> QED
    BY <1>10, <2>1, <2>2, <2>3 DEF TakenOk, TakenNext
<1>14. TakenInv' /\ ApartInv'
  <2>1. MoveKeeps(t, Tb!Idle)
    BY <1>13, IdleIs DEF MoveKeeps
  <2> QED
    BY <2>1, IdleIs, ApartMoved
<1>15. ASSUME conn'[Npu], NEW u \in Tb!Threads
       PROVE  Relies(rthr[u])'
  <2>1. Relies(rthr'[u])
    <3>1. Relies(Tb!Idle)
      BY IdleIs DEF Relies
    <3> QED
      BY <1>6, <1>15, <3>1 DEF TabInv
  <2> QED
    BY <2>1 DEF Relies, Db
<1>16. MapInv'
  <2>1. ASSUME NEW a \in Tb!Results
        PROVE  srmap'[a] <= 1 /\ (srmap'[a] = 1 => ~FreeSlot(a)')
    <3>1. CASE a = r.addr
      BY <1>8, <3>1
    <3>2. CASE a # r.addr
      BY <1>4, <1>8, <3>2, SlotsAreNat DEF TabInv, MapInv
    <3> QED
      BY <3>1, <3>2
  <2> QED
    BY <2>1 DEF MapInv
<1>17. SlotInv'
  <2>1. ASSUME NEW a \in Tb!Results, Somewhere(a)
        PROVE  Somewhere(a)'
    <3>0. a \in Nat
      BY SlotsAreNat
    <3>1. CASE FreeSlot(a)
      BY <1>4, <3>0, <3>1 DEF Somewhere
    <3>2. CASE \E d \in Databases : \E i \in DOMAIN Db(d) : Db(d)[i].addr = a
      BY <1>10, <3>2 DEF Somewhere
    <3>3. CASE \E u \in Tb!Threads : Has(rthr[u]) /\ rthr[u].addr = a
      <4>1. PICK u \in Tb!Threads : Has(rthr[u]) /\ rthr[u].addr = a
        BY <3>3
      <4>2. CASE u = t
        BY <1>4, <3>0, <4>1, <4>2 DEF Somewhere
      <4>3. CASE u # t
        <5>1. rthr'[u] = rthr[u]
          BY <1>6, <4>3
        <5> QED
          BY <4>1, <5>1 DEF Somewhere, Has
      <4> QED
        BY <4>2, <4>3
    <3> QED
      BY <2>1, <3>1, <3>2, <3>3 DEF Somewhere
  <2> QED
    BY <2>1 DEF TabInv, SlotInv
<1>18. StartInv'
  BY <1>2 DEF TabInv, StartInv, Db
<1> QED
  BY <1>3, <1>7, <1>9, <1>12, <1>14, <1>15, <1>16, <1>17, <1>18 DEF TabInv

\* A delete gives back the index and the slot (with conf_lock).
LEMMA FreeKeeps ==
  ASSUME TabInv, NEW t \in Tb!Threads, Tb!FreeIndices(t)
  PROVE  TabInv'
<1>1. PICK r \in TabThread : r = rthr[t]
  BY Running
<1>2. PICK l : l = Tb!ListOf(r.db, r.index)
  OBVIOUS
<1>3. /\ r.pc = "free"
      /\ free' = [free EXCEPT ![SlotList] = Tb!add_free_index(@, r.addr),
                              ![l] = Tb!add_free_index(@, r.index)]
      /\ srmap' = [srmap EXCEPT ![r.addr] = IF @ = 0 THEN 0 ELSE @ - 1]
      /\ rthr' = [rthr EXCEPT ![t] = Tb!Idle]
      /\ UNCHANGED <<conn, dbs, todo, sram, lost, router>>
  BY <1>1, <1>2 DEF Tb!FreeIndices, Tb!Answer, SlotList
<1>4. r.db \in Databases /\ r.db # "arp" /\ Has(r) /\ r.index \in Nat /\ r.addr \in Nat
  <2>1. Placed(r)
    BY <1>1, Running
  <2> QED
    BY <1>3, <2>1 DEF Placed, Has, TabThread
<1>5. TakenOk(r)
  BY <1>1, <1>4 DEF TabInv, TakenInv
<1>6. Tb!DbOf(l) = r.db /\ l # SlotList
  BY <1>2, <1>4, ListOfIs
<1>7. FreeOk(free)
  BY FreeInvIs DEF TabInv
<1>8. PICK g : g = [free EXCEPT ![SlotList] = Tb!add_free_index(free[SlotList], r.addr)]
  OBVIOUS
<1>9. PICK k : k = [g EXCEPT ![l] = Tb!add_free_index(g[l], r.index)]
  OBVIOUS
<1>10. Gives(free, SlotList, r.addr, g)
  <2>1. r.addr \in Tb!Results /\ ~Tb!Holds(free[SlotList], r.addr)
    BY <1>5 DEF TakenOk, FreeSlot, Held
  <2>2. \A m \in Tb!Lists : Tb!DbOf(m) = Tb!DbOf(SlotList) => m = SlotList
    BY SlotListIs DEF Tb!Lists, Tb!DbOf, SlotList
  <2> QED
    BY <1>4, <1>7, <1>8, <2>1, <2>2 DEF Gives
<1>11. /\ FreeOk(g)
       /\ \A m \in Tb!Lists : \A y \in Nat :
            Tb!Holds(g[m], y) <=> (Tb!Holds(free[m], y) \/ (m = SlotList /\ y = r.addr))
  BY <1>10, GiveTo
<1>12. Gives(g, l, r.index, k)
  <2>1. ASSUME NEW m \in Tb!Lists, Tb!DbOf(m) = Tb!DbOf(l)
        PROVE  ~Tb!Holds(g[m], r.index)
    <3>1. m # SlotList
      BY <1>4, <1>6, <2>1, SlotListIs DEF Databases
    <3>2. ~Tb!Holds(free[m], r.index)
      BY <1>5, <1>6, <2>1 DEF TakenOk, FreeIndex, Held
    <3> QED
      BY <1>4, <1>11, <3>1, <3>2
  <2> QED
    BY <1>4, <1>6, <1>9, <1>11, <2>1 DEF Gives
<1>13. /\ FreeOk(k)
       /\ \A m \in Tb!Lists : \A y \in Nat :
            Tb!Holds(k[m], y) <=> (Tb!Holds(g[m], y) \/ (m = l /\ y = r.index))
  BY <1>12, GiveTo
<1>14. \A m \in Tb!Lists : \A y \in Nat :
         Tb!Holds(k[m], y) <=> \/ Held(m, y) \/ (m = SlotList /\ y = r.addr)
                               \/ (m = l /\ y = r.index)
  BY <1>11, <1>13 DEF Held
<1>15. free' = k
  <2>1. CASE l \in Tb!Lists
    <3>1. g[l] = free[l]
      BY <1>6, <1>7, <1>8 DEF FreeOk
    <3> QED
      BY <1>3, <1>6, <1>7, <1>8, <1>9, <3>1, SlotListIs DEF FreeOk
  <2>2. CASE l \notin Tb!Lists
    <3>1. k = g
      BY <1>9, <1>11, <2>2 DEF FreeOk
    <3>2. free' = g
      BY <1>3, <1>7, <1>8, <2>2 DEF FreeOk
    <3> QED
      BY <3>1, <3>2
  <2> QED
    BY <2>1, <2>2
<1>16. srmap' = [srmap EXCEPT ![r.addr] = IF srmap[r.addr] = 0 THEN 0 ELSE srmap[r.addr] - 1]
  BY <1>3
<1> QED
  <2>1. FreeOk(k)
    BY <1>13
  <2>2. rthr' = [rthr EXCEPT ![t] = Tb!Idle] /\ r.pc = "free"
    BY <1>3
  <2>3. UNCHANGED <<conn, dbs, todo, sram, lost, router>>
    BY <1>3
  <2>4. Returns(t, r, l, k)
    BY <1>1, <1>6, <2>1, <2>2, <2>3, <1>14, <1>15, <1>16 DEF Returns
  <2> QED
    BY <2>4, BothBack

-----------------------------------------------------------------------------
(* The requests begin.                                                     *)

\* A request begins on an idle thread.
LEMMA BeginKeeps ==
  ASSUME TabInv, NEW t \in Tb!Threads, NEW q \in TabThread, Tb!Begin(t, q),
         q.pc \in {"alloc", "query"}, Placed(q), router \in {"INIT", "START"},
         UNCHANGED <<conn, dbs, free, sram, srmap, lost, router>>, todo' \in Seq(Nat)
  PROVE  TabInv'
<1>1. rthr[t].pc = "idle" /\ rthr' = [rthr EXCEPT ![t] = q]
  BY DEF Tb!Begin
<1>2. ~Has(rthr[t]) /\ ~Has(q)
  BY <1>1 DEF Has
<1>3. Relies(q)
  BY DEF Relies
<1> QED
  BY <1>1, <1>2, <1>3, QuietMove

\* The record of a thread that adds.
LEMMA AddingIs ==
  ASSUME NEW db \in Databases, NEW key \in Int, NEW len \in Int, NEW list \in Tb!Lists,
         Tb!DbOf(list) = db, db = "arp" => len = MaxPrefix, NEW q, q = Tb!Adding(db, key, len, list)
  PROVE  q \in TabThread /\ q.pc \in {"alloc", "query"} /\ Placed(q)
<1>1. Tb!Idle \in TabThread
  BY IdleIs
<1>2. /\ q \in TabThread /\ q.pc = "alloc" /\ q.op = "add" /\ q.db = db /\ q.len = len
      /\ q.list = list
  BY <1>1 DEF Tb!Adding, TabThread
<1> QED
  BY <1>2 DEF Placed

\* The record of a thread that deletes or updates.
LEMMA LookingIs ==
  ASSUME NEW db \in Databases, NEW key \in Int, NEW op \in {"del", "update"},
         op = "del" => db # "arp", op = "update" => db = "arp",
         NEW q, q = Tb!Looking(op, db, key)
  PROVE  q \in TabThread /\ q.pc \in {"alloc", "query"} /\ Placed(q)
<1>1. Tb!Idle \in TabThread
  BY IdleIs
<1>2. q \in TabThread /\ q.pc = "query" /\ q.op = op /\ q.db = db
  BY <1>1 DEF Tb!Looking, TabThread
<1> QED
  BY <1>2 DEF Placed

\* What does not change when a request begins.
Quiet ==
  /\ router \in {"INIT", "START"}
  /\ UNCHANGED <<conn, dbs, free, sram, srmap, lost, router>> /\ todo' \in Seq(Nat)

\* An add begins.
LEMMA AddBegins ==
  ASSUME TabInv, Quiet, NEW t \in Tb!Threads,
         NEW db \in Databases, NEW key \in Int, NEW len \in Int, NEW list \in Tb!Lists,
         Tb!DbOf(list) = db, db = "arp" => len = MaxPrefix,
         Tb!Begin(t, Tb!Adding(db, key, len, list))
  PROVE  TabInv'
<1>1. PICK q : q = Tb!Adding(db, key, len, list)
  OBVIOUS
<1>2. q \in TabThread /\ q.pc \in {"alloc", "query"} /\ Placed(q)
  BY <1>1, AddingIs
<1>3. Tb!Begin(t, q)
  BY <1>1 DEF Tb!Begin
<1> QED
  BY <1>2, <1>3, BeginKeeps DEF Quiet

\* A delete or an update begins.
LEMMA LookBegins ==
  ASSUME TabInv, Quiet, NEW t \in Tb!Threads,
         NEW db \in Databases, NEW key \in Int, NEW op \in {"del", "update"},
         op = "del" => db # "arp", op = "update" => db = "arp",
         Tb!Begin(t, Tb!Looking(op, db, key))
  PROVE  TabInv'
<1>1. PICK q : q = Tb!Looking(op, db, key)
  OBVIOUS
<1>2. q \in TabThread /\ q.pc \in {"alloc", "query"} /\ Placed(q)
  BY <1>1, LookingIs
<1>3. Tb!Begin(t, q)
  BY <1>1 DEF Tb!Begin
<1> QED
  BY <1>2, <1>3, BeginKeeps DEF Quiet

\* The lists of the databases exist.
LEMMA ListsAre ==
  /\ \A i \in 0..MaxPrefix : <<"uc", i>> \in Tb!Lists /\ Tb!DbOf(<<"uc", i>>) = "route"
  /\ \A i \in 0..MaxPriority : /\ <<"pfilter", i>> \in Tb!Lists
                               /\ Tb!DbOf(<<"pfilter", i>>) = "pfilter"
                               /\ <<"afilter", i>> \in Tb!Lists
                               /\ Tb!DbOf(<<"afilter", i>>) = "afilter"
  /\ <<"arp", 0>> \in Tb!Lists /\ Tb!DbOf(<<"arp", 0>>) = "arp"
BY DEF Tb!Lists, Tb!DbOf

\* Keys and prefixes are numbers.
LEMMA KeysAre ==
  /\ Tb!Keys \subseteq Int /\ MaxPrefix \in Int
  /\ \A i \in 0..MaxPrefix : i \in Int /\ Tb!Prefixes(i) \subseteq Int
<1>1. Tb!Keys \subseteq Int
  BY DEF Tb!Keys
<1>2. \A i : Tb!Prefixes(i) \subseteq Tb!Keys
  BY DEF Tb!Prefixes
<1>3. MaxPrefix \in Int /\ \A i \in 0..MaxPrefix : i \in Int
  BY TableAssumption
<1> QED
  BY <1>1, <1>2, <1>3

\* A packet of the data path begins an ARP add or update.
LEMMA ArpKeeps ==
  ASSUME TabInv, Tb!ArpPacket
  PROVE  TabInv'
<1>1. Quiet /\ ArpThread \in Tb!Threads
  BY DEF Tb!ArpPacket, Tb!tables, Quiet, TabInv, TabTypes, Tb!Threads
<1>2. PICK k \in Tb!Keys : IF k \in arpKnown THEN Tb!update_arp(ArpThread, k)
                                             ELSE Tb!add_arp(ArpThread, k)
  BY DEF Tb!ArpPacket
<1>3. k \in Int /\ MaxPrefix \in Int /\ "arp" \in Databases
  BY KeysAre DEF Databases
<1>4. CASE Tb!update_arp(ArpThread, k)
  <2>1. Tb!Begin(ArpThread, Tb!Looking("update", "arp", k))
    BY <1>4 DEF Tb!update_arp
  <2>2. "update" \in {"del", "update"} /\ "update" # "del"
    OBVIOUS
  <2> QED
    BY <1>1, <1>3, <2>1, <2>2, LookBegins
<1>5. CASE Tb!add_arp(ArpThread, k)
  <2>1. Tb!Begin(ArpThread, Tb!Adding("arp", k, MaxPrefix, <<"arp", 0>>))
    BY <1>5 DEF Tb!add_arp
  <2>2. <<"arp", 0>> \in Tb!Lists /\ Tb!DbOf(<<"arp", 0>>) = "arp"
    BY ListsAre
  <2> QED
    BY <1>1, <1>3, <2>1, <2>2, AddBegins
<1> QED
  BY <1>2, <1>4, <1>5

\* add_filter begins.
LEMMA FilterBegins ==
  ASSUME TabInv, Quiet, NEW t \in Tb!Threads, NEW k \in Int, NEW len \in Int,
         NEW p \in 0..MaxPriority,
         Tb!add_pfilter(t, k, len, p) \/ Tb!add_afilter(t, k, len, p)
  PROVE  TabInv'
<1>1. "pfilter" \in Databases /\ "afilter" \in Databases /\ "pfilter" # "arp" /\ "afilter" # "arp"
  BY DEF Databases
<1>2. CASE Tb!add_pfilter(t, k, len, p)
  <2>1. Tb!Begin(t, Tb!Adding("pfilter", k, len, <<"pfilter", p>>))
    BY <1>2 DEF Tb!add_pfilter
  <2>2. <<"pfilter", p>> \in Tb!Lists /\ Tb!DbOf(<<"pfilter", p>>) = "pfilter"
    BY ListsAre
  <2> QED
    BY <1>1, <2>1, <2>2, AddBegins
<1>3. CASE Tb!add_afilter(t, k, len, p)
  <2>1. Tb!Begin(t, Tb!Adding("afilter", k, len, <<"afilter", p>>))
    BY <1>3 DEF Tb!add_afilter
  <2>2. <<"afilter", p>> \in Tb!Lists /\ Tb!DbOf(<<"afilter", p>>) = "afilter"
    BY ListsAre
  <2> QED
    BY <1>1, <2>1, <2>2, AddBegins
<1> QED
  BY <1>2, <1>3

\* The delete requests begin.
LEMMA DeleteBegins ==
  ASSUME TabInv, Quiet, NEW t \in Tb!Threads, NEW k \in Int,
         NEW d \in {"route", "pfilter", "afilter"}, Tb!Begin(t, Tb!Looking("del", d, k))
  PROVE  TabInv'
<1>1. d \in Databases /\ d # "arp" /\ "del" \in {"del", "update"} /\ "del" # "update"
  BY DEF Databases
<1> QED
  BY <1>1, LookBegins

\* Nobody moves.
LEMMA StillKeeps ==
  ASSUME TabInv, Quiet, NEW t \in Tb!Threads, rthr[t].pc = "idle", UNCHANGED rthr
  PROVE  TabInv'
<1>1. PICK q : q = rthr[t]
  OBVIOUS
<1>2. q \in TabThread /\ rthr' = [rthr EXCEPT ![t] = q] /\ Placed(q)
  BY <1>1 DEF TabInv, TabTypes
<1>3. ~Has(q) /\ Relies(q) /\ ~Has(rthr[t])
  BY <1>1 DEF Has, Relies
<1> QED
  BY <1>2, <1>3, QuietMove DEF Quiet

\* A request of the user begins.
LEMMA RequestKeeps ==
  ASSUME TabInv, NEW t \in RliThreads, Tb!Request(t)
  PROVE  TabInv'
<1>1. Quiet /\ t \in Tb!Threads
  BY DEF Tb!Request, Tb!tables, Quiet, TabInv, TabTypes, Tb!Threads
<1>2. CASE Tb!configure_node_req(t)
  <2>1. PICK k \in Tb!Keys : Tb!add_pfilter(t, k, MaxPrefix, DefPriority)
    BY <1>2 DEF Tb!configure_node_req
  <2>2. k \in Int /\ MaxPrefix \in Int /\ DefPriority \in 0..MaxPriority
    BY KeysAre, TableAssumption
  <2> QED
    BY <1>1, <2>1, <2>2, FilterBegins
<1>3. CASE Tb!add_route_req(t)
  <2>1. PICK len \in 0..MaxPrefix : \E k \in Tb!Prefixes(len) : Tb!add_route(t, k, len)
    BY <1>3 DEF Tb!add_route_req
  <2>2. PICK k \in Tb!Prefixes(len) : Tb!add_route(t, k, len)
    BY <2>1
  <2>3. Tb!Begin(t, Tb!Adding("route", k, len, <<"uc", len>>))
    BY <2>2 DEF Tb!add_route
  <2>4. /\ <<"uc", len>> \in Tb!Lists /\ Tb!DbOf(<<"uc", len>>) = "route"
        /\ k \in Int /\ len \in Int /\ "route" \in Databases /\ "route" # "arp"
    BY <2>2, ListsAre, KeysAre DEF Databases
  <2> QED
    BY <1>1, <2>3, <2>4, AddBegins
<1>4. CASE Tb!delete_route_req(t)
  <2>1. PICK k \in Tb!Keys : Tb!del_route(t, k)
    BY <1>4 DEF Tb!delete_route_req
  <2>2. Tb!Begin(t, Tb!Looking("del", "route", k)) /\ k \in Int
    BY <2>1, KeysAre DEF Tb!del_route
  <2> QED
    BY <1>1, <2>2, DeleteBegins
<1>5. CASE Tb!add_filter_req(t)
  <2>1. PICK len \in {0, MaxPrefix}, p \in 0..MaxPriority : \E k \in Tb!Prefixes(len) :
          Tb!add_afilter(t, k, len, p) \/ Tb!add_pfilter(t, k, len, p)
    BY <1>5 DEF Tb!add_filter_req
  <2>2. PICK k \in Tb!Prefixes(len) : Tb!add_afilter(t, k, len, p) \/ Tb!add_pfilter(t, k, len, p)
    BY <2>1
  <2>3. len \in 0..MaxPrefix /\ len \in Int
    BY TableAssumption
  <2>4. k \in Int
    BY <2>2, <2>3, KeysAre
  <2> QED
    BY <1>1, <2>2, <2>3, <2>4, FilterBegins
<1>6. CASE Tb!delete_filter_req(t)
  <2>1. PICK k \in Tb!Keys : Tb!del_afilter(t, k) \/ Tb!del_pfilter(t, k)
    BY <1>6 DEF Tb!delete_filter_req
  <2>2. /\ Tb!del_afilter(t, k) => Tb!Begin(t, Tb!Looking("del", "afilter", k))
        /\ Tb!del_pfilter(t, k) => Tb!Begin(t, Tb!Looking("del", "pfilter", k))
        /\ k \in Int
    BY <2>1, KeysAre DEF Tb!del_afilter, Tb!del_pfilter
  <2>3. CASE Tb!Begin(t, Tb!Looking("del", "afilter", k))
    BY <1>1, <2>2, <2>3, DeleteBegins
  <2>4. CASE Tb!Begin(t, Tb!Looking("del", "pfilter", k))
    BY <1>1, <2>2, <2>4, DeleteBegins
  <2> QED
    BY <2>1, <2>2, <2>3, <2>4
<1>7. CASE Tb!Refused(t)
  BY <1>1, <1>7, StillKeeps DEF Tb!Refused
<1> QED
  BY <1>2, <1>3, <1>4, <1>5, <1>6, <1>7 DEF Tb!Request

-----------------------------------------------------------------------------
(* The daemon starts, and the TCAM daemon fails.                           *)

\* init adds a default filter.
LEMMA DefaultKeeps ==
  ASSUME TabInv, Tb!AddDefault
  PROVE  TabInv'
<1>1. /\ router = "INIT" /\ todo # <<>> /\ todo' = Tail(todo)
      /\ Tb!add_pfilter(Tb!Main, Head(todo), MaxPrefix, DefPriority)
      /\ UNCHANGED <<conn, dbs, router, free, sram, srmap, lost>>
  BY DEF Tb!AddDefault
<1>2. todo \in Seq(Nat)
  BY DEF TabInv, TabTypes
<1>3. Head(todo) \in Nat /\ Tail(todo) \in Seq(Nat)
  BY <1>1, <1>2
<1>4. Quiet /\ Tb!Main \in Tb!Threads
  BY <1>1, <1>3 DEF Quiet, Tb!Threads
<1>5. Head(todo) \in Int /\ MaxPrefix \in Int /\ DefPriority \in 0..MaxPriority
  BY <1>3, TableAssumption
<1> QED
  BY <1>1, <1>4, <1>5, FilterBegins

\* init returns.
LEMMA ReceiveKeeps ==
  ASSUME TabInv, Tb!receive_messages
  PROVE  TabInv'
<1>1. /\ router = "INIT" /\ rthr[Tb!Main].pc = "idle" /\ router' = "START"
      /\ UNCHANGED <<conn, dbs, todo, free, sram, srmap, rthr, lost>>
  BY DEF Tb!receive_messages
<1>2. PICK q : q = rthr[Tb!Main]
  OBVIOUS
<1>3. /\ Tb!Main \in Tb!Threads /\ q \in TabThread /\ rthr' = [rthr EXCEPT ![Tb!Main] = q]
      /\ Placed(q)
  <2>1. Tb!Main \in Tb!Threads
    BY DEF Tb!Threads
  <2> QED
    BY <1>1, <1>2, <2>1 DEF TabInv, TabTypes
<1>4. ~Has(q) /\ Relies(q) /\ ~Has(rthr[Tb!Main])
  BY <1>1, <1>2 DEF Has, Relies
<1>5. todo' \in Seq(Nat)
  BY <1>1 DEF TabInv, TabTypes
<1> QED
  BY <1>1, <1>3, <1>4, <1>5, QuietMove

-----------------------------------------------------------------------------
\* Before the daemon runs there are no entries and no thread works.
LEMMA StopKeeps ==
  ASSUME TabInv, router = "STOP", UNCHANGED <<rthr, sram, srmap, todo, lost>>,
         dbs' \in [Npus -> [Databases -> TcamDb]], \A d \in Databases : DOMAIN Db(d)' = {},
         conn' \in [Npus -> BOOLEAN], router' \in {"STOP", "INIT", "EXIT"}, FreeInv',
         router' = "INIT" => \A a \in Tb!Results : FreeSlot(a)',
         router' # "INIT" => UNCHANGED free
  PROVE  TabInv'
<1>1. rthr = [t \in Tb!Threads |-> Tb!Idle] /\ \A a \in Tb!Results : srmap[a] = 0
  BY DEF TabInv, StartInv
<1>2. TabTypes'
  BY DEF TabInv, TabTypes
<1>3. \A u \in Tb!Threads : rthr'[u] = Tb!Idle
  BY <1>1
<1>4. \A u \in Tb!Threads : Placed(rthr[u])' /\ ~Has(rthr[u])' /\ Relies(rthr[u])'
  <2>1. \A u \in Tb!Threads : Placed(rthr'[u])
    BY <1>3, IdleIs
  <2>2. \A u \in Tb!Threads : ~Has(rthr'[u])
    BY <1>3, IdleIs
  <2> QED
    BY <1>3, <2>1, <2>2, IdleIs DEF Placed, Has, Relies
<1>5. EntryInv'
  BY DEF EntryInv
<1>6. TakenInv' /\ ApartInv'
  BY <1>4 DEF TakenInv, ApartInv
<1>7. MapInv'
  BY <1>1 DEF MapInv
<1>8. SlotInv'
  BY DEF SlotInv, Somewhere
<1>9. StartInv'
  BY <1>1 DEF StartInv
<1> QED
  BY <1>2, <1>4, <1>5, <1>6, <1>7, <1>8, <1>9 DEF TabInv

\* The databases of a processor that is not connected.
LEMMA NoEntries ==
  /\ Tb!T!NoDbs \in [Databases -> TcamDb]
  /\ \A d \in Databases : DOMAIN Tb!T!NoDbs[d] = {}
<1>1. Tb!T!Databases = Databases
  BY DEF Tb!T!Databases, Databases
<1>2. Tb!T!Empty \in TcamDb /\ DOMAIN Tb!T!Empty = {}
  <2>1. Tb!T!Empty \in [{} -> TabEntry] /\ {} \in SUBSET Nat
    BY DEF Tb!T!Empty
  <2>2. Tb!T!Empty \in UNION {[D -> TabEntry] : D \in SUBSET Nat}
    BY <2>1
  <2> QED
    BY <2>2 DEF TcamDb, Tb!T!Empty
<1> QED
  BY <1>1, <1>2 DEF Tb!T!NoDbs

\* The constructor connects to the TCAM daemon.
LEMMA ConnectKeeps ==
  ASSUME TabInv, Tb!Connect
  PROVE  TabInv'
<1>1. /\ router = "STOP" /\ conn' = [conn EXCEPT ![Npu] = TRUE]
      /\ UNCHANGED <<dbs, router, todo, free, sram, srmap, rthr, lost>>
  BY DEF Tb!Connect, Tb!T!Accept, Tb!others
<1>2. /\ dbs' \in [Npus -> [Databases -> TcamDb]] /\ conn' \in [Npus -> BOOLEAN]
      /\ \A d \in Databases : DOMAIN Db(d)' = {}
  BY <1>1 DEF TabInv, TabTypes, StartInv, Db
<1>3. FreeInv'
  BY <1>1, SameFree DEF TabInv
<1> QED
  BY <1>1, <1>2, <1>3, StopKeeps

\* The connection breaks: the entries are gone.
LEMMA FailsKeeps ==
  ASSUME TabInv, Tb!TcamdFails
  PROVE  TabInv'
<1>1. /\ router \in {"INIT", "START"} /\ conn' = [conn EXCEPT ![Npu] = FALSE]
      /\ dbs' = [dbs EXCEPT ![Npu] = Tb!T!NoDbs]
      /\ UNCHANGED <<router, todo, free, sram, srmap, rthr, lost>>
  BY DEF Tb!TcamdFails, Tb!T!Disconnect, Tb!T!routerstop
<1>2. /\ dbs' \in [Npus -> [Databases -> TcamDb]] /\ conn' \in [Npus -> BOOLEAN] /\ ~conn'[Npu]
      /\ \A d \in Databases : Db(d)' = Tb!T!NoDbs[d]
  BY <1>1, NoEntries, TableAssumption DEF TabInv, TabTypes, Db
<1>3. \A d \in Databases : DOMAIN Db(d)' = {}
  BY <1>2, NoEntries
<1>4. TabTypes'
  BY <1>1, <1>2 DEF TabInv, TabTypes
<1>5. FreeInv'
  BY <1>1, SameFree DEF TabInv
<1>6. \A u \in Tb!Threads : Placed(rthr[u])'
  BY <1>1 DEF TabInv, Placed
<1>7. EntryInv'
  BY <1>3 DEF EntryInv
<1>8. TakenInv' /\ ApartInv'
  <2>1. ASSUME NEW u \in Tb!Threads, Has(rthr[u])'
        PROVE  TakenOk(rthr[u])'
    <3>1. TakenOk(rthr[u]) /\ rthr[u].db \in Databases
      BY <1>1, <2>1 DEF TabInv, TakenInv, Has, TabTypes, TabThread
    <3>2. rthr[u].index \notin DOMAIN Db(rthr[u].db)'
      <4>1. PICK d \in Databases : d = rthr[u].db
        BY <3>1
      <4>2. DOMAIN Db(d)' = {}
        BY <1>3
      <4> QED
        BY <1>1, <4>1, <4>2 DEF Db
    <3>3. PICK p : p = rthr[u]
      OBVIOUS
    <3>4. ~FreeSlot(p.addr)' /\ ~FreeIndex(p.db, p.index)'
      BY <1>1, <3>1, <3>3, SameFree DEF TakenOk
    <3> QED
      BY <1>1, <1>3, <3>1, <3>2, <3>3, <3>4 DEF TakenOk, Db
  <2> QED
    BY <1>1, <2>1 DEF TabInv, TakenInv, ApartInv, Apart, Has
<1>9. MapInv'
  BY <1>1, SameFree DEF TabInv, MapInv
<1>10. SlotInv' /\ StartInv'
  BY <1>1, <1>2, <1>3 DEF SlotInv, StartInv
<1> QED
  BY <1>2, <1>4, <1>5, <1>6, <1>7, <1>8, <1>9, <1>10 DEF TabInv

-----------------------------------------------------------------------------
(* The lists of start_router do not overlap.                               *)

\* A list of the n indices from a on.
Run(s, a, n) == a \in Nat /\ n \in Nat /\ n >= 1 /\ s = Tb!IndexRange(a, n)

\* What a list of consecutive indices holds.
LEMMA RunIs ==
  ASSUME NEW s, NEW a, NEW n, Run(s, a, n)
  PROVE  /\ s \in Seq(Nat \X Nat) /\ Sorted(s)
         /\ \A x \in Nat : Tb!Holds(s, x) <=> (a <= x /\ x <= a + n - 1)
<1>1. a \in Nat /\ n \in Nat /\ n >= 1 /\ s = << <<a, a + n - 1>> >>
  BY DEF Run, Tb!IndexRange
<1>2. a + n - 1 \in Nat /\ a <= a + n - 1
  BY <1>1
<1>3. /\ s \in Seq(Nat \X Nat) /\ DOMAIN s = {1}
      /\ s[1][1] = a /\ s[1][2] = a + n - 1
  <2>1. PICK p : p = <<a, a + n - 1>>
    OBVIOUS
  <2>2. p \in Nat \X Nat /\ p[1] = a /\ p[2] = a + n - 1
    BY <1>1, <1>2, <2>1
  <2>3. s = <<p>>
    BY <1>1, <2>1
  <2> QED
    BY <2>2, <2>3
<1>4. Sorted(s)
  BY <1>2, <1>3 DEF Sorted
<1>5. \A x \in Nat : Tb!Holds(s, x) <=> x \in a..(a + n - 1)
  BY <1>3 DEF Tb!Holds
<1> QED
  BY <1>1, <1>2, <1>3, <1>4, <1>5

\* Classes of different lengths do not overlap.
LEMMA ClassesApart ==
  ASSUME NEW p \in Nat, NEW a \in Nat, NEW b \in Nat, a < b
  PROVE  p * a + p <= p * b /\ p * a \in Nat /\ p * b \in Nat
OBVIOUS

\* A product of numbers is one.
LEMMA Product ==
  ASSUME NEW p \in Nat, NEW a \in Nat
  PROVE  p * a \in Nat
OBVIOUS

\* The base of the indices of a kind, and the class of a prefix length among them.
Base(k) == IF k = "mc" THEN Tb!McFirst ELSE Tb!UcFirst
Class(k, i) ==
  IF i \in {0, 1} THEN (IF k = "mc" THEN MaxPrefix - 1 ELSE MaxPrefix) ELSE MaxPrefix - i

\* Where a route's list is in its class; the default route has the class's last index.
LEMMA RouteRuns ==
  ASSUME NEW k \in {"mc", "uc"}, NEW i \in 0..MaxPrefix
  PROVE  /\ Base(k) \in Nat /\ Class(k, i) \in Nat /\ PerClass * Class(k, i) \in Nat
         /\ \E a, n \in Nat :
              /\ Run(Tb!RouteClass(k, i), a, n)
              /\ Base(k) + PerClass * Class(k, i) <= a
              /\ a + n <= Base(k) + PerClass * Class(k, i) + PerClass
              /\ i = 0 => a = Base(k) + PerClass * Class(k, i) + PerClass - 1
              /\ i = 1 => a + n <= Base(k) + PerClass * Class(k, i) + PerClass - 1
<1>1. PerClass \in Nat /\ PerClass >= 2 /\ MaxPrefix \in Nat /\ MaxPrefix >= 1 /\ i \in Nat /\ i <= MaxPrefix
  BY TableAssumption
<1>2. Base(k) \in Nat
  <2>1. MaxPrefix + 1 \in Nat
    BY <1>1
  <2>2. PerClass * (MaxPrefix + 1) \in Nat
    BY <1>1, <2>1, Product
  <2> QED
    BY <2>2 DEF Base, Tb!McFirst, Tb!UcFirst, Tb!McLast
<1>3. Class(k, i) \in Nat
  BY <1>1 DEF Class
<1> DEFINE b == Base(k)
           c == PerClass * Class(k, i)
<1>4. c \in Nat /\ b \in Nat
  BY <1>1, <1>2, <1>3, Product
<1> HIDE DEF c, b
<1>5. \E a, n \in Nat : Run(Tb!RouteClass(k, i), a, n) /\ b + c <= a /\ a + n <= b + c + PerClass
        /\ (i = 0 => a = b + c + PerClass - 1) /\ (i = 1 => a + n <= b + c + PerClass - 1)
  <2>0. /\ Base(k) = b
        /\ PerClass * (IF k = "mc" THEN MaxPrefix - 1 ELSE MaxPrefix) = PerClass * Class(k, i) \/ i \notin {0, 1}
    BY DEF b, Class
  <2>1. CASE i = 0
    <3>1. PerClass * (IF k = "mc" THEN MaxPrefix - 1 ELSE MaxPrefix) = c
      BY <2>0, <2>1 DEF c
    <3>2. Tb!RouteClass(k, i) = Tb!IndexRange(b + c + PerClass - 1, 1)
      BY <2>1, <3>1 DEF Tb!RouteClass, b, Base
    <3>3. b + c + PerClass - 1 \in Nat
      BY <1>1, <1>4
    <3>4. Run(Tb!RouteClass(k, i), b + c + PerClass - 1, 1)
      BY <3>2, <3>3 DEF Run
    <3> QED
      BY <1>1, <1>4, <2>1, <3>3, <3>4
  <2>2. CASE i = 1
    <3>1. PerClass * (IF k = "mc" THEN MaxPrefix - 1 ELSE MaxPrefix) = c
      BY <2>0, <2>2 DEF c
    <3>2. Tb!RouteClass(k, i) = Tb!IndexRange(b + c, PerClass - 1)
      BY <2>2, <3>1 DEF Tb!RouteClass, b, Base
    <3>3. b + c \in Nat /\ PerClass - 1 \in Nat /\ PerClass - 1 >= 1
      BY <1>1, <1>4
    <3>4. Run(Tb!RouteClass(k, i), b + c, PerClass - 1)
      BY <3>2, <3>3 DEF Run
    <3> QED
      BY <1>1, <1>4, <2>2, <3>3, <3>4
  <2>3. CASE i \notin {0, 1}
    <3>1. c = PerClass * (MaxPrefix - i)
      BY <2>3 DEF c, Class
    <3>2. Tb!RouteClass(k, i) = Tb!IndexRange(b + c, PerClass)
      BY <2>3, <3>1 DEF Tb!RouteClass, b, Base
    <3>3. b + c \in Nat
      BY <1>1, <1>4
    <3>4. Run(Tb!RouteClass(k, i), b + c, PerClass)
      BY <1>1, <3>2, <3>3 DEF Run
    <3> QED
      BY <1>1, <1>4, <2>3, <3>3, <3>4
  <2> QED
    BY <2>1, <2>2, <2>3
<1> QED
  BY <1>2, <1>3, <1>4, <1>5 DEF b, c

\* The lists of routes do not overlap.
LEMMA RoutesApart ==
  ASSUME NEW k \in {"mc", "uc"}, NEW h \in {"mc", "uc"}, NEW i \in 0..MaxPrefix,
         NEW j \in 0..MaxPrefix, NEW x \in Nat,
         Tb!Holds(Tb!RouteClass(k, i), x), Tb!Holds(Tb!RouteClass(h, j), x)
  PROVE  k = h /\ i = j
<1>1. PerClass \in Nat /\ MaxPrefix \in Nat /\ MaxPrefix >= 1 /\ i \in Nat /\ j \in Nat
      /\ i <= MaxPrefix /\ j <= MaxPrefix
  BY TableAssumption
<1>2. PICK c, d : c = Class(k, i) /\ d = Class(h, j)
  OBVIOUS
<1>3. /\ c \in Nat /\ d \in Nat /\ PerClass * c \in Nat /\ PerClass * d \in Nat
      /\ Base(k) \in Nat /\ Base(h) \in Nat
  BY <1>2, RouteRuns
<1>4. PICK a, n \in Nat :
        /\ Run(Tb!RouteClass(k, i), a, n)
        /\ Base(k) + PerClass * c <= a /\ a + n <= Base(k) + PerClass * c + PerClass
        /\ i = 0 => a = Base(k) + PerClass * c + PerClass - 1
        /\ i = 1 => a + n <= Base(k) + PerClass * c + PerClass - 1
  BY <1>2, RouteRuns
<1>5. PICK b, m \in Nat :
        /\ Run(Tb!RouteClass(h, j), b, m)
        /\ Base(h) + PerClass * d <= b /\ b + m <= Base(h) + PerClass * d + PerClass
        /\ j = 0 => b = Base(h) + PerClass * d + PerClass - 1
        /\ j = 1 => b + m <= Base(h) + PerClass * d + PerClass - 1
  BY <1>2, RouteRuns
<1>6. a <= x /\ x <= a + n - 1 /\ b <= x /\ x <= b + m - 1
  BY <1>4, <1>5, RunIs
<1>7. /\ Base(k) + PerClass * c <= x /\ x < Base(k) + PerClass * c + PerClass
      /\ Base(h) + PerClass * d <= x /\ x < Base(h) + PerClass * d + PerClass
      /\ i = 0 => x >= Base(k) + PerClass * c + PerClass - 1
      /\ i = 1 => x < Base(k) + PerClass * c + PerClass - 1
      /\ j = 0 => x >= Base(h) + PerClass * d + PerClass - 1
      /\ j = 1 => x < Base(h) + PerClass * d + PerClass - 1
  BY <1>1, <1>3, <1>4, <1>5, <1>6
\* All multicast indices are below the unicast ones.
<1>8. Base("mc") \in Nat /\ Base("uc") \in Nat /\ Base("mc") + PerClass * (MaxPrefix + 1) < Base("uc")
  <2>1. PerClass * (MaxPrefix + 1) \in Nat
    BY <1>1, Product
  <2> QED
    BY <2>1 DEF Base, Tb!McFirst, Tb!UcFirst, Tb!McLast
<1>9. /\ k = "mc" => PerClass * c + PerClass <= PerClass * (MaxPrefix + 1)
      /\ h = "mc" => PerClass * d + PerClass <= PerClass * (MaxPrefix + 1)
  <2>1. /\ k = "mc" => c < MaxPrefix + 1
        /\ h = "mc" => d < MaxPrefix + 1
    BY <1>1, <1>2 DEF Class
  <2> QED
    BY <1>1, <1>3, <2>1, ClassesApart
<1>10. k = h
  <2>1. PerClass * (MaxPrefix + 1) \in Nat
    BY <1>1, Product
  <2>2. ~(k = "mc" /\ h = "uc")
    BY <1>1, <1>3, <1>7, <1>8, <1>9, <2>1
  <2>3. ~(k = "uc" /\ h = "mc")
    BY <1>1, <1>3, <1>7, <1>8, <1>9, <2>1
  <2> QED
    BY <2>2, <2>3
<1>11. c = d
  <2>1. ~(c < d)
    <3>1. c < d => PerClass * c + PerClass <= PerClass * d
      BY <1>1, <1>3, ClassesApart
    <3> QED
      BY <1>1, <1>3, <1>7, <1>10, <3>1
  <2>2. ~(d < c)
    <3>1. d < c => PerClass * d + PerClass <= PerClass * c
      BY <1>1, <1>3, ClassesApart
    <3> QED
      BY <1>1, <1>3, <1>7, <1>10, <3>1
  <2> QED
    BY <1>3, <2>1, <2>2
<1>12. i = j
  <2>1. CASE i \in {0, 1} /\ j \in {0, 1}
    BY <1>1, <1>3, <1>7, <1>10, <1>11, <2>1
  <2>2. CASE i \notin {0, 1} /\ j \notin {0, 1}
    BY <1>1, <1>2, <1>11, <2>2 DEF Class
  <2>3. CASE i \in {0, 1} /\ j \notin {0, 1}
    BY <1>1, <1>2, <1>11, <2>3 DEF Class
  <2>4. CASE i \notin {0, 1} /\ j \in {0, 1}
    BY <1>1, <1>2, <1>11, <2>4 DEF Class
  <2> QED
    BY <2>1, <2>2, <2>3, <2>4
<1> QED
  BY <1>10, <1>12

\* The list of a priority.
LEMMA FilterRuns ==
  ASSUME NEW i \in 0..MaxPriority
  PROVE  Run(Tb!IndexRange(1 + FilterClass * i, FilterClass), 1 + FilterClass * i, FilterClass)
<1>1. FilterClass \in Nat /\ FilterClass >= 1 /\ i \in Nat
  BY TableAssumption
<1>2. FilterClass * i \in Nat
  BY <1>1, Product
<1> QED
  BY <1>1, <1>2 DEF Run

\* The lists of priorities do not overlap.
LEMMA FiltersApart ==
  ASSUME NEW i \in 0..MaxPriority, NEW j \in 0..MaxPriority, NEW x \in Nat,
         Tb!Holds(Tb!IndexRange(1 + FilterClass * i, FilterClass), x),
         Tb!Holds(Tb!IndexRange(1 + FilterClass * j, FilterClass), x)
  PROVE  i = j
<1>1. FilterClass \in Nat /\ FilterClass >= 1 /\ i \in Nat /\ j \in Nat
  BY TableAssumption
<1>2. PICK c, d : c = FilterClass * i /\ d = FilterClass * j
  OBVIOUS
<1>3. c \in Nat /\ d \in Nat
  BY <1>1, <1>2, Product
<1>4. 1 + c <= x /\ x <= 1 + c + FilterClass - 1 /\ 1 + d <= x /\ x <= 1 + d + FilterClass - 1
  BY <1>2, FilterRuns, RunIs
<1>5. /\ i < j => c + FilterClass <= d
      /\ j < i => d + FilterClass <= c
  BY <1>1, <1>2, ClassesApart
<1>6. ~(i < j) /\ ~(j < i)
  BY <1>1, <1>3, <1>4, <1>5
<1> QED
  BY <1>1, <1>6

\* The lists of start_router, one by one.
LEMMA InitialIs ==
  /\ Tb!InitialLists[SlotList] = Tb!IndexRange(1, NumResults - 2)
  /\ Tb!InitialLists[<<"arp", 0>>] = Tb!IndexRange(1, NumArp - 2)
  /\ \A k \in {"mc", "uc"} : \A i \in 0..MaxPrefix :
       Tb!InitialLists[<<k, i>>] = Tb!RouteClass(k, i)
  /\ \A k \in {"pfilter", "afilter"} : \A i \in 0..MaxPriority :
       Tb!InitialLists[<<k, i>>] = Tb!IndexRange(1 + FilterClass * i, FilterClass)
<1>1. SlotList \in Tb!Lists /\ <<"arp", 0>> \in Tb!Lists
  BY DEF Tb!Lists, SlotList
<1>2. /\ \A k \in {"mc", "uc"} : \A i \in 0..MaxPrefix : <<k, i>> \in Tb!Lists
      /\ \A k \in {"pfilter", "afilter"} : \A i \in 0..MaxPriority : <<k, i>> \in Tb!Lists
  BY DEF Tb!Lists
<1>3. Tb!InitialLists[SlotList] = Tb!IndexRange(1, NumResults - 2)
  BY <1>1 DEF Tb!InitialLists, SlotList
<1>4. Tb!InitialLists[<<"arp", 0>>] = Tb!IndexRange(1, NumArp - 2)
  BY <1>1 DEF Tb!InitialLists
<1>5. ASSUME NEW k \in {"mc", "uc"}, NEW i \in 0..MaxPrefix
      PROVE  Tb!InitialLists[<<k, i>>] = Tb!RouteClass(k, i)
  BY <1>2 DEF Tb!InitialLists
<1>6. ASSUME NEW k \in {"pfilter", "afilter"}, NEW i \in 0..MaxPriority
      PROVE  Tb!InitialLists[<<k, i>>] = Tb!IndexRange(1 + FilterClass * i, FilterClass)
  BY <1>2 DEF Tb!InitialLists
<1> QED
  BY <1>3, <1>4, <1>5, <1>6

\* Every list is one of these.
LEMMA ListForms ==
  ASSUME NEW l \in Tb!Lists
  PROVE  \/ l = SlotList /\ Tb!DbOf(l) = "sram"
         \/ l = <<"arp", 0>> /\ Tb!DbOf(l) = "arp"
         \/ \E k \in {"mc", "uc"} : \E i \in 0..MaxPrefix : l = <<k, i>> /\ Tb!DbOf(l) = "route"
         \/ \E k \in {"pfilter", "afilter"} : \E i \in 0..MaxPriority :
              l = <<k, i>> /\ Tb!DbOf(l) = k
BY DEF Tb!Lists, SlotList, Tb!DbOf

\* The lists of the slots and of the ARP entries.
LEMMA SlotRun ==
  /\ Run(Tb!InitialLists[SlotList], 1, NumResults - 2)
  /\ Run(Tb!InitialLists[<<"arp", 0>>], 1, NumArp - 2)
  /\ \A a \in Nat : Tb!Holds(Tb!InitialLists[SlotList], a) <=> a \in Tb!Results
<1>1. /\ NumResults \in Nat /\ NumResults >= 3 /\ NumResults - 2 \in Nat /\ NumResults - 2 >= 1
      /\ NumArp - 2 \in Nat /\ NumArp - 2 >= 1
  BY TableAssumption
<1>2. Run(Tb!InitialLists[SlotList], 1, NumResults - 2)
  BY <1>1, InitialIs DEF Run
<1>3. Run(Tb!InitialLists[<<"arp", 0>>], 1, NumArp - 2)
  BY <1>1, InitialIs DEF Run
<1>4. \A a \in Nat : Tb!Holds(Tb!InitialLists[SlotList], a) <=> (1 <= a /\ a <= 1 + (NumResults - 2) - 1)
  BY <1>2, RunIs
<1>5. \A a \in Nat : a \in Tb!Results <=> (1 <= a /\ a <= 1 + (NumResults - 2) - 1)
  BY <1>1 DEF Tb!Results
<1> QED
  BY <1>2, <1>3, <1>4, <1>5

\* The lists of start_router.
LEMMA InitialFree == FreeOk(Tb!InitialLists)
<1>1. ASSUME NEW l \in Tb!Lists
      PROVE  \E a, n : Run(Tb!InitialLists[l], a, n)
  <2>1. CASE l = SlotList
    BY <2>1, SlotRun
  <2>2. CASE l = <<"arp", 0>>
    BY <2>2, SlotRun
  <2>3. CASE \E k \in {"mc", "uc"} : \E i \in 0..MaxPrefix : l = <<k, i>>
    <3>1. PICK k \in {"mc", "uc"}, i \in 0..MaxPrefix : l = <<k, i>>
      BY <2>3
    <3>2. Tb!InitialLists[l] = Tb!RouteClass(k, i)
      BY <3>1, InitialIs
    <3>3. \E a, n : Run(Tb!RouteClass(k, i), a, n)
      BY RouteRuns
    <3> QED
      BY <3>2, <3>3
  <2>4. CASE \E k \in {"pfilter", "afilter"} : \E i \in 0..MaxPriority : l = <<k, i>>
    BY <2>4, InitialIs, FilterRuns
  <2> QED
    BY <2>1, <2>2, <2>3, <2>4, ListForms
<1>2. ASSUME NEW l \in Tb!Lists
      PROVE  Tb!InitialLists[l] \in Seq(Nat \X Nat) /\ Sorted(Tb!InitialLists[l])
  <2>1. PICK s : s = Tb!InitialLists[l]
    OBVIOUS
  <2>2. \E a, n : Run(s, a, n)
    BY <1>1, <2>1
  <2>3. s \in Seq(Nat \X Nat) /\ Sorted(s)
    BY <2>2, RunIs
  <2> QED
    BY <2>1, <2>3
<1>3. DOMAIN Tb!InitialLists = Tb!Lists /\ Tb!InitialLists = [l \in Tb!Lists |-> Tb!InitialLists[l]]
  BY DEF Tb!InitialLists
<1>4. Tb!InitialLists \in [Tb!Lists -> Seq(Nat \X Nat)]
  BY <1>2, <1>3
<1>5. ASSUME NEW l \in Tb!Lists, NEW m \in Tb!Lists, NEW x \in Nat, Tb!DbOf(l) = Tb!DbOf(m),
             Tb!Holds(Tb!InitialLists[l], x), Tb!Holds(Tb!InitialLists[m], x)
      PROVE  l = m
  <2>1. CASE Tb!DbOf(l) = "sram"
    BY <1>5, <2>1, ListForms
  <2>2. CASE Tb!DbOf(l) = "arp"
    BY <1>5, <2>2, ListForms
  <2>3. CASE Tb!DbOf(l) = "route"
    <3>1. PICK k \in {"mc", "uc"}, i \in 0..MaxPrefix : l = <<k, i>>
      BY <2>3, ListForms
    <3>2. PICK h \in {"mc", "uc"}, j \in 0..MaxPrefix : m = <<h, j>>
      BY <1>5, <2>3, ListForms
    <3>3. Tb!Holds(Tb!RouteClass(k, i), x) /\ Tb!Holds(Tb!RouteClass(h, j), x)
      BY <1>5, <3>1, <3>2, InitialIs
    <3>4. k = h /\ i = j
      BY <3>3, RoutesApart
    <3> QED
      BY <3>1, <3>2, <3>4
  <2>4. CASE Tb!DbOf(l) \in {"pfilter", "afilter"}
    <3>1. PICK k \in {"pfilter", "afilter"}, i \in 0..MaxPriority : l = <<k, i>> /\ Tb!DbOf(l) = k
      BY <2>4, ListForms
    <3>2. PICK h \in {"pfilter", "afilter"}, j \in 0..MaxPriority : m = <<h, j>> /\ Tb!DbOf(m) = h
      BY <1>5, <2>4, ListForms
    <3>3. /\ Tb!Holds(Tb!IndexRange(1 + FilterClass * i, FilterClass), x)
          /\ Tb!Holds(Tb!IndexRange(1 + FilterClass * j, FilterClass), x)
      BY <1>5, <3>1, <3>2, InitialIs
    <3>4. i = j /\ k = h
      BY <1>5, <3>1, <3>2, <3>3, FiltersApart
    <3> QED
      BY <3>1, <3>2, <3>4
  <2> QED
    BY <2>1, <2>2, <2>3, <2>4, ListForms
<1> QED
  BY <1>2, <1>4, <1>5, SlotRun DEF FreeOk

\* start_router: nothing is in use and the lists are filled.
LEMMA StartKeeps ==
  ASSUME TabInv, Tb!start_router
  PROVE  TabInv'
<1>1. /\ router = "STOP" /\ router' \in {"INIT", "EXIT"}
      /\ free' = IF router' = "INIT" THEN Tb!InitialLists ELSE free
      /\ UNCHANGED <<conn, todo, sram, srmap, rthr, lost>>
  BY DEF Tb!start_router, Tb!T!routerinit
<1>2. dbs' = dbs \/ dbs' = [dbs EXCEPT ![Npu] = Tb!T!NoDbs]
  BY DEF Tb!start_router, Tb!T!routerinit
<1>3. /\ dbs' \in [Npus -> [Databases -> TcamDb]]
      /\ \A d \in Databases : DOMAIN Db(d)' = {}
  <2>1. CASE dbs' = dbs
    BY <1>1, <2>1 DEF TabInv, TabTypes, StartInv, Db
  <2>2. CASE dbs' = [dbs EXCEPT ![Npu] = Tb!T!NoDbs]
    <3>1. /\ dbs' \in [Npus -> [Databases -> TcamDb]]
          /\ \A d \in Databases : Db(d)' = Tb!T!NoDbs[d]
      BY <2>2, NoEntries, TableAssumption DEF TabInv, TabTypes, Db
    <3> QED
      BY <3>1, NoEntries
  <2> QED
    BY <1>2, <2>1, <2>2
<1>4. CASE router' = "INIT"
  <2>1. PICK k : k = Tb!InitialLists
    OBVIOUS
  <2>2. free' = k /\ FreeOk(k)
    BY <1>1, <1>4, <2>1, InitialFree
  <2>3. FreeInv' /\ \A a : FreeSlot(a)' <=> Tb!Holds(k[SlotList], a)
    BY <2>2, FreeInvNext
  <2>4. \A a \in Tb!Results : FreeSlot(a)'
    BY <2>1, <2>3, SlotRun, SlotsAreNat
  <2>5. conn' \in [Npus -> BOOLEAN]
    BY <1>1 DEF TabInv, TabTypes
  <2> QED
    BY <1>1, <1>3, <1>4, <2>3, <2>4, <2>5, StopKeeps
<1>5. CASE router' # "INIT"
  <2>1. UNCHANGED free
    BY <1>1, <1>5
  <2>2. FreeInv' /\ conn' \in [Npus -> BOOLEAN]
    BY <1>1, <2>1, SameFree DEF TabInv, TabTypes
  <2> QED
    BY <1>1, <1>3, <1>5, <2>1, <2>2, StopKeeps
<1> QED
  BY <1>4, <1>5

\* The invariant holds at the start.
LEMMA TablesInit ==
  ASSUME Tb!Init
  PROVE  TabInv
<1>1. /\ conn = [n \in Npus |-> FALSE] /\ dbs = [n \in Npus |-> Tb!T!NoDbs]
      /\ router = "STOP" /\ todo = Defaults /\ free = [l \in Tb!Lists |-> <<>>]
      /\ sram = [a \in Tb!Results |-> Tb!NoResult] /\ srmap = [a \in Tb!Results |-> 0]
      /\ rthr = [t \in Tb!Threads |-> Tb!Idle]
  BY DEF Tb!Init, Tb!T!inittcam
<1>2. \A l \in Tb!Lists : \A x : ~Held(l, x)
  BY <1>1 DEF Held, Tb!Holds
<1>3. FreeInv
  <2>1. free \in [Tb!Lists -> Seq(Nat \X Nat)]
    BY <1>1
  <2>2. \A l \in Tb!Lists : Sorted(free[l])
    BY <1>1 DEF Sorted
  <2> QED
    BY <1>2, <2>1, <2>2, SlotListIs DEF FreeInv, FreeSlot
<1>4. \A d \in Databases : DOMAIN Db(d) = {}
  BY <1>1, NoEntries, TableAssumption DEF Db
<1>5. TabTypes
  <2>1. rthr \in [Tb!Threads -> TabThread]
    BY <1>1, IdleIs
  <2>2. Tb!NoResult \in Word
    BY DEF Tb!NoResult, Word
  <2>3. dbs \in [Npus -> [Databases -> TcamDb]]
    BY <1>1, NoEntries
  <2> QED
    BY <1>1, <2>1, <2>2, <2>3, TableAssumption DEF TabTypes
<1>6. \A t \in Tb!Threads : Placed(rthr[t]) /\ ~Has(rthr[t]) /\ Relies(rthr[t])
  BY <1>1, IdleIs DEF Relies
<1>7. EntryInv
  BY <1>4 DEF EntryInv
<1>8. TakenInv /\ ApartInv
  BY <1>6 DEF TakenInv, ApartInv
<1>9. MapInv
  BY <1>1 DEF MapInv
<1>10. SlotInv /\ StartInv
  BY <1>1, <1>4 DEF SlotInv, StartInv
<1> QED
  BY <1>3, <1>5, <1>6, <1>7, <1>8, <1>9, <1>10 DEF TabInv

-----------------------------------------------------------------------------
(* The specification.                                                      *)

\* The invariant of the part of MCRouters that is about the tables.
TablesInv == kind = "tables" => TabInv

\* Every step of the configuration keeps the invariant.
LEMMA TabNextKeeps ==
  ASSUME TabInv, OneDelete, TabNext
  PROVE  TabInv'
<1>0. kind = "tables"
  BY DEF TabNext
<1>1. CASE Tb!ArpPacket
  BY <1>1, ArpKeeps
<1>2. CASE \E t \in RliThreads : Tb!Request(t)
  BY <1>2, RequestKeeps
<1>3. CASE Tb!Start
  BY <1>3, ConnectKeeps, StartKeeps, DefaultKeeps, ReceiveKeeps DEF Tb!Start
<1>4. CASE Tb!TcamdFails
  BY <1>4, FailsKeeps
<1>5. ASSUME NEW t \in Tb!Threads, Tb!Step(t)
      PROVE  TabInv'
  <2>1. \/ Tb!Alloc(t) \/ Tb!WriteResult(t) \/ Tb!WriteTcam(t) \/ Tb!QueryTcam(t)
        \/ Tb!ReadIndex(t) \/ Tb!RemoveTcam(t) \/ Tb!FreeIndices(t) \/ Tb!UpdateArp(t)
    BY <1>5 DEF Tb!Step
  <2>2. CASE Tb!RemoveTcam(t)
    BY <1>0, <2>2, RemoveKeeps
  <2>3. CASE Tb!Alloc(t) \/ Tb!WriteResult(t) \/ Tb!WriteTcam(t)
    BY <2>3, AllocKeeps, WriteResultKeeps, WriteTcamKeeps
  <2>4. CASE Tb!QueryTcam(t) \/ Tb!ReadIndex(t) \/ Tb!FreeIndices(t) \/ Tb!UpdateArp(t)
    BY <2>4, QueryKeeps, ReadKeeps, FreeKeeps, UpdateKeeps
  <2> QED
    BY <2>1, <2>2, <2>3, <2>4
<1> QED
  BY <1>1, <1>2, <1>3, <1>4, <1>5 DEF TabNext

\* Nothing that the invariant is about changes when the tables do not.
LEMMA TabStutter ==
  ASSUME TabInv, UNCHANGED <<conn, dbs, router, todo, free, sram, srmap, rthr, lost>>
  PROVE  TabInv'
<1>1. FreeInv'
  BY DEF TabInv, FreeInv, Held, FreeSlot
<1>2. TabTypes'
  BY DEF TabInv, TabTypes
<1>3. \A t \in Tb!Threads : Placed(rthr[t])'
  BY DEF TabInv, Placed
<1>4. \A d : Db(d)' = Db(d)
  BY DEF Db
<1>5. \A a, d, i : FreeSlot(a)' = FreeSlot(a) /\ FreeIndex(d, i)' = FreeIndex(d, i)
  BY DEF FreeSlot, FreeIndex, Held
<1>6. EntryInv'
  BY <1>4, <1>5 DEF TabInv, EntryInv, EntryOk
<1>7. TakenInv'
  BY <1>4, <1>5 DEF TabInv, TakenInv, TakenOk, Has
<1>8. ApartInv'
  BY DEF TabInv, ApartInv, Apart, Has
<1>9. conn[Npu]' => \A t \in Tb!Threads : Relies(rthr[t])'
  BY <1>4 DEF TabInv, Relies, Tb!ResultOf
<1>10. MapInv'
  BY <1>5 DEF TabInv, MapInv
<1>11. SlotInv'
  BY <1>4, <1>5 DEF TabInv, SlotInv, Somewhere, Has
<1>12. StartInv'
  BY <1>4 DEF TabInv, StartInv
<1> QED
  BY <1>1, <1>2, <1>3, <1>6, <1>7, <1>8, <1>9, <1>10, <1>11, <1>12 DEF TabInv

\* Every step keeps the invariant while OneDelete holds.
LEMMA TablesNext ==
  ASSUME TablesInv, OneDelete, [MCNext]_mcVars
  PROVE  TablesInv'
<1>1. CASE UNCHANGED mcVars
  BY <1>1, TabStutter DEF mcVars, tabVars, TablesInv
<1>2. CASE TabNext
  <2>1. kind = "tables"
    BY <1>2 DEF TabNext
  <2> QED
    BY <1>2, <2>1, TabNextKeeps DEF TablesInv
<1>3. CASE SwNext \/ PlgNext \/ ParNext
  <2>1. "tables" # "swr" /\ "tables" # "hostf" /\ "tables" # "ndne" /\ "tables" # "plugins"
        /\ "tables" # "params"
    OBVIOUS
  <2>2. kind # "tables" /\ kind' = kind
    BY <1>3, <2>1 DEF SwNext, PlgNext, ParNext, Others
  <2> QED
    BY <2>2 DEF TablesInv
<1> QED
  BY <1>1, <1>2, <1>3 DEF MCNext

\* The invariant holds initially.
LEMMA TablesStart == MCInit => TablesInv
<1>1. "tables" # "swr" /\ "tables" # "hostf" /\ "tables" # "ndne" /\ "tables" # "plugins"
      /\ "tables" # "params"
  OBVIOUS
<1>2. ASSUME MCInit, kind = "tables"
      PROVE  Tb!Init
  BY <1>1, <1>2 DEF MCInit
<1> QED
  BY <1>2, TablesInit DEF TablesInv

\* What the invariant says in the words of the module.
LEMMA EntriesAreEntries ==
  /\ \A e \in Tb!Entries : e[1] \in Databases /\ e[2] \in DOMAIN Db(e[1])
  /\ \A d \in Databases : \A i \in DOMAIN Db(d) : <<d, i>> \in Tb!Entries
BY DEF Tb!Entries, Tb!T!Databases, Databases, Db

\* Has, in the words of the module.
LEMMA TakenIs ==
  ASSUME NEW t, Placed(rthr[t]), Has(rthr[t])
  PROVE  Tb!Taken(t)
BY DEF Placed, Has, Tb!Taken, Tb!InFlight, Tb!Freeing

\* The invariant implies ResultsInPlace.
LEMMA PlaceFollows == TablesInv => ResultsInPlace
<1>1. ASSUME TabInv, NEW e \in Tb!Entries
      PROVE  LET entry == dbs[Npu][e[1]][e[2]]
             IN  sram[entry.addr] = [of |-> <<e[1], entry.key, entry.len>>, index |-> e[2]]
  <2>1. e[1] \in Databases /\ e[2] \in DOMAIN Db(e[1])
    BY EntriesAreEntries
  <2>2. EntryOk(e[1], e[2])
    BY <1>1, <2>1 DEF TabInv, EntryInv
  <2> QED
    BY <2>2 DEF EntryOk, Db
<1> QED
  BY <1>1 DEF TablesInv, ResultsInPlace, Tb!ResultsInPlace

\* The invariant implies NoSlotLeaked.
LEMMA SlotsFollow == TablesInv => NoSlotLeaked
<1>1. ASSUME TabInv, router = "START", ~lost, conn[Npu], NEW a \in Tb!Results
      PROVE  /\ \/ Tb!Holds(free[<<"sram", 0>>], a)
                \/ \E e \in Tb!Entries : dbs[Npu][e[1]][e[2]].addr = a
                \/ \E t \in Tb!Threads : Tb!Taken(t) /\ rthr[t].addr = a
             /\ srmap[a] <= 1
             /\ srmap[a] = 1 => ~Tb!Holds(free[<<"sram", 0>>], a)
  <2>1. Somewhere(a)
    BY <1>1 DEF TabInv, SlotInv
  <2>2. FreeSlot(a) => Tb!Holds(free[<<"sram", 0>>], a)
    BY DEF FreeSlot, Held, SlotList
  <2>3. ASSUME NEW d \in Databases, NEW i \in DOMAIN Db(d), Db(d)[i].addr = a
        PROVE  \E e \in Tb!Entries : dbs[Npu][e[1]][e[2]].addr = a
    <3>1. <<d, i>> \in Tb!Entries /\ <<d, i>>[1] = d /\ <<d, i>>[2] = i
      BY EntriesAreEntries
    <3>2. dbs[Npu][d][i].addr = a
      BY <2>3 DEF Db
    <3> QED
      BY <3>1, <3>2
  <2>4. \A t \in Tb!Threads : Has(rthr[t]) => Tb!Taken(t)
    BY <1>1, TakenIs DEF TabInv
  <2>5. \/ Tb!Holds(free[<<"sram", 0>>], a)
        \/ \E e \in Tb!Entries : dbs[Npu][e[1]][e[2]].addr = a
        \/ \E t \in Tb!Threads : Tb!Taken(t) /\ rthr[t].addr = a
    BY <2>1, <2>2, <2>3, <2>4 DEF Somewhere
  <2>6. srmap[a] <= 1 /\ (srmap[a] = 1 => ~Tb!Holds(free[<<"sram", 0>>], a))
    BY <1>1 DEF TabInv, MapInv, FreeSlot, Held, SlotList
  <2> QED
    BY <2>5, <2>6
<1> QED
  BY <1>1 DEF TablesInv, NoSlotLeaked, Tb!NoSlotLeaked

\* While no two deletes are under way at once the TCAM entry of a route or filter leads to
\* its own result in SRAM (add_route, add_filter, del_route, del_filter).
THEOREM ResultsCorrect == MCSpec /\ []OneDelete => []ResultsInPlace
<1>1. MCInit => TablesInv
  BY TablesStart
<1>2. TablesInv /\ OneDelete /\ [MCNext]_mcVars => TablesInv'
  BY TablesNext
<1>3. TablesInv => ResultsInPlace
  BY PlaceFollows
<1> QED
  BY <1>1, <1>2, <1>3, PTL DEF MCSpec

\* On the same condition a result slot is free, in use by an entry or in the hands of a
\* thread, unless an exception dropped it.
THEOREM SlotsCorrect == MCSpec /\ []OneDelete => []NoSlotLeaked
<1>1. MCInit => TablesInv
  BY TablesStart
<1>2. TablesInv /\ OneDelete /\ [MCNext]_mcVars => TablesInv'
  BY TablesNext
<1>3. TablesInv => NoSlotLeaked
  BY SlotsFollow
<1> QED
  BY <1>1, <1>2, <1>3, PTL DEF MCSpec

-----------------------------------------------------------------------------
(* The condition holds when one thread serves the user's requests.         *)

\* Only a thread that serves requests deletes.
DelInv == kind = "tables" => \A t \in Tb!Threads : rthr[t].op = "del" => t \in RliThreads

\* Only a thread that serves requests begins a delete.
LEMMA BeginDeletes ==
  ASSUME TabInv, \A t \in Tb!Threads : rthr[t].op = "del" => t \in RliThreads,
         NEW t \in Tb!Threads, NEW q, Tb!Begin(t, q), q.op = "del" => t \in RliThreads
  PROVE  \A u \in Tb!Threads : rthr'[u].op = "del" => u \in RliThreads
BY DEF TabInv, TabTypes, Tb!Begin

\* Adds and updates are not deletes.
LEMMA NotDelete ==
  ASSUME NEW db, NEW key, NEW len, NEW list
  PROVE  /\ Tb!Adding(db, key, len, list).op # "del"
         /\ Tb!Looking("update", db, key).op # "del"
BY DEF Tb!Adding, Tb!Looking, Tb!Idle

\* A thread becomes idle or keeps what it does.
Onwards(t) ==
  \/ rthr' = [u \in Tb!Threads |-> Tb!Idle]
  \/ \E q : rthr' = [rthr EXCEPT ![t] = q] /\ (q.op = "del" => rthr[t].op = "del")

\* No step of a thread turns it to a delete.
LEMMA StepDeletes ==
  ASSUME TabInv, \A t \in Tb!Threads : rthr[t].op = "del" => t \in RliThreads,
         NEW t \in Tb!Threads, Tb!Step(t)
  PROVE  \A u \in Tb!Threads : rthr'[u].op = "del" => u \in RliThreads
<1>1. /\ rthr \in [Tb!Threads -> TabThread] /\ rthr[t] \in TabThread
      /\ Tb!Idle.op # "del"
  BY DEF TabInv, TabTypes, Tb!Idle
<1>2. ASSUME Tb!Throw(t) \/ Tb!Answer(t)
      PROVE  Onwards(t)
  BY <1>1, <1>2 DEF Tb!Throw, Tb!Answer, Onwards
<1>3. ASSUME NEW p, NEW i, NEW a,
             \/ rthr' = [rthr EXCEPT ![t].pc = p]
             \/ rthr' = [rthr EXCEPT ![t].addr = a, ![t].pc = p]
             \/ rthr' = [rthr EXCEPT ![t].index = i, ![t].pc = p]
             \/ rthr' = [rthr EXCEPT ![t].pc = p, ![t].index = i, ![t].addr = a]
      PROVE  Onwards(t)
  <2>1. CASE rthr' = [rthr EXCEPT ![t].pc = p]
    <3>1. rthr' = [rthr EXCEPT ![t] = [rthr[t] EXCEPT !.pc = p]]
      BY <2>1
    <3>2. [rthr[t] EXCEPT !.pc = p].op = rthr[t].op
      BY <1>1 DEF TabThread
    <3> QED
      BY <3>1, <3>2 DEF Onwards
  <2>2. CASE rthr' = [rthr EXCEPT ![t].addr = a, ![t].pc = p]
    <3>1. rthr' = [rthr EXCEPT ![t] = [rthr[t] EXCEPT !.addr = a, !.pc = p]]
      BY <1>1, <2>2
    <3>2. [rthr[t] EXCEPT !.addr = a, !.pc = p].op = rthr[t].op
      BY <1>1 DEF TabThread
    <3> QED
      BY <3>1, <3>2 DEF Onwards
  <2>3. CASE rthr' = [rthr EXCEPT ![t].index = i, ![t].pc = p]
    <3>1. rthr' = [rthr EXCEPT ![t] = [rthr[t] EXCEPT !.index = i, !.pc = p]]
      BY <1>1, <2>3
    <3>2. [rthr[t] EXCEPT !.index = i, !.pc = p].op = rthr[t].op
      BY <1>1 DEF TabThread
    <3> QED
      BY <3>1, <3>2 DEF Onwards
  <2>4. CASE rthr' = [rthr EXCEPT ![t].pc = p, ![t].index = i, ![t].addr = a]
    <3>1. rthr' = [rthr EXCEPT ![t] = [rthr[t] EXCEPT !.pc = p, !.index = i, !.addr = a]]
      BY <1>1, <2>4
    <3>2. [rthr[t] EXCEPT !.pc = p, !.index = i, !.addr = a].op = rthr[t].op
      BY <1>1 DEF TabThread
    <3> QED
      BY <3>1, <3>2 DEF Onwards
  <2> QED
    BY <1>3, <2>1, <2>2, <2>3, <2>4
<1>4. ASSUME Tb!Alloc(t)
      PROVE  Onwards(t)
  <2>1. \/ Tb!Throw(t)
        \/ \E i, a : rthr' = [rthr EXCEPT ![t].pc = "result", ![t].index = i, ![t].addr = a]
    BY <1>4 DEF Tb!Alloc
  <2>2. ASSUME NEW i, NEW a,
               rthr' = [rthr EXCEPT ![t].pc = "result", ![t].index = i, ![t].addr = a]
        PROVE  Onwards(t)
    BY <1>3, <2>2
  <2> QED
    BY <1>2, <2>1, <2>2
<1>5. ASSUME Tb!QueryTcam(t)
      PROVE  Onwards(t)
  BY <1>2, <1>3, <1>5 DEF Tb!QueryTcam
<1>6. ASSUME Tb!ReadIndex(t)
      PROVE  Onwards(t)
  BY <1>3, <1>6 DEF Tb!ReadIndex
<1>7. ASSUME \/ Tb!WriteResult(t) \/ Tb!WriteTcam(t) \/ Tb!RemoveTcam(t)
             \/ Tb!FreeIndices(t) \/ Tb!UpdateArp(t)
      PROVE  Onwards(t)
  BY <1>2, <1>3, <1>7
     DEF Tb!WriteResult, Tb!WriteTcam, Tb!RemoveTcam, Tb!FreeIndices, Tb!UpdateArp, Tb!Goto
<1>8. Onwards(t)
  BY <1>4, <1>5, <1>6, <1>7 DEF Tb!Step
<1> QED
  BY <1>1, <1>8 DEF Onwards

\* DelInv is kept by every step.
LEMMA DelNext ==
  ASSUME TablesInv, DelInv, [MCNext]_mcVars
  PROVE  DelInv'
<1>1. CASE UNCHANGED mcVars
  BY <1>1 DEF mcVars, DelInv
<1>2. CASE TabNext
  <2>1. kind = "tables" /\ TabInv /\ \A t \in Tb!Threads : rthr[t].op = "del" => t \in RliThreads
    BY <1>2 DEF TabNext, TablesInv, DelInv
  <2>2. CASE Tb!ArpPacket
    <3>1. ArpThread \in Tb!Threads
      BY DEF Tb!Threads
    <3>2. PICK q : Tb!Begin(ArpThread, q) /\ q.op # "del"
      BY <2>2, NotDelete DEF Tb!ArpPacket, Tb!update_arp, Tb!add_arp
    <3> QED
      BY <2>1, <3>1, <3>2, BeginDeletes DEF DelInv
  <2>3. ASSUME NEW t \in RliThreads, Tb!Request(t)
        PROVE  DelInv'
    <3>1. t \in Tb!Threads
      BY DEF Tb!Threads
    <3>2. (\E q : Tb!Begin(t, q)) \/ UNCHANGED rthr
      BY <2>3 DEF Tb!Request, Tb!configure_node_req, Tb!add_route_req, Tb!delete_route_req,
         Tb!add_filter_req, Tb!delete_filter_req, Tb!Refused, Tb!add_route, Tb!add_pfilter,
         Tb!add_afilter, Tb!del_route, Tb!del_pfilter, Tb!del_afilter
    <3> QED
      BY <2>1, <3>1, <3>2, BeginDeletes DEF DelInv
  <2>4. CASE Tb!Start
    <3>1. CASE Tb!AddDefault
      <4>1. Tb!Main \in Tb!Threads
        BY DEF Tb!Threads
      <4>2. PICK q : Tb!Begin(Tb!Main, q) /\ q.op # "del"
        BY <3>1, NotDelete DEF Tb!AddDefault, Tb!add_pfilter
      <4> QED
        BY <2>1, <4>1, <4>2, BeginDeletes DEF DelInv
    <3>2. CASE Tb!Connect \/ Tb!start_router \/ Tb!receive_messages
      BY <2>1, <3>2 DEF Tb!Connect, Tb!start_router, Tb!receive_messages, Tb!others, DelInv
    <3> QED
      BY <2>4, <3>1, <3>2 DEF Tb!Start
  <2>5. CASE Tb!TcamdFails
    BY <2>1, <2>5 DEF Tb!TcamdFails, DelInv
  <2>6. ASSUME NEW t \in Tb!Threads, Tb!Step(t)
        PROVE  DelInv'
    BY <2>1, <2>6, StepDeletes DEF DelInv
  <2> QED
    BY <1>2, <2>2, <2>3, <2>4, <2>5, <2>6 DEF TabNext
<1>3. CASE SwNext \/ PlgNext \/ ParNext
  <2>1. "tables" # "swr" /\ "tables" # "hostf" /\ "tables" # "ndne" /\ "tables" # "plugins"
        /\ "tables" # "params"
    OBVIOUS
  <2>2. kind # "tables" /\ kind' = kind
    BY <1>3, <2>1 DEF SwNext, PlgNext, ParNext, Others
  <2> QED
    BY <2>2 DEF DelInv
<1> QED
  BY <1>1, <1>2, <1>3 DEF MCNext

\* No thread deletes initially.
LEMMA DelStart == MCInit => DelInv
<1>1. "tables" # "swr" /\ "tables" # "hostf" /\ "tables" # "ndne" /\ "tables" # "plugins"
      /\ "tables" # "params"
  OBVIOUS
<1>2. ASSUME MCInit, kind = "tables"
      PROVE  Tb!Init
  BY <1>1, <1>2 DEF MCInit
<1> QED
  BY <1>2 DEF DelInv, Tb!Init, Tb!Idle

\* With one thread for the user's requests the TCAM entry of a route or filter leads to
\* its own result in SRAM, and no slot is leaked: the ARP thread and the main thread, which
\* add and update entries at the same time, never delete one.
THEOREM OneRequestThread ==
  ASSUME \A t, u \in RliThreads : t = u
  PROVE  MCSpec => []ResultsInPlace /\ []NoSlotLeaked
<1>1. MCInit => TablesInv /\ DelInv
  BY TablesStart, DelStart
<1>2. DelInv => OneDelete
  BY DEF DelInv, OneDelete
<1>3. TablesInv /\ DelInv /\ [MCNext]_mcVars => TablesInv' /\ DelInv'
  BY <1>2, TablesNext, DelNext
<1>4. TablesInv => ResultsInPlace /\ NoSlotLeaked
  BY PlaceFollows, SlotsFollow
<1> QED
  BY <1>1, <1>3, <1>4, PTL DEF MCSpec

-----------------------------------------------------------------------------
(* Queues of the software routers: the scripts.                             *)

\* A sequence, of whatever.
IsSeq(s) == \E S : s \in Seq(S)

\* A queue's class without its qdisc; ports' own classes, 0 and 1, are left out.
Gap(objs, id) == id[2] >= 2 /\ <<"class", id>> \in objs /\ <<"qdisc", id>> \notin objs

\* The command that makes such a gap, and the one that closes it.
Opens(c) ==
  /\ c.id[2] >= 2
  /\ \/ c.kind = "class" /\ c.verb = "add"
     \/ c.kind = "qdisc" /\ c.verb = "del"
Closes(c, id) ==
  c.kind = "qdisc" /\ c.verb = "add" /\ c.id = id /\ c.tries = 1 /\ c.chk # "else"

\* The script of a port sets up its own two classes only; iptables adds and deletes.
Plain(c) ==
  /\ c = [verb |-> c.verb, kind |-> c.kind, id |-> c.id, chk |-> c.chk, tries |-> c.tries]
  /\ c.tries \in Nat
  /\ c.kind = "script" => \A o \in c.id : o[1] = "class" => ~(o[2][2] >= 2)
  /\ c.kind = "iptables" => c.verb \in {"add", "del"}

\* In a script the command that opens a gap is followed by the one that closes it.
Shape(s) ==
  /\ IsSeq(s)
  /\ \A i \in 1 .. Len(s) :
       /\ Plain(s[i])
       /\ Opens(s[i]) => s[i].chk # "else" /\ i + 1 <= Len(s) /\ Closes(s[i + 1], s[i].id)
       /\ s[i].chk = "else" => i + 1 <= Len(s)

LEMMA ShapeEmpty == Shape(<<>>)
<1>1. <<>> \in Seq({})
  OBVIOUS
<1> QED
  BY <1>1 DEF Shape, IsSeq

LEMMA ShapeOne ==
  ASSUME NEW c, Plain(c), ~Opens(c), c.chk # "else"
  PROVE  Shape(<<c>>)
<1>1. IsSeq(<<c>>)
  <2>1. <<c>> \in Seq({c})
    OBVIOUS
  <2> QED
    BY <2>1 DEF IsSeq
<1>2. Len(<<c>>) = 1 /\ <<c>>[1] = c
  OBVIOUS
<1>3. \A i \in 1 .. Len(<<c>>) : <<c>>[i] = c
  BY <1>2
<1> QED
  BY <1>1, <1>3 DEF Shape

LEMMA ShapeTwo ==
  ASSUME NEW c, NEW d, Plain(c), Plain(d), ~Opens(d), d.chk # "else",
         Opens(c) => c.chk # "else" /\ Closes(d, c.id)
  PROVE  Shape(<<c, d>>)
<1>1. IsSeq(<<c, d>>)
  <2>1. <<c, d>> \in Seq({c, d})
    OBVIOUS
  <2> QED
    BY <2>1 DEF IsSeq
<1>2. Len(<<c, d>>) = 2 /\ <<c, d>>[1] = c /\ <<c, d>>[2] = d
  OBVIOUS
<1>3. ASSUME NEW i \in 1 .. Len(<<c, d>>)
      PROVE  \/ i = 1 /\ <<c, d>>[i] = c /\ <<c, d>>[i + 1] = d /\ i + 1 <= Len(<<c, d>>)
             \/ <<c, d>>[i] = d
  <2>1. CASE i = 1
    BY <1>2, <2>1
  <2>2. CASE i = 2
    BY <1>2, <2>2
  <2> QED
    BY <1>2, <1>3, <2>1, <2>2
<1> QED
  BY <1>1, <1>3 DEF Shape

LEMMA ShapeConcat ==
  ASSUME NEW s, NEW u, Shape(s), Shape(u)
  PROVE  Shape(s \o u)
<1>1. PICK S : s \in Seq(S)
  BY DEF Shape, IsSeq
<1>2. PICK U : u \in Seq(U)
  BY DEF Shape, IsSeq
<1>3. s \in Seq(S \cup U) /\ u \in Seq(S \cup U)
  BY <1>1, <1>2
<1>4. s \o u \in Seq(S \cup U) /\ Len(s \o u) = Len(s) + Len(u) /\ Len(s) \in Nat /\ Len(u) \in Nat
  BY <1>3
<1>5. ASSUME NEW i \in 1 .. Len(s \o u)
      PROVE  /\ Plain((s \o u)[i])
             /\ Opens((s \o u)[i]) => /\ (s \o u)[i].chk # "else" /\ i + 1 <= Len(s \o u)
                                      /\ Closes((s \o u)[i + 1], (s \o u)[i].id)
             /\ (s \o u)[i].chk = "else" => i + 1 <= Len(s \o u)
  <2>1. CASE i <= Len(s)
    <3>1. i \in 1 .. Len(s) /\ (s \o u)[i] = s[i]
      BY <1>3, <1>4, <1>5, <2>1
    <3>2. i + 1 <= Len(s) => (s \o u)[i + 1] = s[i + 1]
      BY <1>3, <1>4, <3>1
    <3> QED
      BY <1>4, <3>1, <3>2 DEF Shape
  <2>2. CASE i > Len(s)
    <3>1. i - Len(s) \in 1 .. Len(u) /\ (s \o u)[i] = u[i - Len(s)]
      BY <1>3, <1>4, <1>5, <2>2
    <3>2. i + 1 <= Len(s) + Len(u) => (s \o u)[i + 1] = u[(i - Len(s)) + 1]
      BY <1>3, <1>4, <3>1, <1>5, <2>2
    <3> QED
      BY <1>4, <3>1, <3>2 DEF Shape
  <2> QED
    BY <1>4, <1>5, <2>1, <2>2
<1> QED
  BY <1>4, <1>5 DEF Shape, IsSeq

LEMMA ShapeTail ==
  ASSUME NEW s, Shape(s), s # <<>>
  PROVE  Shape(Tail(s)) /\ Len(s) >= 1 /\ Head(s) = s[1]
<1>1. PICK S : s \in Seq(S)
  BY DEF Shape, IsSeq
<1>2. /\ Tail(s) \in Seq(S) /\ Len(s) \in Nat /\ Len(s) >= 1 /\ Len(Tail(s)) = Len(s) - 1
      /\ Head(s) = s[1]
      /\ \A i \in 1 .. Len(Tail(s)) : Tail(s)[i] = s[i + 1]
  BY <1>1
<1>3. ASSUME NEW i \in 1 .. Len(Tail(s))
      PROVE  /\ Plain(Tail(s)[i])
             /\ Opens(Tail(s)[i]) => /\ Tail(s)[i].chk # "else" /\ i + 1 <= Len(Tail(s))
                                     /\ Closes(Tail(s)[i + 1], Tail(s)[i].id)
             /\ Tail(s)[i].chk = "else" => i + 1 <= Len(Tail(s))
  BY <1>2, <1>3 DEF Shape
<1> QED
  BY <1>2, <1>3 DEF Shape, IsSeq

\* A command that is to be tried again keeps its place.
LEMMA ShapeRetry ==
  ASSUME NEW s, Shape(s), s # <<>>, Head(s).tries > 1
  PROVE  Shape(<<[Head(s) EXCEPT !.tries = @ - 1]>> \o Tail(s))
<1> DEFINE c == Head(s)
           d == [c EXCEPT !.tries = @ - 1]
           u == <<d>> \o Tail(s)
<1>1. PICK S : s \in Seq(S)
  BY DEF Shape, IsSeq
<1>2. /\ Tail(s) \in Seq(S) /\ Len(s) \in Nat /\ Len(s) >= 1 /\ Len(Tail(s)) = Len(s) - 1
      /\ c = s[1] /\ \A i \in 1 .. Len(Tail(s)) : Tail(s)[i] = s[i + 1]
  BY <1>1
<1>3. Plain(c)
  BY <1>2 DEF Shape
<1>4. d = [verb |-> c.verb, kind |-> c.kind, id |-> c.id, chk |-> c.chk, tries |-> c.tries - 1]
  BY <1>3 DEF Plain
<1>5. c.tries - 1 \in Nat
  BY <1>3 DEF Plain
<1> HIDE DEF d, c
<1>6. Plain(d) /\ (Opens(d) <=> Opens(c)) /\ d.id = c.id /\ d.chk = c.chk
  <2>1. d.verb = c.verb /\ d.kind = c.kind /\ d.id = c.id /\ d.chk = c.chk /\ d.tries = c.tries - 1
    BY <1>4
  <2> QED
    BY <1>3, <1>4, <1>5, <2>1 DEF Plain, Opens
<1>7. /\ u \in Seq(S \cup {d}) /\ Len(u) = Len(s) /\ u[1] = d
      /\ \A i \in 1 .. Len(s) : i > 1 => u[i] = s[i]
  <2>1. <<d>> \in Seq(S \cup {d}) /\ Tail(s) \in Seq(S \cup {d}) /\ Len(<<d>>) = 1 /\ <<d>>[1] = d
    BY <1>2
  <2>2. u \in Seq(S \cup {d}) /\ Len(u) = 1 + Len(Tail(s)) /\ u[1] = d
    BY <2>1
  <2>3. ASSUME NEW i \in 1 .. Len(s), i > 1
        PROVE  u[i] = s[i]
    <3>1. i - 1 \in 1 .. Len(Tail(s)) /\ u[i] = Tail(s)[i - 1]
      BY <1>2, <2>1, <2>3
    <3> QED
      BY <1>2, <2>3, <3>1
  <2> QED
    BY <1>2, <2>2, <2>3
<1> HIDE DEF u
<1>8. ASSUME NEW i \in 1 .. Len(u)
      PROVE  /\ Plain(u[i])
             /\ Opens(u[i]) => u[i].chk # "else" /\ i + 1 <= Len(u) /\ Closes(u[i + 1], u[i].id)
             /\ u[i].chk = "else" => i + 1 <= Len(u)
  <2>1. CASE i = 1
    <3>1. Len(s) >= 2 => u[i + 1] = s[i + 1]
      BY <1>2, <1>7, <2>1
    <3>2. 1 \in 1 .. Len(s)
      BY <1>2
    <3> QED
      BY <1>2, <1>6, <1>7, <2>1, <3>1, <3>2 DEF Shape
  <2>2. CASE i > 1
    <3>1. u[i] = s[i] /\ (i + 1 <= Len(s) => u[i + 1] = s[i + 1])
      BY <1>2, <1>7, <1>8, <2>2
    <3> QED
      BY <1>2, <1>7, <1>8, <3>1 DEF Shape
  <2> QED
    BY <1>2, <1>7, <1>8, <2>1, <2>2
<1> QED
  BY <1>7, <1>8 DEF Shape, IsSeq, u, d, c

\* What follows the command that opens a gap.
LEMMA ShapeHead ==
  ASSUME NEW s, Shape(s), s # <<>>
  PROVE  /\ Plain(Head(s))
         /\ Opens(Head(s)) => /\ Head(s).chk # "else" /\ Tail(s) # <<>>
                              /\ Closes(Head(Tail(s)), Head(s).id)
         /\ Head(s).chk = "else" => Tail(s) # <<>>
<1>1. PICK S : s \in Seq(S)
  BY DEF Shape, IsSeq
<1>2. Len(s) \in Nat /\ Len(s) >= 1 /\ Head(s) = s[1] /\ Tail(s) \in Seq(S) /\ Len(Tail(s)) = Len(s) - 1
  BY <1>1
<1>3. Len(s) >= 2 => Tail(s) # <<>> /\ Head(Tail(s)) = s[2]
  BY <1>1, <1>2
<1> QED
  BY <1>2, <1>3 DEF Shape

-----------------------------------------------------------------------------
(* What a command does to the classes and the qdiscs.                       *)

\* A command that succeeds closes its gap, and opens none but the one it is said to.
Took(c, old, new) ==
  \A id : Gap(new, id) => (Gap(old, id) /\ ~Closes(c, id))
                         \/ (Opens(c) /\ c.id = id)

\* A command that could not be applied closes no gap because there is none.
Vain(c, objs) == \A id : Closes(c, id) => ~Gap(objs, id)

\* A thread is about to close every gap, unless a command failed by itself.
Covered(objs, T, l) ==
  ~l => \A id : Gap(objs, id) =>
           \E t \in SwThreads : T[t].todo # <<>> /\ Closes(Head(T[t].todo), id)

\* The threads' records, each with a script of the right shape.
Scripts(T) ==
  /\ T = [t \in SwThreads |-> [todo |-> T[t].todo, fin |-> T[t].fin, f |-> T[t].f]]
  /\ \A t \in SwThreads : Shape(T[t].todo) /\ (T[t].fin = "idle" => T[t].todo = <<>>)

\* A thread without a script is given one.
LEMMA GivenScript ==
  ASSUME NEW objs, NEW T, NEW U, NEW l, Scripts(T), Covered(objs, T, l),
         NEW t \in SwThreads, T[t].fin = "idle", NEW s, Shape(s), NEW fin, fin # "idle", NEW f,
         U = [T EXCEPT ![t] = [todo |-> s, fin |-> fin, f |-> f]]
  PROVE  Scripts(U) /\ Covered(objs, U, l)
<1>1. Scripts(U) /\ T[t].todo = <<>>
  BY DEF Scripts
<1>2. \A u \in SwThreads : u # t => U[u] = T[u]
  BY DEF Scripts
<1> QED
  BY <1>1, <1>2 DEF Covered

\* A thread goes on with its script after its first command has succeeded.
LEMMA TookCovers ==
  ASSUME NEW old, NEW new, NEW T, NEW U, NEW l, Scripts(T), Covered(old, T, l),
         NEW t \in SwThreads, T[t].todo # <<>>, Took(Head(T[t].todo), old, new), NEW s, Shape(s),
         Opens(Head(T[t].todo)) => s = Tail(T[t].todo),
         U = [T EXCEPT ![t] = [todo |-> s, fin |-> T[t].fin, f |-> T[t].f]]
  PROVE  Scripts(U) /\ Covered(new, U, l)
<1>1. Scripts(U) /\ U[t].todo = s
  BY DEF Scripts
<1>2. \A u \in SwThreads : u # t => U[u] = T[u]
  BY DEF Scripts
<1>3. ASSUME NEW id, Gap(new, id), ~l
      PROVE  \E u \in SwThreads : U[u].todo # <<>> /\ Closes(Head(U[u].todo), id)
  <2>1. CASE Opens(Head(T[t].todo)) /\ Head(T[t].todo).id = id
    <3>1. s # <<>> /\ Closes(Head(s), id)
      BY <2>1, ShapeHead DEF Scripts
    <3> QED
      BY <1>1, <3>1
  <2>2. CASE Gap(old, id) /\ ~Closes(Head(T[t].todo), id)
    <3>1. PICK u \in SwThreads : T[u].todo # <<>> /\ Closes(Head(T[u].todo), id)
      BY <1>3, <2>2 DEF Covered
    <3> QED
      BY <1>2, <2>2, <3>1
  <2> QED
    BY <1>3, <2>1, <2>2 DEF Took
<1> QED
  BY <1>1, <1>3 DEF Covered

\* A thread goes on, with another script or none, after a command in vain.
LEMMA VainCovers ==
  ASSUME NEW objs, NEW T, NEW U, NEW l, NEW m, Scripts(T), Covered(objs, T, l), l => m,
         NEW t \in SwThreads, T[t].todo # <<>>, ~m => Vain(Head(T[t].todo), objs), NEW s, Shape(s),
         NEW fin, fin = "idle" => s = <<>>, NEW f,
         U = [T EXCEPT ![t] = [todo |-> s, fin |-> fin, f |-> f]]
  PROVE  Scripts(U) /\ Covered(objs, U, m)
<1>1. Scripts(U)
  BY DEF Scripts
<1>2. \A u \in SwThreads : u # t => U[u] = T[u]
  BY DEF Scripts
<1>3. ASSUME NEW id, Gap(objs, id), ~m
      PROVE  \E u \in SwThreads : U[u].todo # <<>> /\ Closes(Head(U[u].todo), id)
  <2>1. PICK u \in SwThreads : T[u].todo # <<>> /\ Closes(Head(T[u].todo), id)
    BY <1>3 DEF Covered
  <2>2. u # t
    BY <1>3, <2>1 DEF Vain
  <2> QED
    BY <1>2, <2>1, <2>2
<1> QED
  BY <1>1, <1>3 DEF Covered

-----------------------------------------------------------------------------
(* The commands of the router.                                              *)

IsKernel(k) == k = [ipt |-> k.ipt, objs |-> k.objs]

\* What a command that can be applied makes of the kernel's tables (Apply).
Effect(k, c, new) ==
  \/ c.kind = "script" /\ new = [k EXCEPT !.objs = @ \cup c.id]
  \/ c.kind = "iptables" /\ \E b : new = [k EXCEPT !.ipt = b]
  \/ /\ c.kind \notin {"script", "iptables"}
     /\ \/ c.verb = "add" /\ new = [k EXCEPT !.objs = @ \cup {<<c.kind, c.id>>}]
        \/ /\ c.verb = "del"
           /\ new = [k EXCEPT !.objs = @ \ ({<<c.kind, c.id>>} \cup
                       (IF c.kind = "class" THEN {<<"qdisc", c.id>>} ELSE {}))]
        \/ c.verb \notin {"add", "del"} /\ new = k

LEMMA EffectTakes ==
  ASSUME NEW k, IsKernel(k), NEW c, Plain(c), NEW new, Effect(k, c, new)
  PROVE  IsKernel(new) /\ Took(c, k.objs, new.objs)
<1>1. CASE c.kind = "script" /\ new = [k EXCEPT !.objs = @ \cup c.id]
  <2>1. IsKernel(new) /\ new.objs = k.objs \cup c.id
    BY <1>1 DEF IsKernel
  <2>2. \A id : Gap(k.objs \cup c.id, id) => Gap(k.objs, id)
    BY <1>1 DEF Gap, Plain
  <2> QED
    BY <1>1, <2>1, <2>2 DEF Took, Closes
<1>2. CASE c.kind = "iptables" /\ \E b : new = [k EXCEPT !.ipt = b]
  <2>1. IsKernel(new) /\ new.objs = k.objs
    BY <1>2 DEF IsKernel
  <2> QED
    BY <1>2, <2>1 DEF Took, Closes
<1>3. CASE /\ c.kind \notin {"script", "iptables"} /\ c.verb = "add"
           /\ new = [k EXCEPT !.objs = @ \cup {<<c.kind, c.id>>}]
  <2>1. IsKernel(new) /\ new.objs = k.objs \cup {<<c.kind, c.id>>}
    BY <1>3 DEF IsKernel
  <2>2. ASSUME NEW id, Gap(new.objs, id)
        PROVE  (Gap(k.objs, id) /\ ~Closes(c, id)) \/ (Opens(c) /\ c.id = id)
    BY <1>3, <2>1, <2>2 DEF Gap, Closes, Opens
  <2> QED
    BY <2>1, <2>2 DEF Took
<1>4. CASE /\ c.kind \notin {"script", "iptables"} /\ c.verb = "del"
           /\ new = [k EXCEPT !.objs = @ \ ({<<c.kind, c.id>>} \cup
                       (IF c.kind = "class" THEN {<<"qdisc", c.id>>} ELSE {}))]
  <2>1. IsKernel(new) /\ new.objs = k.objs \ ({<<c.kind, c.id>>} \cup
                       (IF c.kind = "class" THEN {<<"qdisc", c.id>>} ELSE {}))
    BY <1>4 DEF IsKernel
  <2>2. ASSUME NEW id, Gap(new.objs, id)
        PROVE  (Gap(k.objs, id) /\ ~Closes(c, id)) \/ (Opens(c) /\ c.id = id)
    BY <1>4, <2>1, <2>2 DEF Gap, Closes, Opens
  <2> QED
    BY <2>1, <2>2 DEF Took
<1>5. CASE c.kind \notin {"script", "iptables"} /\ c.verb \notin {"add", "del"} /\ new = k
  BY <1>5 DEF Took, Closes
<1> QED
  BY <1>1, <1>2, <1>3, <1>4, <1>5 DEF Effect

\* The invariant of the software router and of the hosts that filter.
QueueInv ==
  /\ Scripts(rthr) /\ IsKernel(kernel) /\ lost \in BOOLEAN
  /\ Covered(kernel.objs, rthr, lost)

LEMMA NextScript ==
  ASSUME NEW r, r = [todo |-> r.todo, fin |-> r.fin, f |-> r.f], NEW s
  PROVE  [r EXCEPT !.todo = s] = [todo |-> s, fin |-> r.fin, f |-> r.f]
  OBVIOUS

\* A thread's next command: can says whether it can be applied, new what it makes of
\* the kernel (system_cmd).
Runs(t, can, new) ==
  LET c == Head(rthr[t].todo)
      rest == Tail(rthr[t].todo)
  IN  /\ rthr[t].todo # <<>>
      /\ \/ /\ can /\ kernel' = new /\ lost' = lost
            /\ rthr' = [rthr EXCEPT ![t].todo = IF c.chk = "else" THEN Tail(rest) ELSE rest]
         \/ \E fault \in BOOLEAN :
              /\ fault = can
              /\ lost' = (lost \/ (fault /\ c.tries = 1))
              /\ UNCHANGED kernel
              /\ \/ /\ c.tries > 1
                    /\ rthr' = [rthr EXCEPT ![t].todo = <<[c EXCEPT !.tries = @ - 1]>> \o rest]
                 \/ /\ c.tries = 1
                    /\ \E f : rthr' = [rthr EXCEPT ![t] = [todo |-> <<>>, fin |-> "idle", f |-> f]]
                 \/ c.tries = 1 /\ rthr' = [rthr EXCEPT ![t].todo = rest]

LEMMA CommandRuns ==
  ASSUME QueueInv, NEW t \in SwThreads, NEW can, NEW new, Runs(t, can, new),
         can => Effect(kernel, Head(rthr[t].todo), new),
         ~can => Vain(Head(rthr[t].todo), kernel.objs)
  PROVE  QueueInv'
<1> DEFINE c == Head(rthr[t].todo)
           rest == Tail(rthr[t].todo)
<1>1. /\ rthr[t].todo # <<>> /\ Shape(rthr[t].todo) /\ rthr[t].fin # "idle"
      /\ rthr[t] = [todo |-> rthr[t].todo, fin |-> rthr[t].fin, f |-> rthr[t].f]
  BY DEF Runs, QueueInv, Scripts
<1>2. Plain(c) /\ Shape(rest) /\ IsKernel(kernel)
  BY <1>1, ShapeHead, ShapeTail DEF QueueInv
<1>3. ASSUME NEW s, rthr' = [rthr EXCEPT ![t].todo = s]
      PROVE  rthr' = [rthr EXCEPT ![t] = [todo |-> s, fin |-> rthr[t].fin, f |-> rthr[t].f]]
  <2>1. [rthr[t] EXCEPT !.todo = s] = [todo |-> s, fin |-> rthr[t].fin, f |-> rthr[t].f]
    BY <1>1, NextScript
  <2> QED
    BY <1>3, <2>1, Zenon
<1>4. CASE /\ can /\ kernel' = new /\ lost' = lost
           /\ rthr' = [rthr EXCEPT ![t].todo = IF c.chk = "else" THEN Tail(rest) ELSE rest]
  <2> DEFINE s == IF c.chk = "else" THEN Tail(rest) ELSE rest
  <2>1. Shape(s)
    BY <1>1, <1>2, ShapeHead, ShapeTail
  <2>2. Opens(c) => s = rest
    BY <1>1, ShapeHead
  <2>3. Took(c, kernel.objs, kernel'.objs) /\ IsKernel(kernel')
    BY <1>2, <1>4, EffectTakes
  <2> HIDE DEF s
  <2>4. rthr' = [rthr EXCEPT ![t] = [todo |-> s, fin |-> rthr[t].fin, f |-> rthr[t].f]]
    BY <1>3, <1>4 DEF s
  <2>5. Scripts(rthr') /\ Covered(kernel'.objs, rthr', lost)
    BY <1>1, <2>1, <2>2, <2>3, <2>4, TookCovers DEF QueueInv
  <2> QED
    BY <1>4, <2>3, <2>5 DEF QueueInv
<1>5. ASSUME NEW fault \in BOOLEAN, fault = can,
             lost' = (lost \/ (fault /\ c.tries = 1)), kernel' = kernel,
             NEW s, Shape(s), NEW fin, fin = "idle" => s = <<>>, NEW f,
             rthr' = [rthr EXCEPT ![t] = [todo |-> s, fin |-> fin, f |-> f]],
             c.tries = 1
      PROVE  QueueInv'
  <2>1. lost' \in BOOLEAN /\ (lost => lost')
    BY <1>5 DEF QueueInv
  <2>2. ~lost' => Vain(c, kernel.objs)
    BY <1>5
  <2>3. Scripts(rthr') /\ Covered(kernel.objs, rthr', lost')
    BY <1>1, <1>5, <2>1, <2>2, VainCovers DEF QueueInv
  <2> QED
    BY <1>2, <1>5, <2>1, <2>3 DEF QueueInv
<1>6. ASSUME NEW fault \in BOOLEAN, lost' = (lost \/ (fault /\ c.tries = 1)), kernel' = kernel,
             c.tries > 1, rthr' = [rthr EXCEPT ![t].todo = <<[c EXCEPT !.tries = @ - 1]>> \o rest]
      PROVE  QueueInv'
  <2> DEFINE s == <<[c EXCEPT !.tries = @ - 1]>> \o rest
  <2>1. Shape(s)
    BY <1>1, <1>6, ShapeRetry
  <2> HIDE DEF s
  <2>2. rthr' = [rthr EXCEPT ![t] = [todo |-> s, fin |-> rthr[t].fin, f |-> rthr[t].f]]
    BY <1>3, <1>6 DEF s
  <2>3. c.tries # 1 /\ lost' = lost
    BY <1>2, <1>6 DEF QueueInv, Plain
  <2>4. Vain(c, kernel.objs)
    BY <2>3 DEF Vain, Closes
  <2>5. Scripts(rthr') /\ Covered(kernel.objs, rthr', lost)
    <3>1. rthr[t].fin = "idle" => s = <<>>
      BY <1>1
    <3> QED
      BY <1>1, <2>1, <2>2, <2>4, <3>1, VainCovers DEF QueueInv
  <2> QED
    BY <1>2, <1>6, <2>3, <2>5 DEF QueueInv
<1>7. CASE \E fault \in BOOLEAN :
             /\ fault = can
             /\ lost' = (lost \/ (fault /\ c.tries = 1))
             /\ UNCHANGED kernel
             /\ \/ /\ c.tries > 1
                   /\ rthr' = [rthr EXCEPT ![t].todo = <<[c EXCEPT !.tries = @ - 1]>> \o rest]
                \/ c.tries = 1 /\ \E f : rthr' = [rthr EXCEPT ![t] = [todo |-> <<>>, fin |-> "idle", f |-> f]]
                \/ c.tries = 1 /\ rthr' = [rthr EXCEPT ![t].todo = rest]
  <2>1. PICK fault \in BOOLEAN :
             /\ fault = can
             /\ lost' = (lost \/ (fault /\ c.tries = 1))
             /\ UNCHANGED kernel
             /\ \/ /\ c.tries > 1
                   /\ rthr' = [rthr EXCEPT ![t].todo = <<[c EXCEPT !.tries = @ - 1]>> \o rest]
                \/ c.tries = 1 /\ \E f : rthr' = [rthr EXCEPT ![t] = [todo |-> <<>>, fin |-> "idle", f |-> f]]
                \/ c.tries = 1 /\ rthr' = [rthr EXCEPT ![t].todo = rest]
    BY <1>7
  <2>2. CASE /\ c.tries > 1
             /\ rthr' = [rthr EXCEPT ![t].todo = <<[c EXCEPT !.tries = @ - 1]>> \o rest]
    BY <1>6, <2>1, <2>2
  <2>3. CASE c.tries = 1 /\ \E f : rthr' = [rthr EXCEPT ![t] = [todo |-> <<>>, fin |-> "idle", f |-> f]]
    BY <1>5, <2>1, <2>3, ShapeEmpty
  <2>4. CASE c.tries = 1 /\ rthr' = [rthr EXCEPT ![t].todo = rest]
    <3>1. rthr' = [rthr EXCEPT ![t] = [todo |-> rest, fin |-> rthr[t].fin, f |-> rthr[t].f]]
      BY <1>3, <2>4
    <3>2. rthr[t].fin = "idle" => rest = <<>>
      BY <1>1
    <3>3. kernel' = kernel /\ Shape(rest)
      BY <1>2, <2>1
    <3>4. /\ fault = can /\ lost' = (lost \/ (fault /\ c.tries = 1)) /\ c.tries = 1
      BY <2>1, <2>4
    <3> HIDE DEF rest, c
    <3> QED
      BY <1>5, <3>1, <3>2, <3>3, <3>4
  <2> QED
    BY <2>1, <2>2, <2>3, <2>4
<1> QED
  BY <1>4, <1>7 DEF Runs

-----------------------------------------------------------------------------
(* The scripts of the requests.                                             *)

\* A thread without one is given a script; the kernel is not touched yet (Run).
Given(t) ==
  /\ rthr[t].fin = "idle" /\ UNCHANGED <<kernel, lost>>
  /\ \E s, fin, f : /\ Shape(s) /\ fin # "idle"
                    /\ rthr' = [rthr EXCEPT ![t] = [todo |-> s, fin |-> fin, f |-> f]]

LEMMA GivenKeeps ==
  ASSUME QueueInv, NEW t \in SwThreads, Given(t)
  PROVE  QueueInv'
<1>1. PICK s, fin, f : /\ Shape(s) /\ fin # "idle"
                       /\ rthr' = [rthr EXCEPT ![t] = [todo |-> s, fin |-> fin, f |-> f]]
  BY DEF Given
<1>2. Scripts(rthr') /\ Covered(kernel.objs, rthr', lost)
  BY <1>1, GivenScript DEF Given, QueueInv
<1> QED
  BY <1>2 DEF Given, QueueInv

LEMMA QueueScripts ==
  ASSUME NEW p \in Nat, NEW q \in Nat
  PROVE  /\ \A change \in BOOLEAN : Shape(Sw!add_queue(p, q, change))
         /\ Shape(Sw!delete_queue(p, q))
         /\ Shape(Sw!add_netem_queue(p, q)) /\ Shape(Sw!delete_netem_queue(p, q))
         /\ Shape(Sw!add_delay_port(p)) /\ Shape(Sw!delete_delay_port(p))
<1>1. \A verb, chk : /\ Plain(Sw!Qdisc(verb, p, q, chk)) /\ Plain(Sw!Qdisc(verb, p, 1, chk))
                    /\ Plain(Sw!Class(verb, p, q))
  BY DEF Sw!Qdisc, Sw!Class, Sw!Cmd, Plain
<1>2. ASSUME NEW chk, chk # "else"
      PROVE  Shape(<<Sw!Qdisc("del", p, q, chk), Sw!Qdisc("add", p, q, "throw")>>)
             /\ Shape(<<Sw!Qdisc("del", p, q, chk), Sw!Qdisc("add", p, q, "ignore")>>)
  <2>1. /\ ~Opens(Sw!Qdisc("add", p, q, "throw")) /\ ~Opens(Sw!Qdisc("add", p, q, "ignore"))
        /\ Sw!Qdisc("add", p, q, "throw").chk # "else"
        /\ Sw!Qdisc("add", p, q, "ignore").chk # "else"
        /\ Sw!Qdisc("del", p, q, chk).chk # "else"
        /\ Closes(Sw!Qdisc("add", p, q, "throw"), Sw!Qdisc("del", p, q, chk).id)
        /\ Closes(Sw!Qdisc("add", p, q, "ignore"), Sw!Qdisc("del", p, q, chk).id)
    BY <1>2 DEF Sw!Qdisc, Sw!Cmd, Opens, Closes
  <2> QED
    BY <1>1, <2>1, ShapeTwo
<1>3. Shape(<<Sw!Class("add", p, q), Sw!Qdisc("add", p, q, "throw")>>)
  <2>1. /\ ~Opens(Sw!Qdisc("add", p, q, "throw")) /\ Sw!Qdisc("add", p, q, "throw").chk # "else"
        /\ Sw!Class("add", p, q).chk # "else"
        /\ Closes(Sw!Qdisc("add", p, q, "throw"), Sw!Class("add", p, q).id)
    BY DEF Sw!Qdisc, Sw!Class, Sw!Cmd, Opens, Closes
  <2> QED
    BY <1>1, <2>1, ShapeTwo
<1>4. Shape(<<Sw!Class("change", p, q)>>) /\ Shape(<<Sw!Class("del", p, q)>>)
  <2>1. /\ ~Opens(Sw!Class("change", p, q)) /\ ~Opens(Sw!Class("del", p, q))
        /\ Sw!Class("change", p, q).chk # "else" /\ Sw!Class("del", p, q).chk # "else"
    BY DEF Sw!Class, Sw!Cmd, Opens
  <2> QED
    BY <1>1, <2>1, ShapeOne
<1>5. Shape(<<Sw!Qdisc("add", p, 1, "else"), Sw!Qdisc("change", p, 1, "throw")>>)
  <2>1. /\ ~Opens(Sw!Qdisc("add", p, 1, "else")) /\ ~Opens(Sw!Qdisc("change", p, 1, "throw"))
        /\ Sw!Qdisc("change", p, 1, "throw").chk # "else"
    BY DEF Sw!Qdisc, Sw!Cmd, Opens
  <2> QED
    BY <1>1, <2>1, ShapeTwo
<1>6. Shape(<<Sw!Qdisc("del", p, 1, "throw")>>)
  <2>1. ~Opens(Sw!Qdisc("del", p, 1, "throw")) /\ Sw!Qdisc("del", p, 1, "throw").chk # "else"
    BY DEF Sw!Qdisc, Sw!Cmd, Sw!ClassId, Sw!TcId, Opens
  <2> QED
    BY <1>1, <2>1, ShapeOne
<1> QED
  BY <1>2, <1>3, <1>4, <1>5, <1>6
     DEF Sw!add_queue, Sw!delete_queue, Sw!add_netem_queue, Sw!delete_netem_queue,
         Sw!add_delay_port, Sw!delete_delay_port

\* The commands about ports, routes, filters and statistics open no gap.
LEMMA PlainCommands ==
  ASSUME NEW p \in Nat, NEW q, NEW m, NEW verb \in {"add", "del"}, NEW id,
         NEW n \in Nat
  PROVE  /\ Shape(<<Sw!PortScript(p, m)>>)
         /\ Shape(<<Sw!DefaultQdisc(p)>>)
         /\ Shape(<<Sw!Cmd(verb, "route", id, "throw", 1)>>)
         /\ Shape(<<Sw!Cmd("change", "class", id, "throw", 1)>>)
         /\ Shape(<<Sw!Cmd(verb, "rule", id, "negative", 1)>>)
         /\ Shape(<<Sw!Cmd(verb, "tcfilter", id, "negative", 1)>>)
         /\ Shape(<<Sw!Cmd(verb, "iptables", id, "throw", 3)>>)
         /\ \A k, chk : chk # "else" /\ k \notin {"script", "iptables"} =>
              Shape(<<Sw!Cmd("read", k, id, chk, n)>>)
<1>1. \A v, k, chk, i : v \in {"add", "del"} \/ k # "iptables" =>
        (k # "script" => Plain(Sw!Cmd(v, k, i, chk, n)) /\ Plain(Sw!Cmd(v, k, i, chk, 1))
                         /\ Plain(Sw!Cmd(v, k, i, chk, 3)))
  BY DEF Sw!Cmd, Plain
<1>2. Plain(Sw!PortScript(p, m)) /\ ~Opens(Sw!PortScript(p, m)) /\ Sw!PortScript(p, m).chk # "else"
  <2>1. ~(Sw!ClassId(p, 0)[2] >= 2) /\ ~(Sw!ClassId(p, 1)[2] >= 2)
    BY DEF Sw!ClassId, Sw!TcId
  <2> QED
    BY <2>1 DEF Sw!PortScript, Sw!Cmd, Plain, Opens
<1>3. /\ ~Opens(Sw!DefaultQdisc(p)) /\ Sw!DefaultQdisc(p).chk # "else" /\ Plain(Sw!DefaultQdisc(p))
  BY DEF Sw!DefaultQdisc, Sw!Cmd, Opens, Plain
<1>4. \A v, k, i, chk, r : k \notin {"class", "qdisc"} \/ v \notin {"add", "del"} =>
        ~Opens(Sw!Cmd(v, k, i, chk, r))
  BY DEF Sw!Cmd, Opens
<1>5. \A v, k, i, chk, r : Sw!Cmd(v, k, i, chk, r).chk = chk
  BY DEF Sw!Cmd
<1>6. ASSUME NEW v, NEW k, NEW chk, NEW r \in {1, 3, n}, chk # "else", k # "script",
             v \in {"add", "del"} \/ k # "iptables",
             k \notin {"class", "qdisc"} \/ v \notin {"add", "del"}
      PROVE  Shape(<<Sw!Cmd(v, k, id, chk, r)>>)
  BY <1>1, <1>4, <1>5, <1>6, ShapeOne
<1> QED
  BY <1>2, <1>3, <1>6, ShapeOne
-----------------------------------------------------------------------------
(* The requests.                                                            *)

LEMMA ShapeSingle ==
  ASSUME NEW c, Shape(<<c>>)
  PROVE  Plain(c) /\ ~Opens(c) /\ c.chk # "else"
<1>1. Len(<<c>>) = 1 /\ <<c>>[1] = c
  OBVIOUS
<1>2. 1 \in 1 .. Len(<<c>>)
  BY <1>1
<1> QED
  BY <1>1, <1>2 DEF Shape

LEMMA ShapeThree ==
  ASSUME NEW c, NEW d, NEW e, Shape(<<c>>), Shape(<<d>>), Shape(<<e>>)
  PROVE  Shape(<<c, d, e>>)
<1>1. \A x \in {c, d, e} : Plain(x) /\ ~Opens(x) /\ x.chk # "else"
  BY ShapeSingle
<1>2. IsSeq(<<c, d, e>>)
  <2>1. <<c, d, e>> \in Seq({c, d, e})
    OBVIOUS
  <2> QED
    BY <2>1 DEF IsSeq
<1>3. Len(<<c, d, e>>) = 3 /\ <<c, d, e>>[1] = c /\ <<c, d, e>>[2] = d /\ <<c, d, e>>[3] = e
  OBVIOUS
<1>4. ASSUME NEW i \in 1 .. Len(<<c, d, e>>)
      PROVE  <<c, d, e>>[i] \in {c, d, e}
  <2>1. i = 1 \/ i = 2 \/ i = 3
    BY <1>3, <1>4
  <2> QED
    BY <1>3, <2>1
<1> QED
  BY <1>1, <1>2, <1>4 DEF Shape

LEMMA ShapePair ==
  ASSUME NEW c, NEW d, Shape(<<c>>), Shape(<<d>>)
  PROVE  Shape(<<c, d>>)
<1>1. \A x \in {c, d} : Plain(x) /\ ~Opens(x) /\ x.chk # "else"
  BY ShapeSingle
<1> QED
  BY <1>1, ShapeTwo

\* The scripts of a filter: iptables, the queue's filter, the routing rule.
LEMMA FilterScript ==
  ASSUME NEW verb \in {"add", "del"}, NEW a, NEW b, NEW tc, NEW rule,
         tc = <<>> \/ \E id : tc = <<Sw!Cmd(verb, "tcfilter", id, "negative", 1)>>,
         rule = <<>> \/ \E id : rule = <<Sw!Cmd(verb, "rule", id, "negative", 1)>>
  PROVE  Shape(<<Sw!Cmd(verb, "iptables", a, "throw", 3),
                 Sw!Cmd(verb, "iptables", b, "throw", 3)>> \o tc \o rule)
<1>1. \A id : /\ Shape(<<Sw!Cmd(verb, "tcfilter", id, "negative", 1)>>)
             /\ Shape(<<Sw!Cmd(verb, "rule", id, "negative", 1)>>)
             /\ Shape(<<Sw!Cmd(verb, "iptables", id, "throw", 3)>>)
  BY PlainCommands, 0 \in Nat
<1>2. Shape(tc) /\ Shape(rule)
  BY <1>1, ShapeEmpty
<1>3. Shape(<<Sw!Cmd(verb, "iptables", a, "throw", 3), Sw!Cmd(verb, "iptables", b, "throw", 3)>>)
  BY <1>1, ShapePair
<1> QED
  BY <1>2, <1>3, ShapeConcat

LEMMA SwCall ==
  ASSUME NEW t \in SwThreads, NEW s, Shape(s), Sw!Call(t, s)
  PROVE  Given(t)
  BY DEF Sw!Call, Sw!Run, Given

LEMMA SwRead ==
  ASSUME NEW p \in Nat, NEW q, NEW class \in BOOLEAN, NEW n \in Nat
  PROVE  Shape(Sw!Read(p, q, class, n)) /\ Shape(<<Sw!read_link_stats(p)>>)
<1>1. \A k, id, chk : chk # "else" /\ k \notin {"script", "iptables"} =>
        Shape(<<Sw!Cmd("read", k, id, chk, n)>>) /\ Shape(<<Sw!Cmd("read", k, id, chk, 1)>>)
  BY PlainCommands, 1 \in Nat
<1>2. \/ Sw!Read(p, q, class, n) = <<>>
      \/ \E k, id : k \in {"class", "none", "qdisc"}
                    /\ Sw!Read(p, q, class, n) = <<Sw!Cmd("read", k, id, "throw", n)>>
  <2>1. CASE ~portTable[p].configured
    BY <2>1 DEF Sw!Read
  <2>2. CASE portTable[p].configured /\ class
    <3>1. Sw!Read(p, q, class, n) = <<Sw!Cmd("read", "class", Sw!LibnlId(p, 0), "throw", n)>>
      BY <2>2 DEF Sw!Read, Sw!Cmd
    <3> QED
      BY <3>1
  <2>3. CASE portTable[p].configured /\ ~class /\ q = 0
    <3>1. Sw!Read(p, q, class, n) = <<Sw!Cmd("read", "none", p, "throw", n)>>
      BY <2>3 DEF Sw!Read, Sw!Cmd
    <3> QED
      BY <3>1
  <2>4. CASE portTable[p].configured /\ ~class /\ q # 0
    <3>1. Sw!Read(p, q, class, n) = <<Sw!Cmd("read", "qdisc", Sw!LibnlId(p, q), "throw", n)>>
      BY <2>4 DEF Sw!Read, Sw!Cmd
    <3> QED
      BY <3>1
  <2> QED
    BY <2>1, <2>2, <2>3, <2>4
<1>3. Sw!read_link_stats(p) = Sw!Cmd("read", "none", p, "throw", 1)
  BY DEF Sw!read_link_stats, Sw!Cmd
<1>4. "throw" # "else" /\ \A k \in {"class", "none", "qdisc"} : k \notin {"script", "iptables"}
  OBVIOUS
<1> QED
  BY <1>1, <1>2, <1>3, <1>4, ShapeEmpty

LEMMA SwMonitors ==
  ASSUME NEW t \in SwThreads,
         \/ Sw!get_tx_pkt_req(t) \/ Sw!get_tx_kbits_req(t) \/ Sw!get_queue_len_req(t)
         \/ Sw!get_drops_req(t) \/ Sw!get_backlog_req(t)
         \/ Sw!get_link_tx_pkt_req(t) \/ Sw!get_link_rx_pkt_req(t)
         \/ Sw!get_link_tx_kbits_req(t) \/ Sw!get_link_rx_kbits_req(t)
         \/ Sw!get_link_tx_drops_req(t) \/ Sw!get_link_rx_drops_req(t)
         \/ Sw!get_link_tx_errors_req(t) \/ Sw!get_link_rx_errors_req(t)
  PROVE  Given(t)
<1>1. ASSUME NEW p \in SwPorts, NEW q, NEW class \in BOOLEAN, NEW n \in {1, 2},
             Sw!Call(t, Sw!Read(p, q, class, n))
      PROVE  Given(t)
  <2>1. Shape(Sw!Read(p, q, class, n))
    BY SwRead, QueueAssumption
  <2> QED
    BY <1>1, <2>1, SwCall
<1>2. ASSUME Sw!MonitorLink(t)
      PROVE  Given(t)
  <2>1. PICK p \in SwPorts : Sw!Call(t, <<>>) \/ Sw!Call(t, <<Sw!read_link_stats(p)>>)
    BY <1>2 DEF Sw!MonitorLink
  <2>2. Shape(<<Sw!read_link_stats(p)>>)
    BY SwRead, QueueAssumption, 0 \in Nat, TRUE \in BOOLEAN
  <2> QED
    BY <2>1, <2>2, SwCall, ShapeEmpty
<1>3. CASE Sw!get_tx_pkt_req(t)
  BY <1>1, <1>3 DEF Sw!get_tx_pkt_req, Sw!Monitor, Sw!read_stats_pkts
<1>4. CASE Sw!get_tx_kbits_req(t)
  BY <1>1, <1>4 DEF Sw!get_tx_kbits_req, Sw!Monitor, Sw!read_stats_bytes
<1>5. CASE Sw!get_queue_len_req(t)
  BY <1>1, <1>5 DEF Sw!get_queue_len_req, Sw!Monitor, Sw!read_stats_qlength
<1>6. CASE Sw!get_drops_req(t)
  BY <1>1, <1>6 DEF Sw!get_drops_req, Sw!Monitor, Sw!read_stats_drops
<1>7. CASE Sw!get_backlog_req(t)
  BY <1>1, <1>7 DEF Sw!get_backlog_req, Sw!Monitor, Sw!read_stats_backlog
<1> QED
  BY <1>2, <1>3, <1>4, <1>5, <1>6, <1>7
     DEF Sw!get_link_tx_pkt_req, Sw!get_link_rx_pkt_req, Sw!get_link_tx_kbits_req,
         Sw!get_link_rx_kbits_req, Sw!get_link_tx_drops_req, Sw!get_link_rx_drops_req,
         Sw!get_link_tx_errors_req, Sw!get_link_rx_errors_req

LEMMA SwFilters ==
  ASSUME NEW t \in SwThreads, Sw!filter_req(t)
  PROVE  Given(t)
<1>1. ASSUME NEW verb \in {"add", "del"}, NEW f
      PROVE  Shape(Sw!filter_command(verb, f))
  <2>1. PICK a, b : Sw!IptablesCommands(verb, f) =
               <<Sw!Cmd(verb, "iptables", a, "throw", 3), Sw!Cmd(verb, "iptables", b, "throw", 3)>>
    BY DEF Sw!IptablesCommands, Sw!Cmd
  <2>2. \/ Sw!TcFilterCommand(verb, f) = <<>>
        \/ \E id : Sw!TcFilterCommand(verb, f) = <<Sw!Cmd(verb, "tcfilter", id, "negative", 1)>>
    BY DEF Sw!TcFilterCommand, Sw!Cmd
  <2>3. \/ Sw!IpRuleCommand(verb, f) = <<>>
        \/ \E id : Sw!IpRuleCommand(verb, f) = <<Sw!Cmd(verb, "rule", id, "negative", 1)>>
    BY DEF Sw!IpRuleCommand, Sw!Cmd
  <2> QED
    BY <2>1, <2>2, <2>3, FilterScript DEF Sw!filter_command
<1>2. ASSUME NEW s, Shape(s), NEW fin \in {"answer", "add", "del"}, NEW f, Sw!Run(t, s, fin, f),
             UNCHANGED <<kernel, lost>>
      PROVE  Given(t)
  BY <1>2 DEF Sw!Run, Given
<1>3. ASSUME NEW m, NEW drop, NEW out, NEW q, Sw!add_filter(t, m, drop, out, q)
      PROVE  Given(t)
  BY <1>1, <1>2, <1>3, ShapeEmpty DEF Sw!add_filter
<1>4. ASSUME NEW m, NEW drop, Sw!del_filter(t, m, drop)
      PROVE  Given(t)
  BY <1>1, <1>2, <1>4, ShapeEmpty DEF Sw!del_filter
<1>5. ASSUME NEW m, NEW drop, Sw!filter_stats(t, m, drop)
      PROVE  Given(t)
  <2>1. Shape(<<Sw!Cmd("read", "none", "filter", "negative", 1)>>)
    BY PlainCommands, 0 \in Nat, 1 \in Nat
  <2> QED
    BY <1>5, <2>1, SwCall DEF Sw!filter_stats
<1> QED
  BY <1>3, <1>4, <1>5 DEF Sw!filter_req

LEMMA SwQueues ==
  ASSUME NEW t \in SwThreads,
         Sw!set_queue_params_req(t) \/ Sw!add_delay_req(t) \/ Sw!delete_delay_req(t)
  PROVE  Given(t)
<1>1. ASSUME NEW p \in Nat, NEW q \in Nat
      PROVE  /\ \A change \in BOOLEAN : Shape(Sw!add_queue(p, q, change))
             /\ Shape(Sw!delete_queue(p, q))
             /\ Shape(Sw!add_netem_queue(p, q)) /\ Shape(Sw!delete_netem_queue(p, q))
             /\ Shape(Sw!add_delay_port(p)) /\ Shape(Sw!delete_delay_port(p))
  BY QueueScripts
<1>2. CASE Sw!set_queue_params_req(t)
  <2>1. PICK p \in SwPorts, q \in SwQids, netem \in BOOLEAN :
          \/ Sw!Call(t, Sw!add_queue(p, q, FALSE) \o (IF netem THEN Sw!add_netem_queue(p, q) ELSE <<>>))
          \/ Sw!Call(t, Sw!add_queue(p, q, TRUE))
          \/ Sw!Call(t, Sw!delete_queue(p, q))
          \/ Sw!Call(t, IF netem THEN Sw!add_netem_queue(p, q) ELSE Sw!delete_netem_queue(p, q))
    BY <1>2 DEF Sw!set_queue_params_req
  <2>2. p \in Nat /\ q \in Nat
    BY QueueAssumption
  <2>3. /\ Shape(Sw!add_queue(p, q, FALSE)) /\ Shape(Sw!add_queue(p, q, TRUE))
        /\ Shape(Sw!delete_queue(p, q))
        /\ Shape(Sw!add_netem_queue(p, q)) /\ Shape(Sw!delete_netem_queue(p, q))
    BY <1>1, <2>2
  <2>4. Shape(Sw!add_queue(p, q, FALSE) \o (IF netem THEN Sw!add_netem_queue(p, q) ELSE <<>>))
    BY <2>3, ShapeConcat, ShapeEmpty
  <2>5. Shape(IF netem THEN Sw!add_netem_queue(p, q) ELSE Sw!delete_netem_queue(p, q))
    BY <2>3
  <2> QED
    BY <2>1, <2>3, <2>4, <2>5, SwCall
<1>3. CASE Sw!add_delay_req(t) \/ Sw!delete_delay_req(t)
  <2>1. PICK p \in SwPorts : Sw!Call(t, Sw!add_delay_port(p)) \/ Sw!Call(t, Sw!delete_delay_port(p))
    BY <1>3 DEF Sw!add_delay_req, Sw!delete_delay_req
  <2>2. Shape(Sw!add_delay_port(p)) /\ Shape(Sw!delete_delay_port(p))
    BY <1>1, QueueAssumption, 0 \in Nat
  <2> QED
    BY <2>1, <2>2, SwCall
<1> QED
  BY <1>2, <1>3

\* Configuring a port gives its script to the thread; so does changing its rate.
LEMMA SwPortConfig ==
  ASSUME NEW t \in SwThreads, Sw!configure_node_req(t) \/ Sw!set_port_rate_req(t)
  PROVE  Given(t)
<1>1. \A p \in Nat : \A m, id :
        /\ Shape(<<Sw!PortScript(p, m)>>) /\ Shape(<<Sw!DefaultQdisc(p)>>)
        /\ Shape(<<Sw!Cmd("add", "route", id, "throw", 1)>>)
        /\ Shape(<<Sw!Cmd("change", "class", id, "throw", 1)>>)
  BY PlainCommands, 0 \in Nat
<1>2. ASSUME NEW s, Shape(s), NEW fin \in {"answer", "configure"}, NEW f, Sw!Run(t, s, fin, f),
             UNCHANGED <<kernel, lost>>
      PROVE  Given(t)
  BY <1>2 DEF Sw!Run, Given
<1>3. CASE Sw!configure_node_req(t)
  <2>1. PICK p \in SwPorts, rate \in SwRates, nh \in BOOLEAN :
          /\ Sw!Run(t, Sw!configure_port(p, rate, nh).todo, "configure", Sw!NoFilter)
          /\ UNCHANGED <<kernel, lost>>
    BY <1>3 DEF Sw!configure_node_req
  <2>2. p \in Nat
    BY QueueAssumption
  <2>3. Shape(Sw!configure_port(p, rate, nh).todo)
    <3>1. \/ Sw!configure_port(p, rate, nh).todo = <<>>
          \/ \E m, id : Sw!configure_port(p, rate, nh).todo =
               <<Sw!PortScript(p, m), Sw!Cmd("add", "route", id, "throw", 1), Sw!DefaultQdisc(p)>>
      BY DEF Sw!configure_port, Sw!SwrPort
    <3> QED
      BY <1>1, <2>2, <3>1, ShapeThree, ShapeEmpty
  <2> QED
    BY <1>2, <2>1, <2>3
<1>4. CASE Sw!set_port_rate_req(t)
  <2>1. PICK p \in SwPorts :
          /\ Sw!Run(t, <<Sw!Cmd("change", "class", Sw!ClassId(p, 0), "throw", 1),
                        Sw!Cmd("change", "class", Sw!ClassId(p, 1), "throw", 1)>>,
                   "answer", Sw!NoFilter)
          /\ UNCHANGED <<kernel, lost>>
    BY <1>4 DEF Sw!set_port_rate_req
  <2>2. Shape(<<Sw!Cmd("change", "class", Sw!ClassId(p, 0), "throw", 1),
                Sw!Cmd("change", "class", Sw!ClassId(p, 1), "throw", 1)>>)
    BY <1>1, ShapePair, 0 \in Nat
  <2> QED
    BY <1>2, <2>1, <2>2
<1> QED
  BY <1>3, <1>4

\* The requests about routes run one command each.
LEMMA SwRoutes ==
  ASSUME NEW t \in SwThreads,
         \/ Sw!add_route_main_req(t) \/ Sw!del_route_main_req(t)
         \/ Sw!add_route_port_req(t) \/ Sw!del_route_port_req(t)
  PROVE  Given(t)
<1>1. \A verb \in {"add", "del"} : \A id : Shape(<<Sw!Cmd(verb, "route", id, "throw", 1)>>)
  BY PlainCommands, 0 \in Nat
<1>2. \E verb \in {"add", "del"} : \E id : Sw!Call(t, <<Sw!Cmd(verb, "route", id, "throw", 1)>>)
  BY DEF Sw!add_route_main_req, Sw!del_route_main_req, Sw!add_route_port_req, Sw!del_route_port_req,
         Sw!add_route_main_gw, Sw!del_route_main_gw, Sw!add_route_port_gw, Sw!del_route_port_gw,
         Sw!Route
<1> QED
  BY <1>1, <1>2, SwCall

\* Every request of the router gives a thread a script that closes what it opens.
LEMMA SwRequests ==
  ASSUME NEW t \in SwThreads, Sw!Request(t)
  PROVE  Given(t)
  BY SwMonitors, SwFilters, SwQueues, SwPortConfig, SwRoutes DEF Sw!Request

-----------------------------------------------------------------------------
(* The requests of the host daemons: host_filters.                             *)

LEMMA HfCall ==
  ASSUME NEW t \in SwThreads, NEW s, Shape(s), Hf!R!Call(t, s)
  PROVE  Given(t)
  BY DEF Hf!R!Call, Hf!R!Run, Given

LEMMA HfRead ==
  ASSUME NEW p \in Nat, NEW q, NEW class \in BOOLEAN, NEW n \in Nat
  PROVE  Shape(Hf!R!Read(p, q, class, n)) /\ Shape(<<Hf!R!read_link_stats(p)>>)
<1>1. \A k, id, chk : chk # "else" /\ k \notin {"script", "iptables"} =>
        Shape(<<Sw!Cmd("read", k, id, chk, n)>>) /\ Shape(<<Sw!Cmd("read", k, id, chk, 1)>>)
  BY PlainCommands, 1 \in Nat
<1>2. \/ Hf!R!Read(p, q, class, n) = <<>>
      \/ \E k, id : k \in {"class", "none", "qdisc"}
                    /\ Hf!R!Read(p, q, class, n) = <<Sw!Cmd("read", k, id, "throw", n)>>
  <2>1. CASE ~portTable[p].configured
    BY <2>1 DEF Hf!R!Read
  <2>2. CASE portTable[p].configured /\ class
    <3>1. Hf!R!Read(p, q, class, n) = <<Sw!Cmd("read", "class", Hf!R!LibnlId(p, 0), "throw", n)>>
      BY <2>2 DEF Hf!R!Read, Hf!R!Cmd, Sw!Read, Sw!Cmd
    <3> QED
      BY <3>1
  <2>3. CASE portTable[p].configured /\ ~class /\ q = 0
    <3>1. Hf!R!Read(p, q, class, n) = <<Sw!Cmd("read", "none", p, "throw", n)>>
      BY <2>3 DEF Hf!R!Read, Hf!R!Cmd, Sw!Read, Sw!Cmd
    <3> QED
      BY <3>1
  <2>4. CASE portTable[p].configured /\ ~class /\ q # 0
    <3>1. Hf!R!Read(p, q, class, n) = <<Sw!Cmd("read", "qdisc", Hf!R!LibnlId(p, q), "throw", n)>>
      BY <2>4 DEF Hf!R!Read, Hf!R!Cmd, Sw!Read, Sw!Cmd
    <3> QED
      BY <3>1
  <2> QED
    BY <2>1, <2>2, <2>3, <2>4
<1>3. Hf!R!read_link_stats(p) = Sw!Cmd("read", "none", p, "throw", 1)
  BY DEF Hf!R!read_link_stats, Hf!R!Cmd, Sw!read_link_stats, Sw!Cmd
<1>4. "throw" # "else" /\ \A k \in {"class", "none", "qdisc"} : k \notin {"script", "iptables"}
  OBVIOUS
<1> QED
  BY <1>1, <1>2, <1>3, <1>4, ShapeEmpty

LEMMA HfMonitors ==
  ASSUME NEW t \in SwThreads,
         \/ Hf!R!get_tx_pkt_req(t) \/ Hf!R!get_tx_kbits_req(t) \/ Hf!R!get_queue_len_req(t)
         \/ Hf!R!get_drops_req(t) \/ Hf!R!get_backlog_req(t)
         \/ Hf!R!get_link_tx_pkt_req(t) \/ Hf!R!get_link_rx_pkt_req(t)
         \/ Hf!R!get_link_tx_kbits_req(t) \/ Hf!R!get_link_rx_kbits_req(t)
         \/ Hf!R!get_link_tx_drops_req(t) \/ Hf!R!get_link_rx_drops_req(t)
         \/ Hf!R!get_link_tx_errors_req(t) \/ Hf!R!get_link_rx_errors_req(t)
  PROVE  Given(t)
<1>1. ASSUME NEW p \in HostPorts, NEW q, NEW class \in BOOLEAN, NEW n \in {1, 2},
             Hf!R!Call(t, Hf!R!Read(p, q, class, n))
      PROVE  Given(t)
  <2>1. Shape(Hf!R!Read(p, q, class, n))
    BY HfRead, QueueAssumption
  <2> QED
    BY <1>1, <2>1, HfCall
<1>2. ASSUME Hf!R!MonitorLink(t)
      PROVE  Given(t)
  <2>1. PICK p \in HostPorts : Hf!R!Call(t, <<>>) \/ Hf!R!Call(t, <<Hf!R!read_link_stats(p)>>)
    BY <1>2 DEF Hf!R!MonitorLink
  <2>2. Shape(<<Hf!R!read_link_stats(p)>>)
    BY HfRead, QueueAssumption, 0 \in Nat, TRUE \in BOOLEAN
  <2> QED
    BY <2>1, <2>2, HfCall, ShapeEmpty
<1>3. CASE Hf!R!get_tx_pkt_req(t)
  BY <1>1, <1>3 DEF Hf!R!get_tx_pkt_req, Hf!R!Monitor, Hf!R!read_stats_pkts
<1>4. CASE Hf!R!get_tx_kbits_req(t)
  BY <1>1, <1>4 DEF Hf!R!get_tx_kbits_req, Hf!R!Monitor, Hf!R!read_stats_bytes
<1>5. CASE Hf!R!get_queue_len_req(t)
  BY <1>1, <1>5 DEF Hf!R!get_queue_len_req, Hf!R!Monitor, Hf!R!read_stats_qlength
<1>6. CASE Hf!R!get_drops_req(t)
  BY <1>1, <1>6 DEF Hf!R!get_drops_req, Hf!R!Monitor, Hf!R!read_stats_drops
<1>7. CASE Hf!R!get_backlog_req(t)
  BY <1>1, <1>7 DEF Hf!R!get_backlog_req, Hf!R!Monitor, Hf!R!read_stats_backlog
<1> QED
  BY <1>2, <1>3, <1>4, <1>5, <1>6, <1>7
     DEF Hf!R!get_link_tx_pkt_req, Hf!R!get_link_rx_pkt_req, Hf!R!get_link_tx_kbits_req,
         Hf!R!get_link_rx_kbits_req, Hf!R!get_link_tx_drops_req, Hf!R!get_link_rx_drops_req,
         Hf!R!get_link_tx_errors_req, Hf!R!get_link_rx_errors_req

LEMMA HfFilters ==
  ASSUME NEW t \in SwThreads, Hf!R!filter_req(t)
  PROVE  Given(t)
<1>1. ASSUME NEW verb \in {"add", "del"}, NEW f
      PROVE  Shape(Hf!R!filter_command(verb, f))
  <2>1. PICK a, b : Hf!R!IptablesCommands(verb, f) =
               <<Sw!Cmd(verb, "iptables", a, "throw", 3), Sw!Cmd(verb, "iptables", b, "throw", 3)>>
    BY DEF Hf!R!IptablesCommands, Hf!R!Cmd, Sw!IptablesCommands, Sw!Cmd
  <2>2. \/ Hf!R!TcFilterCommand(verb, f) = <<>>
        \/ \E id : Hf!R!TcFilterCommand(verb, f) = <<Sw!Cmd(verb, "tcfilter", id, "negative", 1)>>
    BY DEF Hf!R!TcFilterCommand, Hf!R!Cmd, Sw!TcFilterCommand, Sw!Cmd
  <2>3. \/ Hf!R!IpRuleCommand(verb, f) = <<>>
        \/ \E id : Hf!R!IpRuleCommand(verb, f) = <<Sw!Cmd(verb, "rule", id, "negative", 1)>>
    BY DEF Hf!R!IpRuleCommand, Hf!R!Cmd, Sw!IpRuleCommand, Sw!Cmd
  <2> QED
    BY <2>1, <2>2, <2>3, FilterScript DEF Hf!R!filter_command
<1>2. ASSUME NEW s, Shape(s), NEW fin \in {"answer", "add", "del"}, NEW f, Hf!R!Run(t, s, fin, f),
             UNCHANGED <<kernel, lost>>
      PROVE  Given(t)
  BY <1>2 DEF Hf!R!Run, Given
<1>3. ASSUME NEW m, NEW drop, NEW out, NEW q, Hf!R!add_filter(t, m, drop, out, q)
      PROVE  Given(t)
  BY <1>1, <1>2, <1>3, ShapeEmpty DEF Hf!R!add_filter
<1>4. ASSUME NEW m, NEW drop, Hf!R!del_filter(t, m, drop)
      PROVE  Given(t)
  BY <1>1, <1>2, <1>4, ShapeEmpty DEF Hf!R!del_filter
<1>5. ASSUME NEW m, NEW drop, Hf!R!filter_stats(t, m, drop)
      PROVE  Given(t)
  <2>1. Shape(<<Sw!Cmd("read", "none", "filter", "negative", 1)>>)
    BY PlainCommands, 0 \in Nat, 1 \in Nat
  <2>2. Sw!Cmd("read", "none", "filter", "negative", 1) = Hf!R!Cmd("read", "none", "filter", "negative", 1)
    BY DEF Hf!R!Cmd, Sw!Cmd
  <2> QED
    BY <1>5, <2>1, <2>2, HfCall DEF Hf!R!filter_stats
<1> QED
  BY <1>3, <1>4, <1>5 DEF Hf!R!filter_req

LEMMA HfQueues ==
  ASSUME NEW t \in SwThreads,
         Hf!R!set_queue_params_req(t) \/ Hf!R!add_delay_req(t) \/ Hf!R!delete_delay_req(t)
  PROVE  Given(t)
<1>1. ASSUME NEW p \in Nat, NEW q \in Nat
      PROVE  /\ \A change \in BOOLEAN : Shape(Hf!R!add_queue(p, q, change))
             /\ Shape(Hf!R!delete_queue(p, q))
             /\ Shape(Hf!R!add_netem_queue(p, q)) /\ Shape(Hf!R!delete_netem_queue(p, q))
             /\ Shape(Hf!R!add_delay_port(p)) /\ Shape(Hf!R!delete_delay_port(p))
  <2>1. /\ \A change \in BOOLEAN : Hf!R!add_queue(p, q, change) = Sw!add_queue(p, q, change)
        /\ Hf!R!delete_queue(p, q) = Sw!delete_queue(p, q)
        /\ Hf!R!add_netem_queue(p, q) = Sw!add_netem_queue(p, q)
        /\ Hf!R!delete_netem_queue(p, q) = Sw!delete_netem_queue(p, q)
        /\ Hf!R!add_delay_port(p) = Sw!add_delay_port(p)
        /\ Hf!R!delete_delay_port(p) = Sw!delete_delay_port(p)
    BY DEF Hf!R!add_queue, Hf!R!delete_queue, Hf!R!add_netem_queue, Hf!R!delete_netem_queue, Hf!R!add_delay_port,
           Hf!R!delete_delay_port, Hf!R!Qdisc, Hf!R!Class, Hf!R!Cmd, Hf!R!ClassId, Hf!R!TcId,
           Sw!add_queue, Sw!delete_queue, Sw!add_netem_queue, Sw!delete_netem_queue, Sw!add_delay_port,
           Sw!delete_delay_port, Sw!Qdisc, Sw!Class, Sw!Cmd, Sw!ClassId, Sw!TcId
  <2> QED
    BY <2>1, QueueScripts
<1>2. CASE Hf!R!set_queue_params_req(t)
  <2>1. PICK p \in HostPorts, q \in HostQids, netem \in BOOLEAN :
          \/ Hf!R!Call(t, Hf!R!add_queue(p, q, FALSE) \o (IF netem THEN Hf!R!add_netem_queue(p, q) ELSE <<>>))
          \/ Hf!R!Call(t, Hf!R!add_queue(p, q, TRUE))
          \/ Hf!R!Call(t, Hf!R!delete_queue(p, q))
          \/ Hf!R!Call(t, IF netem THEN Hf!R!add_netem_queue(p, q) ELSE Hf!R!delete_netem_queue(p, q))
    BY <1>2 DEF Hf!R!set_queue_params_req
  <2>2. p \in Nat /\ q \in Nat
    BY QueueAssumption
  <2>3. /\ Shape(Hf!R!add_queue(p, q, FALSE)) /\ Shape(Hf!R!add_queue(p, q, TRUE))
        /\ Shape(Hf!R!delete_queue(p, q))
        /\ Shape(Hf!R!add_netem_queue(p, q)) /\ Shape(Hf!R!delete_netem_queue(p, q))
    BY <1>1, <2>2
  <2>4. Shape(Hf!R!add_queue(p, q, FALSE) \o (IF netem THEN Hf!R!add_netem_queue(p, q) ELSE <<>>))
    BY <2>3, ShapeConcat, ShapeEmpty
  <2>5. Shape(IF netem THEN Hf!R!add_netem_queue(p, q) ELSE Hf!R!delete_netem_queue(p, q))
    BY <2>3
  <2> QED
    BY <2>1, <2>3, <2>4, <2>5, HfCall
<1>3. CASE Hf!R!add_delay_req(t) \/ Hf!R!delete_delay_req(t)
  <2>1. PICK p \in HostPorts : Hf!R!Call(t, Hf!R!add_delay_port(p)) \/ Hf!R!Call(t, Hf!R!delete_delay_port(p))
    BY <1>3 DEF Hf!R!add_delay_req, Hf!R!delete_delay_req
  <2>2. Shape(Hf!R!add_delay_port(p)) /\ Shape(Hf!R!delete_delay_port(p))
    BY <1>1, QueueAssumption, 0 \in Nat
  <2> QED
    BY <2>1, <2>2, HfCall
<1> QED
  BY <1>2, <1>3

\* Configuring a port gives its script to the thread; so does changing its rate.
LEMMA HfPortConfig ==
  ASSUME NEW t \in SwThreads, Hf!R!configure_node_req(t) \/ Hf!R!set_port_rate_req(t)
  PROVE  Given(t)
<1>1. \A p \in Nat : \A m, id :
        /\ Shape(<<Hf!R!PortScript(p, m)>>) /\ Shape(<<Hf!R!DefaultQdisc(p)>>)
        /\ Shape(<<Hf!R!Cmd("add", "route", id, "throw", 1)>>)
        /\ Shape(<<Hf!R!Cmd("change", "class", id, "throw", 1)>>)
  <2>1. ASSUME NEW p \in Nat, NEW m, NEW id
        PROVE  /\ Hf!R!PortScript(p, m) = Sw!PortScript(p, m)
               /\ Hf!R!DefaultQdisc(p) = Sw!DefaultQdisc(p)
               /\ Hf!R!Cmd("add", "route", id, "throw", 1) = Sw!Cmd("add", "route", id, "throw", 1)
               /\ Hf!R!Cmd("change", "class", id, "throw", 1) = Sw!Cmd("change", "class", id, "throw", 1)
    BY DEF Hf!R!PortScript, Hf!R!DefaultQdisc, Hf!R!Cmd, Hf!R!ClassId, Hf!R!TcId,
           Sw!PortScript, Sw!DefaultQdisc, Sw!Cmd, Sw!ClassId, Sw!TcId
  <2>2. ASSUME NEW p \in Nat, NEW m, NEW id
        PROVE  /\ Shape(<<Sw!PortScript(p, m)>>) /\ Shape(<<Sw!DefaultQdisc(p)>>)
               /\ Shape(<<Sw!Cmd("add", "route", id, "throw", 1)>>)
               /\ Shape(<<Sw!Cmd("change", "class", id, "throw", 1)>>)
    BY PlainCommands, 0 \in Nat
  <2>3. ASSUME NEW p \in Nat, NEW m, NEW id
        PROVE  /\ Shape(<<Hf!R!PortScript(p, m)>>) /\ Shape(<<Hf!R!DefaultQdisc(p)>>)
               /\ Shape(<<Hf!R!Cmd("add", "route", id, "throw", 1)>>)
               /\ Shape(<<Hf!R!Cmd("change", "class", id, "throw", 1)>>)
    <3>1. Shape(<<Hf!R!PortScript(p, m)>>)
      BY <2>1, <2>2
    <3>2. Shape(<<Hf!R!DefaultQdisc(p)>>)
      BY <2>1, <2>2
    <3> QED
      BY <2>1, <2>2, <3>1, <3>2
  <2> QED
    BY <2>3
<1>2. ASSUME NEW s, Shape(s), NEW fin \in {"answer", "configure"}, NEW f, Hf!R!Run(t, s, fin, f),
             UNCHANGED <<kernel, lost>>
      PROVE  Given(t)
  BY <1>2 DEF Hf!R!Run, Given
<1>3. CASE Hf!R!configure_node_req(t)
  <2>1. PICK p \in HostPorts, rate \in SwRates, nh \in BOOLEAN :
          /\ Hf!R!Run(t, Hf!R!configure_port(p, rate, nh).todo, "configure", Hf!R!NoFilter)
          /\ UNCHANGED <<kernel, lost>>
    BY <1>3 DEF Hf!R!configure_node_req
  <2>2. p \in Nat
    BY QueueAssumption
  <2>3. Shape(Hf!R!configure_port(p, rate, nh).todo)
    <3>1. \E m, u : /\ Hf!R!configure_port(p, rate, nh).todo = <<Hf!R!PortScript(p, m)>> \o u
                   /\ \/ u = <<>> \/ u = <<Hf!R!DefaultQdisc(p)>>
                      \/ \E id : u = <<Hf!R!Cmd("add", "route", id, "throw", 1), Hf!R!DefaultQdisc(p)>>
      BY DEF Hf!R!configure_port, Hf!R!HostPort
    <3> QED
      BY <1>1, <2>2, <3>1, ShapeConcat, ShapePair, ShapeEmpty
  <2> QED
    BY <1>2, <2>1, <2>3
<1>4. CASE Hf!R!set_port_rate_req(t)
  <2>1. PICK p \in HostPorts :
          /\ Hf!R!Run(t, <<Hf!R!Cmd("change", "class", Hf!R!ClassId(p, 0), "throw", 1),
                        Hf!R!Cmd("change", "class", Hf!R!ClassId(p, 1), "throw", 1)>>,
                   "answer", Hf!R!NoFilter)
          /\ UNCHANGED <<kernel, lost>>
    BY <1>4 DEF Hf!R!set_port_rate_req
  <2>2. Shape(<<Hf!R!Cmd("change", "class", Hf!R!ClassId(p, 0), "throw", 1),
                Hf!R!Cmd("change", "class", Hf!R!ClassId(p, 1), "throw", 1)>>)
    BY <1>1, ShapePair, 0 \in Nat
  <2> QED
    BY <1>2, <2>1, <2>2
<1> QED
  BY <1>3, <1>4

LEMMA HfRoutes ==
  ASSUME NEW t \in SwThreads, Hf!add_route_req(t) \/ Hf!delete_route_req(t)
  PROVE  Given(t)
<1>1. PICK verb \in {"add", "del"} : Hf!R!Call(t, Hf!MainRoute(verb))
  BY DEF Hf!add_route_req, Hf!delete_route_req, Hf!add_route, Hf!delete_route
<1>2. Hf!MainRoute(verb) = <<Sw!Cmd(verb, "route", <<Sw!Main, 0, FALSE>>, "throw", 1)>>
  BY DEF Hf!MainRoute, Hf!R!Cmd, Hf!R!Main, Sw!Cmd, Sw!Main
<1>3. Shape(Hf!MainRoute(verb))
  BY <1>2, PlainCommands, 0 \in Nat
<1> QED
  BY <1>1, <1>3, HfCall

LEMMA HfRequests ==
  ASSUME NEW t \in SwThreads, Hf!Request(t)
  PROVE  Given(t)
  BY HfMonitors, HfFilters, HfQueues, HfPortConfig, HfRoutes
     DEF Hf!Request,
         Hf!configure_node_req, Hf!set_port_rate_req, Hf!filter_req,
         Hf!set_queue_params_req, Hf!add_delay_req, Hf!delete_delay_req,
         Hf!get_tx_pkt_req, Hf!get_tx_kbits_req, Hf!get_queue_len_req, Hf!get_drops_req,
         Hf!get_backlog_req, Hf!get_link_tx_pkt_req, Hf!get_link_rx_pkt_req,
         Hf!get_link_tx_kbits_req, Hf!get_link_rx_kbits_req, Hf!get_link_tx_drops_req,
         Hf!get_link_rx_drops_req, Hf!get_link_tx_errors_req, Hf!get_link_rx_errors_req

-----------------------------------------------------------------------------
(* The requests of the host daemons: ndnether_host.                             *)

LEMMA NdCall ==
  ASSUME NEW t \in SwThreads, NEW s, Shape(s), Nd!R!R!Call(t, s)
  PROVE  Given(t)
  BY DEF Nd!R!R!Call, Nd!R!R!Run, Given

LEMMA NdRead ==
  ASSUME NEW p \in Nat, NEW q, NEW class \in BOOLEAN, NEW n \in Nat
  PROVE  Shape(Nd!R!R!Read(p, q, class, n)) /\ Shape(<<Nd!R!R!read_link_stats(p)>>)
<1>1. \A k, id, chk : chk # "else" /\ k \notin {"script", "iptables"} =>
        Shape(<<Sw!Cmd("read", k, id, chk, n)>>) /\ Shape(<<Sw!Cmd("read", k, id, chk, 1)>>)
  BY PlainCommands, 1 \in Nat
<1>2. \/ Nd!R!R!Read(p, q, class, n) = <<>>
      \/ \E k, id : k \in {"class", "none", "qdisc"}
                    /\ Nd!R!R!Read(p, q, class, n) = <<Sw!Cmd("read", k, id, "throw", n)>>
  <2>1. CASE ~portTable[p].configured
    BY <2>1 DEF Nd!R!R!Read
  <2>2. CASE portTable[p].configured /\ class
    <3>1. Nd!R!R!Read(p, q, class, n) = <<Sw!Cmd("read", "class", Nd!R!R!LibnlId(p, 0), "throw", n)>>
      BY <2>2 DEF Nd!R!R!Read, Nd!R!R!Cmd, Sw!Read, Sw!Cmd
    <3> QED
      BY <3>1
  <2>3. CASE portTable[p].configured /\ ~class /\ q = 0
    <3>1. Nd!R!R!Read(p, q, class, n) = <<Sw!Cmd("read", "none", p, "throw", n)>>
      BY <2>3 DEF Nd!R!R!Read, Nd!R!R!Cmd, Sw!Read, Sw!Cmd
    <3> QED
      BY <3>1
  <2>4. CASE portTable[p].configured /\ ~class /\ q # 0
    <3>1. Nd!R!R!Read(p, q, class, n) = <<Sw!Cmd("read", "qdisc", Nd!R!R!LibnlId(p, q), "throw", n)>>
      BY <2>4 DEF Nd!R!R!Read, Nd!R!R!Cmd, Sw!Read, Sw!Cmd
    <3> QED
      BY <3>1
  <2> QED
    BY <2>1, <2>2, <2>3, <2>4
<1>3. Nd!R!R!read_link_stats(p) = Sw!Cmd("read", "none", p, "throw", 1)
  BY DEF Nd!R!R!read_link_stats, Nd!R!R!Cmd, Sw!read_link_stats, Sw!Cmd
<1>4. "throw" # "else" /\ \A k \in {"class", "none", "qdisc"} : k \notin {"script", "iptables"}
  OBVIOUS
<1> QED
  BY <1>1, <1>2, <1>3, <1>4, ShapeEmpty

LEMMA NdMonitors ==
  ASSUME NEW t \in SwThreads,
         \/ Nd!R!R!get_tx_pkt_req(t) \/ Nd!R!R!get_tx_kbits_req(t) \/ Nd!R!R!get_queue_len_req(t)
         \/ Nd!R!R!get_drops_req(t) \/ Nd!R!R!get_backlog_req(t)
         \/ Nd!R!R!get_link_tx_pkt_req(t) \/ Nd!R!R!get_link_rx_pkt_req(t)
         \/ Nd!R!R!get_link_tx_kbits_req(t) \/ Nd!R!R!get_link_rx_kbits_req(t)
         \/ Nd!R!R!get_link_tx_drops_req(t) \/ Nd!R!R!get_link_rx_drops_req(t)
         \/ Nd!R!R!get_link_tx_errors_req(t) \/ Nd!R!R!get_link_rx_errors_req(t)
  PROVE  Given(t)
<1>1. ASSUME NEW p \in HostPorts, NEW q, NEW class \in BOOLEAN, NEW n \in {1, 2},
             Nd!R!R!Call(t, Nd!R!R!Read(p, q, class, n))
      PROVE  Given(t)
  <2>1. Shape(Nd!R!R!Read(p, q, class, n))
    BY NdRead, QueueAssumption
  <2> QED
    BY <1>1, <2>1, NdCall
<1>2. ASSUME Nd!R!R!MonitorLink(t)
      PROVE  Given(t)
  <2>1. PICK p \in HostPorts : Nd!R!R!Call(t, <<>>) \/ Nd!R!R!Call(t, <<Nd!R!R!read_link_stats(p)>>)
    BY <1>2 DEF Nd!R!R!MonitorLink
  <2>2. Shape(<<Nd!R!R!read_link_stats(p)>>)
    BY NdRead, QueueAssumption, 0 \in Nat, TRUE \in BOOLEAN
  <2> QED
    BY <2>1, <2>2, NdCall, ShapeEmpty
<1>3. CASE Nd!R!R!get_tx_pkt_req(t)
  BY <1>1, <1>3 DEF Nd!R!R!get_tx_pkt_req, Nd!R!R!Monitor, Nd!R!R!read_stats_pkts
<1>4. CASE Nd!R!R!get_tx_kbits_req(t)
  BY <1>1, <1>4 DEF Nd!R!R!get_tx_kbits_req, Nd!R!R!Monitor, Nd!R!R!read_stats_bytes
<1>5. CASE Nd!R!R!get_queue_len_req(t)
  BY <1>1, <1>5 DEF Nd!R!R!get_queue_len_req, Nd!R!R!Monitor, Nd!R!R!read_stats_qlength
<1>6. CASE Nd!R!R!get_drops_req(t)
  BY <1>1, <1>6 DEF Nd!R!R!get_drops_req, Nd!R!R!Monitor, Nd!R!R!read_stats_drops
<1>7. CASE Nd!R!R!get_backlog_req(t)
  BY <1>1, <1>7 DEF Nd!R!R!get_backlog_req, Nd!R!R!Monitor, Nd!R!R!read_stats_backlog
<1> QED
  BY <1>2, <1>3, <1>4, <1>5, <1>6, <1>7
     DEF Nd!R!R!get_link_tx_pkt_req, Nd!R!R!get_link_rx_pkt_req, Nd!R!R!get_link_tx_kbits_req,
         Nd!R!R!get_link_rx_kbits_req, Nd!R!R!get_link_tx_drops_req, Nd!R!R!get_link_rx_drops_req,
         Nd!R!R!get_link_tx_errors_req, Nd!R!R!get_link_rx_errors_req

LEMMA NdFilters ==
  ASSUME NEW t \in SwThreads, Nd!R!R!filter_req(t)
  PROVE  Given(t)
<1>1. ASSUME NEW verb \in {"add", "del"}, NEW f
      PROVE  Shape(Nd!R!R!filter_command(verb, f))
  <2>1. PICK a, b : Nd!R!R!IptablesCommands(verb, f) =
               <<Sw!Cmd(verb, "iptables", a, "throw", 3), Sw!Cmd(verb, "iptables", b, "throw", 3)>>
    BY DEF Nd!R!R!IptablesCommands, Nd!R!R!Cmd, Sw!IptablesCommands, Sw!Cmd
  <2>2. \/ Nd!R!R!TcFilterCommand(verb, f) = <<>>
        \/ \E id : Nd!R!R!TcFilterCommand(verb, f) = <<Sw!Cmd(verb, "tcfilter", id, "negative", 1)>>
    BY DEF Nd!R!R!TcFilterCommand, Nd!R!R!Cmd, Sw!TcFilterCommand, Sw!Cmd
  <2>3. \/ Nd!R!R!IpRuleCommand(verb, f) = <<>>
        \/ \E id : Nd!R!R!IpRuleCommand(verb, f) = <<Sw!Cmd(verb, "rule", id, "negative", 1)>>
    BY DEF Nd!R!R!IpRuleCommand, Nd!R!R!Cmd, Sw!IpRuleCommand, Sw!Cmd
  <2> QED
    BY <2>1, <2>2, <2>3, FilterScript DEF Nd!R!R!filter_command
<1>2. ASSUME NEW s, Shape(s), NEW fin \in {"answer", "add", "del"}, NEW f, Nd!R!R!Run(t, s, fin, f),
             UNCHANGED <<kernel, lost>>
      PROVE  Given(t)
  BY <1>2 DEF Nd!R!R!Run, Given
<1>3. ASSUME NEW m, NEW drop, NEW out, NEW q, Nd!R!R!add_filter(t, m, drop, out, q)
      PROVE  Given(t)
  BY <1>1, <1>2, <1>3, ShapeEmpty DEF Nd!R!R!add_filter
<1>4. ASSUME NEW m, NEW drop, Nd!R!R!del_filter(t, m, drop)
      PROVE  Given(t)
  BY <1>1, <1>2, <1>4, ShapeEmpty DEF Nd!R!R!del_filter
<1>5. ASSUME NEW m, NEW drop, Nd!R!R!filter_stats(t, m, drop)
      PROVE  Given(t)
  <2>1. Shape(<<Sw!Cmd("read", "none", "filter", "negative", 1)>>)
    BY PlainCommands, 0 \in Nat, 1 \in Nat
  <2>2. Sw!Cmd("read", "none", "filter", "negative", 1) = Nd!R!R!Cmd("read", "none", "filter", "negative", 1)
    BY DEF Nd!R!R!Cmd, Sw!Cmd
  <2> QED
    BY <1>5, <2>1, <2>2, NdCall DEF Nd!R!R!filter_stats
<1> QED
  BY <1>3, <1>4, <1>5 DEF Nd!R!R!filter_req

LEMMA NdQueues ==
  ASSUME NEW t \in SwThreads,
         Nd!R!R!set_queue_params_req(t) \/ Nd!R!R!add_delay_req(t) \/ Nd!R!R!delete_delay_req(t)
  PROVE  Given(t)
<1>1. ASSUME NEW p \in Nat, NEW q \in Nat
      PROVE  /\ \A change \in BOOLEAN : Shape(Nd!R!R!add_queue(p, q, change))
             /\ Shape(Nd!R!R!delete_queue(p, q))
             /\ Shape(Nd!R!R!add_netem_queue(p, q)) /\ Shape(Nd!R!R!delete_netem_queue(p, q))
             /\ Shape(Nd!R!R!add_delay_port(p)) /\ Shape(Nd!R!R!delete_delay_port(p))
  <2>1. /\ \A change \in BOOLEAN : Nd!R!R!add_queue(p, q, change) = Sw!add_queue(p, q, change)
        /\ Nd!R!R!delete_queue(p, q) = Sw!delete_queue(p, q)
        /\ Nd!R!R!add_netem_queue(p, q) = Sw!add_netem_queue(p, q)
        /\ Nd!R!R!delete_netem_queue(p, q) = Sw!delete_netem_queue(p, q)
        /\ Nd!R!R!add_delay_port(p) = Sw!add_delay_port(p)
        /\ Nd!R!R!delete_delay_port(p) = Sw!delete_delay_port(p)
    BY DEF Nd!R!R!add_queue, Nd!R!R!delete_queue, Nd!R!R!add_netem_queue, Nd!R!R!delete_netem_queue, Nd!R!R!add_delay_port,
           Nd!R!R!delete_delay_port, Nd!R!R!Qdisc, Nd!R!R!Class, Nd!R!R!Cmd, Nd!R!R!ClassId, Nd!R!R!TcId,
           Sw!add_queue, Sw!delete_queue, Sw!add_netem_queue, Sw!delete_netem_queue, Sw!add_delay_port,
           Sw!delete_delay_port, Sw!Qdisc, Sw!Class, Sw!Cmd, Sw!ClassId, Sw!TcId
  <2> QED
    BY <2>1, QueueScripts
<1>2. CASE Nd!R!R!set_queue_params_req(t)
  <2>1. PICK p \in HostPorts, q \in HostQids, netem \in BOOLEAN :
          \/ Nd!R!R!Call(t, Nd!R!R!add_queue(p, q, FALSE) \o (IF netem THEN Nd!R!R!add_netem_queue(p, q) ELSE <<>>))
          \/ Nd!R!R!Call(t, Nd!R!R!add_queue(p, q, TRUE))
          \/ Nd!R!R!Call(t, Nd!R!R!delete_queue(p, q))
          \/ Nd!R!R!Call(t, IF netem THEN Nd!R!R!add_netem_queue(p, q) ELSE Nd!R!R!delete_netem_queue(p, q))
    BY <1>2 DEF Nd!R!R!set_queue_params_req
  <2>2. p \in Nat /\ q \in Nat
    BY QueueAssumption
  <2>3. /\ Shape(Nd!R!R!add_queue(p, q, FALSE)) /\ Shape(Nd!R!R!add_queue(p, q, TRUE))
        /\ Shape(Nd!R!R!delete_queue(p, q))
        /\ Shape(Nd!R!R!add_netem_queue(p, q)) /\ Shape(Nd!R!R!delete_netem_queue(p, q))
    BY <1>1, <2>2
  <2>4. Shape(Nd!R!R!add_queue(p, q, FALSE) \o (IF netem THEN Nd!R!R!add_netem_queue(p, q) ELSE <<>>))
    BY <2>3, ShapeConcat, ShapeEmpty
  <2>5. Shape(IF netem THEN Nd!R!R!add_netem_queue(p, q) ELSE Nd!R!R!delete_netem_queue(p, q))
    BY <2>3
  <2> QED
    BY <2>1, <2>3, <2>4, <2>5, NdCall
<1>3. CASE Nd!R!R!add_delay_req(t) \/ Nd!R!R!delete_delay_req(t)
  <2>1. PICK p \in HostPorts : Nd!R!R!Call(t, Nd!R!R!add_delay_port(p)) \/ Nd!R!R!Call(t, Nd!R!R!delete_delay_port(p))
    BY <1>3 DEF Nd!R!R!add_delay_req, Nd!R!R!delete_delay_req
  <2>2. Shape(Nd!R!R!add_delay_port(p)) /\ Shape(Nd!R!R!delete_delay_port(p))
    BY <1>1, QueueAssumption, 0 \in Nat
  <2> QED
    BY <2>1, <2>2, NdCall
<1> QED
  BY <1>2, <1>3

\* Configuring a port gives its script to the thread; so does changing its rate.
LEMMA NdPortConfig ==
  ASSUME NEW t \in SwThreads, Nd!R!R!configure_node_req(t) \/ Nd!R!R!set_port_rate_req(t)
  PROVE  Given(t)
<1>1. \A p \in Nat : \A m, id :
        /\ Shape(<<Nd!R!R!PortScript(p, m)>>) /\ Shape(<<Nd!R!R!DefaultQdisc(p)>>)
        /\ Shape(<<Nd!R!R!Cmd("add", "route", id, "throw", 1)>>)
        /\ Shape(<<Nd!R!R!Cmd("change", "class", id, "throw", 1)>>)
  <2>1. ASSUME NEW p \in Nat, NEW m, NEW id
        PROVE  /\ Nd!R!R!PortScript(p, m) = Sw!PortScript(p, m)
               /\ Nd!R!R!DefaultQdisc(p) = Sw!DefaultQdisc(p)
               /\ Nd!R!R!Cmd("add", "route", id, "throw", 1) = Sw!Cmd("add", "route", id, "throw", 1)
               /\ Nd!R!R!Cmd("change", "class", id, "throw", 1) = Sw!Cmd("change", "class", id, "throw", 1)
    BY DEF Nd!R!R!PortScript, Nd!R!R!DefaultQdisc, Nd!R!R!Cmd, Nd!R!R!ClassId, Nd!R!R!TcId,
           Sw!PortScript, Sw!DefaultQdisc, Sw!Cmd, Sw!ClassId, Sw!TcId
  <2>2. ASSUME NEW p \in Nat, NEW m, NEW id
        PROVE  /\ Shape(<<Sw!PortScript(p, m)>>) /\ Shape(<<Sw!DefaultQdisc(p)>>)
               /\ Shape(<<Sw!Cmd("add", "route", id, "throw", 1)>>)
               /\ Shape(<<Sw!Cmd("change", "class", id, "throw", 1)>>)
    BY PlainCommands, 0 \in Nat
  <2>3. ASSUME NEW p \in Nat, NEW m, NEW id
        PROVE  /\ Shape(<<Nd!R!R!PortScript(p, m)>>) /\ Shape(<<Nd!R!R!DefaultQdisc(p)>>)
               /\ Shape(<<Nd!R!R!Cmd("add", "route", id, "throw", 1)>>)
               /\ Shape(<<Nd!R!R!Cmd("change", "class", id, "throw", 1)>>)
    <3>1. Shape(<<Nd!R!R!PortScript(p, m)>>)
      BY <2>1, <2>2
    <3>2. Shape(<<Nd!R!R!DefaultQdisc(p)>>)
      BY <2>1, <2>2
    <3> QED
      BY <2>1, <2>2, <3>1, <3>2
  <2> QED
    BY <2>3
<1>2. ASSUME NEW s, Shape(s), NEW fin \in {"answer", "configure"}, NEW f, Nd!R!R!Run(t, s, fin, f),
             UNCHANGED <<kernel, lost>>
      PROVE  Given(t)
  BY <1>2 DEF Nd!R!R!Run, Given
<1>3. CASE Nd!R!R!configure_node_req(t)
  <2>1. PICK p \in HostPorts, rate \in SwRates, nh \in BOOLEAN :
          /\ Nd!R!R!Run(t, Nd!R!R!configure_port(p, rate, nh).todo, "configure", Nd!R!R!NoFilter)
          /\ UNCHANGED <<kernel, lost>>
    BY <1>3 DEF Nd!R!R!configure_node_req
  <2>2. p \in Nat
    BY QueueAssumption
  <2>3. Shape(Nd!R!R!configure_port(p, rate, nh).todo)
    <3>1. \E m, u : /\ Nd!R!R!configure_port(p, rate, nh).todo = <<Nd!R!R!PortScript(p, m)>> \o u
                   /\ \/ u = <<>> \/ u = <<Nd!R!R!DefaultQdisc(p)>>
                      \/ \E id : u = <<Nd!R!R!Cmd("add", "route", id, "throw", 1), Nd!R!R!DefaultQdisc(p)>>
      BY DEF Nd!R!R!configure_port, Nd!R!R!HostPort
    <3> QED
      BY <1>1, <2>2, <3>1, ShapeConcat, ShapePair, ShapeEmpty
  <2> QED
    BY <1>2, <2>1, <2>3
<1>4. CASE Nd!R!R!set_port_rate_req(t)
  <2>1. PICK p \in HostPorts :
          /\ Nd!R!R!Run(t, <<Nd!R!R!Cmd("change", "class", Nd!R!R!ClassId(p, 0), "throw", 1),
                        Nd!R!R!Cmd("change", "class", Nd!R!R!ClassId(p, 1), "throw", 1)>>,
                   "answer", Nd!R!R!NoFilter)
          /\ UNCHANGED <<kernel, lost>>
    BY <1>4 DEF Nd!R!R!set_port_rate_req
  <2>2. Shape(<<Nd!R!R!Cmd("change", "class", Nd!R!R!ClassId(p, 0), "throw", 1),
                Nd!R!R!Cmd("change", "class", Nd!R!R!ClassId(p, 1), "throw", 1)>>)
    BY <1>1, ShapePair, 0 \in Nat
  <2> QED
    BY <1>2, <2>1, <2>2
<1> QED
  BY <1>3, <1>4

LEMMA NdRoutes ==
  ASSUME NEW t \in SwThreads, Nd!R!add_route_req(t) \/ Nd!R!delete_route_req(t)
  PROVE  Given(t)
<1>1. PICK verb \in {"add", "del"} : Nd!R!R!Call(t, Nd!R!MainRoute(verb))
  BY DEF Nd!R!add_route_req, Nd!R!delete_route_req, Nd!R!add_route, Nd!R!delete_route
<1>2. Nd!R!MainRoute(verb) = <<Sw!Cmd(verb, "route", <<Sw!Main, 0, FALSE>>, "throw", 1)>>
  BY DEF Nd!R!MainRoute, Nd!R!R!Cmd, Nd!R!R!Main, Sw!Cmd, Sw!Main
<1>3. Shape(Nd!R!MainRoute(verb))
  BY <1>2, PlainCommands, 0 \in Nat
<1> QED
  BY <1>1, <1>3, NdCall

LEMMA NdRequests ==
  ASSUME NEW t \in SwThreads, Nd!Request(t)
  PROVE  Given(t)
  BY NdMonitors, NdFilters, NdQueues, NdPortConfig, NdRoutes
     DEF Nd!Request, Nd!add_route_req, Nd!delete_route_req,
         Nd!configure_node_req, Nd!set_port_rate_req, Nd!filter_req,
         Nd!set_queue_params_req, Nd!add_delay_req, Nd!delete_delay_req,
         Nd!get_tx_pkt_req, Nd!get_tx_kbits_req, Nd!get_queue_len_req, Nd!get_drops_req,
         Nd!get_backlog_req, Nd!get_link_tx_pkt_req, Nd!get_link_rx_pkt_req,
         Nd!get_link_tx_kbits_req, Nd!get_link_rx_kbits_req, Nd!get_link_tx_drops_req,
         Nd!get_link_rx_drops_req, Nd!get_link_tx_errors_req, Nd!get_link_rx_errors_req,
         Nd!R!configure_node_req, Nd!R!set_port_rate_req, Nd!R!filter_req,
         Nd!R!set_queue_params_req, Nd!R!add_delay_req, Nd!R!delete_delay_req,
         Nd!R!get_tx_pkt_req, Nd!R!get_tx_kbits_req, Nd!R!get_queue_len_req,
         Nd!R!get_drops_req, Nd!R!get_backlog_req, Nd!R!get_link_tx_pkt_req,
         Nd!R!get_link_rx_pkt_req, Nd!R!get_link_tx_kbits_req,
         Nd!R!get_link_rx_kbits_req, Nd!R!get_link_tx_drops_req,
         Nd!R!get_link_rx_drops_req, Nd!R!get_link_tx_errors_req,
         Nd!R!get_link_rx_errors_req

-----------------------------------------------------------------------------
(* The steps of the three daemons.                                          *)

\* The commands of the software router.
LEMMA SwSteps ==
  ASSUME QueueInv, NEW t \in SwThreads, Sw!system_cmd(t) \/ Sw!Respond(t)
  PROVE  QueueInv'
<1>1. CASE Sw!system_cmd(t)
  <2> DEFINE c == Head(rthr[t].todo)
  <2>1. rthr[t].todo # <<>>
    BY <1>1 DEF Sw!system_cmd
  <2>2. Plain(c)
    BY <2>1, ShapeHead DEF QueueInv, Scripts
  <2>3. Runs(t, Sw!CanApply(kernel, c), Sw!Apply(kernel, c))
    BY <1>1 DEF Runs, Sw!system_cmd, Sw!Idle
  <2> HIDE DEF c
  <2>4. ASSUME Sw!CanApply(kernel, c)
        PROVE  Effect(kernel, c, Sw!Apply(kernel, c))
    <3>1. CASE c.kind = "script"
      BY <3>1 DEF Sw!Apply, Effect
    <3>2. CASE c.kind = "iptables"
      <4>1. \E b : Sw!Apply(kernel, c) = [kernel EXCEPT !.ipt = b]
        BY <2>2, <3>2 DEF Sw!Apply, Plain
      <4> QED
        BY <3>2, <4>1 DEF Effect
    <3>3. CASE c.kind \notin {"script", "iptables"}
      BY <3>3 DEF Sw!Apply, Effect
    <3> QED
      BY <3>1, <3>2, <3>3
  <2>5. ASSUME ~Sw!CanApply(kernel, c)
        PROVE  Vain(c, kernel.objs)
    <3> SUFFICES ASSUME NEW id, Closes(c, id), Gap(kernel.objs, id)
                 PROVE  Sw!CanApply(kernel, c)
      BY <2>5 DEF Vain
    <3> QED
      BY DEF Sw!CanApply, Sw!Holds, Closes, Gap
  <2> QED
    BY <2>3, <2>4, <2>5, CommandRuns DEF c
<1>2. CASE Sw!Respond(t)
  <2>1. /\ rthr[t].todo = <<>>
        /\ rthr' = [rthr EXCEPT ![t] = [todo |-> <<>>, fin |-> "idle", f |-> Sw!NoFilter]]
        /\ UNCHANGED <<kernel, lost>>
    BY <1>2 DEF Sw!Respond, Sw!Idle
  <2>2. Scripts(rthr')
    BY <2>1, ShapeEmpty DEF QueueInv, Scripts
  <2>3. \A u \in SwThreads : u # t => rthr'[u] = rthr[u]
    BY <2>1 DEF QueueInv, Scripts
  <2>4. Covered(kernel.objs, rthr', lost)
    BY <2>1, <2>3 DEF QueueInv, Covered
  <2> QED
    BY <2>1, <2>2, <2>4 DEF QueueInv
<1> QED
  BY <1>1, <1>2

LEMMA SwStarts ==
  ASSUME Sw!Init
  PROVE  QueueInv
<1>1. /\ rthr = [t \in SwThreads |-> [todo |-> <<>>, fin |-> "idle", f |-> Sw!NoFilter]]
      /\ lost = FALSE /\ \E b : kernel = [ipt |-> b, objs |-> {}]
  BY DEF Sw!Init, Sw!Idle
<1>2. Scripts(rthr)
  BY <1>1, ShapeEmpty DEF Scripts
<1>3. IsKernel(kernel) /\ kernel.objs = {} /\ lost \in BOOLEAN
  <2>1. PICK b : kernel = [ipt |-> b, objs |-> {}]
    BY <1>1
  <2> QED
    BY <1>1, <2>1 DEF IsKernel
<1> QED
  BY <1>2, <1>3 DEF QueueInv, Covered, Gap

\* At rest no class is without its qdisc, and the reader's number is tc's as long as
\* each number is at most 19 and 18 (read_stats).
LEMMA SwMonitorable ==
  ASSUME QueueInv, SwPorts \subseteq 0 .. 18, SwQids \subseteq 0 .. 19
  PROVE  Sw!MonitorableQueues
<1> SUFFICES ASSUME Sw!Quiet, ~lost, NEW p \in SwPorts, NEW q \in SwQids, q > 1,
                    Sw!Holds(kernel, "class", Sw!ClassId(p, q))
             PROVE  Sw!read_stats(kernel, p, q)
  BY DEF Sw!MonitorableQueues
<1>1. p \in 0 .. 18 /\ q \in 0 .. 19
  OBVIOUS
<1>2. \A t \in SwThreads : rthr[t].todo = <<>>
  BY DEF QueueInv, Scripts, Sw!Quiet
<1>3. Sw!TcId(p + 1) = (IF p > 8 THEN p + 7 ELSE p + 1)
  <2>1. CASE p <= 8
    BY <1>1, <2>1 DEF Sw!TcId
  <2>2. CASE p > 8
    <3>1. (p + 1) \div 10 = 1 /\ (p + 1) % 10 = p - 9
      BY <1>1, <2>2
    <3> QED
      BY <1>1, <2>2, <3>1 DEF Sw!TcId
  <2> QED
    BY <1>1, <2>1, <2>2
<1>4. Sw!TcId(q) = IF q > 9 THEN q + 6 ELSE q
  <2>1. CASE q <= 9
    BY <1>1, <2>1 DEF Sw!TcId
  <2>2. CASE q > 9
    <3>1. q \div 10 = 1 /\ q % 10 = q - 10
      BY <1>1, <2>2
    <3> QED
      BY <1>1, <2>2, <3>1 DEF Sw!TcId
  <2> QED
    BY <1>1, <2>1, <2>2
<1>5. Sw!ClassId(p, q) = Sw!LibnlId(p, q) /\ Sw!ClassId(p, q)[2] >= 2
  BY <1>1, <1>3, <1>4 DEF Sw!ClassId, Sw!LibnlId
<1>6. <<"class", Sw!ClassId(p, q)>> \in kernel.objs
  BY DEF Sw!Holds
<1>7. ~Gap(kernel.objs, Sw!ClassId(p, q))
  BY <1>2 DEF QueueInv, Covered
<1> QED
  BY <1>5, <1>6, <1>7 DEF Sw!read_stats, Sw!Holds, Gap

\* The commands of host_filters.
LEMMA HfSteps ==
  ASSUME QueueInv, NEW t \in SwThreads, Hf!R!system_cmd(t) \/ Hf!R!Respond(t)
  PROVE  QueueInv'
<1>1. CASE Hf!R!system_cmd(t)
  <2> DEFINE c == Head(rthr[t].todo)
  <2>1. rthr[t].todo # <<>>
    BY <1>1 DEF Hf!R!system_cmd
  <2>2. Plain(c)
    BY <2>1, ShapeHead DEF QueueInv, Scripts
  <2>3. Runs(t, Hf!R!CanApply(kernel, c), Hf!R!Apply(kernel, c))
    BY <1>1 DEF Runs, Hf!R!system_cmd, Hf!R!Idle
  <2> HIDE DEF c
  <2>4. ASSUME Hf!R!CanApply(kernel, c)
        PROVE  Effect(kernel, c, Hf!R!Apply(kernel, c))
    <3>1. CASE c.kind = "script"
      BY <3>1 DEF Hf!R!Apply, Effect
    <3>2. CASE c.kind = "iptables"
      <4>1. \E b : Hf!R!Apply(kernel, c) = [kernel EXCEPT !.ipt = b]
        BY <2>2, <3>2 DEF Hf!R!Apply, Plain
      <4> QED
        BY <3>2, <4>1 DEF Effect
    <3>3. CASE c.kind \notin {"script", "iptables"}
      BY <3>3 DEF Hf!R!Apply, Effect
    <3> QED
      BY <3>1, <3>2, <3>3
  <2>5. ASSUME ~Hf!R!CanApply(kernel, c)
        PROVE  Vain(c, kernel.objs)
    <3> SUFFICES ASSUME NEW id, Closes(c, id), Gap(kernel.objs, id)
                 PROVE  Hf!R!CanApply(kernel, c)
      BY <2>5 DEF Vain
    <3> QED
      BY DEF Hf!R!CanApply, Hf!R!Holds, Closes, Gap
  <2> QED
    BY <2>3, <2>4, <2>5, CommandRuns DEF c
<1>2. CASE Hf!R!Respond(t)
  <2>1. /\ rthr[t].todo = <<>>
        /\ rthr' = [rthr EXCEPT ![t] = [todo |-> <<>>, fin |-> "idle", f |-> Hf!R!NoFilter]]
        /\ UNCHANGED <<kernel, lost>>
    BY <1>2 DEF Hf!R!Respond, Hf!R!Idle
  <2>2. Scripts(rthr')
    BY <2>1, ShapeEmpty DEF QueueInv, Scripts
  <2>3. \A u \in SwThreads : u # t => rthr'[u] = rthr[u]
    BY <2>1 DEF QueueInv, Scripts
  <2>4. Covered(kernel.objs, rthr', lost)
    BY <2>1, <2>3 DEF QueueInv, Covered
  <2> QED
    BY <2>1, <2>2, <2>4 DEF QueueInv
<1> QED
  BY <1>1, <1>2

LEMMA HfStarts ==
  ASSUME Hf!R!Init
  PROVE  QueueInv
<1>1. /\ rthr = [t \in SwThreads |-> [todo |-> <<>>, fin |-> "idle", f |-> Hf!R!NoFilter]]
      /\ lost = FALSE /\ \E b : kernel = [ipt |-> b, objs |-> {}]
  BY DEF Hf!R!Init, Hf!R!Idle
<1>2. Scripts(rthr)
  BY <1>1, ShapeEmpty DEF Scripts
<1>3. IsKernel(kernel) /\ kernel.objs = {} /\ lost \in BOOLEAN
  <2>1. PICK b : kernel = [ipt |-> b, objs |-> {}]
    BY <1>1
  <2> QED
    BY <1>1, <2>1 DEF IsKernel
<1> QED
  BY <1>2, <1>3 DEF QueueInv, Covered, Gap

\* At rest no class is without its qdisc, and the reader's number is tc's as long as
\* each number is at most 19 and 18 (read_stats).
LEMMA HfMonitorable ==
  ASSUME QueueInv, HostPorts \subseteq 0 .. 18, HostQids \subseteq 0 .. 19
  PROVE  Hf!R!MonitorableQueues
<1> SUFFICES ASSUME Hf!R!Quiet, ~lost, NEW p \in HostPorts, NEW q \in HostQids, q > 1,
                    Hf!R!Holds(kernel, "class", Hf!R!ClassId(p, q))
             PROVE  Hf!R!read_stats(kernel, p, q)
  BY DEF Hf!R!MonitorableQueues
<1>1. p \in 0 .. 18 /\ q \in 0 .. 19
  OBVIOUS
<1>2. \A t \in SwThreads : rthr[t].todo = <<>>
  BY DEF QueueInv, Scripts, Hf!R!Quiet
<1>3. Hf!R!TcId(p + 1) = (IF p > 8 THEN p + 7 ELSE p + 1)
  <2>1. CASE p <= 8
    BY <1>1, <2>1 DEF Hf!R!TcId
  <2>2. CASE p > 8
    <3>1. (p + 1) \div 10 = 1 /\ (p + 1) % 10 = p - 9
      BY <1>1, <2>2
    <3> QED
      BY <1>1, <2>2, <3>1 DEF Hf!R!TcId
  <2> QED
    BY <1>1, <2>1, <2>2
<1>4. Hf!R!TcId(q) = IF q > 9 THEN q + 6 ELSE q
  <2>1. CASE q <= 9
    BY <1>1, <2>1 DEF Hf!R!TcId
  <2>2. CASE q > 9
    <3>1. q \div 10 = 1 /\ q % 10 = q - 10
      BY <1>1, <2>2
    <3> QED
      BY <1>1, <2>2, <3>1 DEF Hf!R!TcId
  <2> QED
    BY <1>1, <2>1, <2>2
<1>5. Hf!R!ClassId(p, q) = Hf!R!LibnlId(p, q) /\ Hf!R!ClassId(p, q)[2] >= 2
  BY <1>1, <1>3, <1>4 DEF Hf!R!ClassId, Hf!R!LibnlId
<1>6. <<"class", Hf!R!ClassId(p, q)>> \in kernel.objs
  BY DEF Hf!R!Holds
<1>7. ~Gap(kernel.objs, Hf!R!ClassId(p, q))
  BY <1>2 DEF QueueInv, Covered
<1> QED
  BY <1>5, <1>6, <1>7 DEF Hf!R!read_stats, Hf!R!Holds, Gap

\* The commands of ndnether_host.
LEMMA NdSteps ==
  ASSUME QueueInv, NEW t \in SwThreads, Nd!R!R!system_cmd(t) \/ Nd!R!R!Respond(t)
  PROVE  QueueInv'
<1>1. CASE Nd!R!R!system_cmd(t)
  <2> DEFINE c == Head(rthr[t].todo)
  <2>1. rthr[t].todo # <<>>
    BY <1>1 DEF Nd!R!R!system_cmd
  <2>2. Plain(c)
    BY <2>1, ShapeHead DEF QueueInv, Scripts
  <2>3. Runs(t, Nd!R!R!CanApply(kernel, c), Nd!R!R!Apply(kernel, c))
    BY <1>1 DEF Runs, Nd!R!R!system_cmd, Nd!R!R!Idle
  <2> HIDE DEF c
  <2>4. ASSUME Nd!R!R!CanApply(kernel, c)
        PROVE  Effect(kernel, c, Nd!R!R!Apply(kernel, c))
    <3>1. CASE c.kind = "script"
      BY <3>1 DEF Nd!R!R!Apply, Effect
    <3>2. CASE c.kind = "iptables"
      <4>1. \E b : Nd!R!R!Apply(kernel, c) = [kernel EXCEPT !.ipt = b]
        BY <2>2, <3>2 DEF Nd!R!R!Apply, Plain
      <4> QED
        BY <3>2, <4>1 DEF Effect
    <3>3. CASE c.kind \notin {"script", "iptables"}
      BY <3>3 DEF Nd!R!R!Apply, Effect
    <3> QED
      BY <3>1, <3>2, <3>3
  <2>5. ASSUME ~Nd!R!R!CanApply(kernel, c)
        PROVE  Vain(c, kernel.objs)
    <3> SUFFICES ASSUME NEW id, Closes(c, id), Gap(kernel.objs, id)
                 PROVE  Nd!R!R!CanApply(kernel, c)
      BY <2>5 DEF Vain
    <3> QED
      BY DEF Nd!R!R!CanApply, Nd!R!R!Holds, Closes, Gap
  <2> QED
    BY <2>3, <2>4, <2>5, CommandRuns DEF c
<1>2. CASE Nd!R!R!Respond(t)
  <2>1. /\ rthr[t].todo = <<>>
        /\ rthr' = [rthr EXCEPT ![t] = [todo |-> <<>>, fin |-> "idle", f |-> Nd!R!R!NoFilter]]
        /\ UNCHANGED <<kernel, lost>>
    BY <1>2 DEF Nd!R!R!Respond, Nd!R!R!Idle
  <2>2. Scripts(rthr')
    BY <2>1, ShapeEmpty DEF QueueInv, Scripts
  <2>3. \A u \in SwThreads : u # t => rthr'[u] = rthr[u]
    BY <2>1 DEF QueueInv, Scripts
  <2>4. Covered(kernel.objs, rthr', lost)
    BY <2>1, <2>3 DEF QueueInv, Covered
  <2> QED
    BY <2>1, <2>2, <2>4 DEF QueueInv
<1> QED
  BY <1>1, <1>2

LEMMA NdStarts ==
  ASSUME Nd!R!R!Init
  PROVE  QueueInv
<1>1. /\ rthr = [t \in SwThreads |-> [todo |-> <<>>, fin |-> "idle", f |-> Nd!R!R!NoFilter]]
      /\ lost = FALSE /\ \E b : kernel = [ipt |-> b, objs |-> {}]
  BY DEF Nd!R!R!Init, Nd!R!R!Idle
<1>2. Scripts(rthr)
  BY <1>1, ShapeEmpty DEF Scripts
<1>3. IsKernel(kernel) /\ kernel.objs = {} /\ lost \in BOOLEAN
  <2>1. PICK b : kernel = [ipt |-> b, objs |-> {}]
    BY <1>1
  <2> QED
    BY <1>1, <2>1 DEF IsKernel
<1> QED
  BY <1>2, <1>3 DEF QueueInv, Covered, Gap

\* At rest no class is without its qdisc, and the reader's number is tc's as long as
\* each number is at most 19 and 18 (read_stats).
LEMMA NdMonitorable ==
  ASSUME QueueInv, HostPorts \subseteq 0 .. 18, HostQids \subseteq 0 .. 19
  PROVE  Nd!R!R!MonitorableQueues
<1> SUFFICES ASSUME Nd!R!R!Quiet, ~lost, NEW p \in HostPorts, NEW q \in HostQids, q > 1,
                    Nd!R!R!Holds(kernel, "class", Nd!R!R!ClassId(p, q))
             PROVE  Nd!R!R!read_stats(kernel, p, q)
  BY DEF Nd!R!R!MonitorableQueues
<1>1. p \in 0 .. 18 /\ q \in 0 .. 19
  OBVIOUS
<1>2. \A t \in SwThreads : rthr[t].todo = <<>>
  BY DEF QueueInv, Scripts, Nd!R!R!Quiet
<1>3. Nd!R!R!TcId(p + 1) = (IF p > 8 THEN p + 7 ELSE p + 1)
  <2>1. CASE p <= 8
    BY <1>1, <2>1 DEF Nd!R!R!TcId
  <2>2. CASE p > 8
    <3>1. (p + 1) \div 10 = 1 /\ (p + 1) % 10 = p - 9
      BY <1>1, <2>2
    <3> QED
      BY <1>1, <2>2, <3>1 DEF Nd!R!R!TcId
  <2> QED
    BY <1>1, <2>1, <2>2
<1>4. Nd!R!R!TcId(q) = IF q > 9 THEN q + 6 ELSE q
  <2>1. CASE q <= 9
    BY <1>1, <2>1 DEF Nd!R!R!TcId
  <2>2. CASE q > 9
    <3>1. q \div 10 = 1 /\ q % 10 = q - 10
      BY <1>1, <2>2
    <3> QED
      BY <1>1, <2>2, <3>1 DEF Nd!R!R!TcId
  <2> QED
    BY <1>1, <2>1, <2>2
<1>5. Nd!R!R!ClassId(p, q) = Nd!R!R!LibnlId(p, q) /\ Nd!R!R!ClassId(p, q)[2] >= 2
  BY <1>1, <1>3, <1>4 DEF Nd!R!R!ClassId, Nd!R!R!LibnlId
<1>6. <<"class", Nd!R!R!ClassId(p, q)>> \in kernel.objs
  BY DEF Nd!R!R!Holds
<1>7. ~Gap(kernel.objs, Nd!R!R!ClassId(p, q))
  BY <1>2 DEF QueueInv, Covered
<1> QED
  BY <1>5, <1>6, <1>7 DEF Nd!R!R!read_stats, Nd!R!R!Holds, Gap

\* Every step of one of the three daemons keeps the invariant.
LEMMA QueueNext ==
  ASSUME QueueInv, SwNext
  PROVE  QueueInv'
<1>1. PICK t \in SwThreads :
        \/ Sw!Request(t) \/ Sw!Step(t) \/ Hf!Request(t) \/ Hf!Step(t)
        \/ Nd!Request(t) \/ Nd!Step(t)
  BY DEF SwNext
<1>2. CASE Sw!Request(t) \/ Hf!Request(t) \/ Nd!Request(t)
  BY <1>2, SwRequests, HfRequests, NdRequests, GivenKeeps
<1>3. CASE Sw!Step(t)
  BY <1>3, SwSteps DEF Sw!Step
<1>4. CASE Hf!Step(t)
  BY <1>4, HfSteps DEF Hf!Step, Hf!system_cmd, Hf!Respond
<1>5. CASE Nd!Step(t)
  BY <1>5, NdSteps DEF Nd!Step, Nd!system_cmd, Nd!Respond, Nd!R!system_cmd, Nd!R!Respond
<1> QED
  BY <1>1, <1>2, <1>3, <1>4, <1>5

-----------------------------------------------------------------------------
(* The parameters of the network processor router.                          *)

\* The numbers for which the formulas of the code keep queues apart: two decimal digits
\* of which the first is at most 1 (read_stats), a queue's number within its bits.
NumbersInRange ==
  /\ SwPorts \cup HostPorts \subseteq 0 .. 18
  /\ SwQids \cup HostQids \subseteq 0 .. 19
  /\ ParQids \subseteq 0 .. (2^ParQidBits - 1)

\* A request that wrote the rate of port p, and its value.
Rater(T, s, p) == T[s].pc \in {"getrate", "rate"} /\ T[s].port = p /\ T[s].val \in Nat

\* The words written are those of the requests' queues; the rate of a port that was set,
\* and every rate that was read back, are what some request asked for, rounded.
ParamsInv ==
  /\ rthr = [r \in ParReqs |-> rthr[r]]
  /\ prate = [p \in Pa!Ports |-> prate[p]]
  /\ qfrom = [a \in Pa!Words |-> qfrom[a]]
  /\ \A a \in Pa!Words : \A x \in qfrom[a] :
       \E p \in Pa!Ports, q \in ParQids : x = <<p, q>> /\ a = Pa!QueueWord(p, q)
  /\ \A r \in ParReqs :
       /\ rthr[r].pc = "threshold" => rthr[r].port \in Pa!Ports /\ rthr[r].qid \in ParQids
       /\ rthr[r].pc \in {"getrate", "rate"} =>
            /\ rthr[r].port \in Pa!Ports /\ rthr[r].val \in Nat
            /\ \E s \in ParReqs : /\ Rater(rthr, s, rthr[r].port)
                                  /\ prate[rthr[r].port] = rthr[s].val \div ParUnit
       /\ rthr[r].pc = "rate" =>
            \E s \in ParReqs : /\ Rater(rthr, s, rthr[r].port)
                               /\ rthr[r].actual = (rthr[s].val \div ParUnit) * ParUnit

LEMMA Multiples ==
  ASSUME NEW a \in Nat, NEW b \in Nat, a < b, NEW w \in Nat
  PROVE  a * w + w <= b * w
<1> DEFINE d == b - (a + 1)
<1>1. d \in Nat /\ b = (a + 1) + d
  OBVIOUS
<1> HIDE DEF d
<1>2. d * w \in Nat
  BY <1>1
<1>3. b * w = (a * w + w) + d * w
  BY <1>1
<1> QED
  BY <1>2, <1>3

\* Queues never share a word as long as their numbers fit their bits.
LEMMA WordsApart ==
  ASSUME NumbersInRange, NEW p \in Pa!Ports, NEW q \in ParQids, NEW o \in Pa!Ports, NEW u \in ParQids,
         Pa!QueueWord(p, q) = Pa!QueueWord(o, u)
  PROVE  p = o /\ q = u
<1> DEFINE w == 2^ParQidBits
<1>1. w \in Nat /\ (p + 1) * w + q = (o + 1) * w + u
  BY ParamAssumption DEF Pa!QueueWord
<1>2. q \in 0 .. (w - 1) /\ u \in 0 .. (w - 1)
  BY DEF NumbersInRange
<1>3. p \in Nat /\ o \in Nat
  BY ParamAssumption DEF Pa!Ports
<1> HIDE DEF w
<1>4. (p + 1) * w \in Nat /\ (o + 1) * w \in Nat
  BY <1>1, <1>3
<1>5. ~(p < o)
  <2> SUFFICES ASSUME p < o PROVE FALSE
    OBVIOUS
  <2>1. (p + 1) * w + w <= (o + 1) * w
    BY <1>1, <1>3, Multiples
  <2> QED
    BY <1>1, <1>2, <1>4, <2>1
<1>6. ~(o < p)
  <2> SUFFICES ASSUME o < p PROVE FALSE
    OBVIOUS
  <2>1. (o + 1) * w + w <= (p + 1) * w
    BY <1>1, <1>3, Multiples
  <2> QED
    BY <1>1, <1>2, <1>4, <2>1
<1>7. p = o
  BY <1>3, <1>5, <1>6
<1> QED
  BY <1>1, <1>2, <1>4, <1>7

LEMMA RateRounded ==
  ASSUME NEW v \in Nat, NEW u \in Nat \ {0}
  PROVE  (v \div u) * u <= v /\ v < (v \div u) * u + u
  OBVIOUS

LEMMA ParamsApart ==
  ASSUME ParamsInv, NumbersInRange
  PROVE  Pa!QueuesApart
<1>1. ASSUME NEW a \in Pa!Words, NEW x \in qfrom[a], NEW y \in qfrom[a]
      PROVE  x = y
  <2>1. PICK p \in Pa!Ports, q \in ParQids : x = <<p, q>> /\ a = Pa!QueueWord(p, q)
    BY DEF ParamsInv
  <2>2. PICK o \in Pa!Ports, u \in ParQids : y = <<o, u>> /\ a = Pa!QueueWord(o, u)
    BY DEF ParamsInv
  <2>3. Pa!QueueWord(p, q) = Pa!QueueWord(o, u)
    BY <2>1, <2>2
  <2>4. p = o /\ q = u
    BY <2>3, WordsApart
  <2> QED
    BY <2>1, <2>2, <2>4
<1>2. ASSUME NEW r \in ParReqs, rthr[r].pc = "rate"
      PROVE  \E s \in ParReqs : /\ rthr[s].pc \in {"rate", "getrate"} /\ rthr[s].port = rthr[r].port
                               /\ rthr[r].actual <= rthr[s].val
                               /\ rthr[s].val < rthr[r].actual + ParUnit
  <2>1. PICK s \in ParReqs : /\ Rater(rthr, s, rthr[r].port)
                             /\ rthr[r].actual = (rthr[s].val \div ParUnit) * ParUnit
    BY <1>2 DEF ParamsInv
  <2> QED
    BY <2>1, RateRounded, ParamAssumption DEF Rater
<1> QED
  BY <1>1, <1>2 DEF Pa!QueuesApart

LEMMA ParamsStart ==
  ASSUME Pa!Init
  PROVE  ParamsInv
  BY DEF Pa!Init, ParamsInv

\* A request that has not written a rate ends: the writers of rates stay.
LEMMA ParamsDone ==
  ASSUME ParamsInv, NEW r \in ParReqs, rthr[r].pc \in {"new", "threshold"},
         rthr' = [rthr EXCEPT ![r] = [pc |-> "done"]], prate' = prate,
         qfrom' = [a \in Pa!Words |-> qfrom'[a]],
         \A a \in Pa!Words : \A x \in qfrom'[a] :
           \E p \in Pa!Ports, q \in ParQids : x = <<p, q>> /\ a = Pa!QueueWord(p, q)
  PROVE  ParamsInv'
<1>1. /\ rthr' = [s \in ParReqs |-> rthr'[s]] /\ rthr'[r].pc = "done"
      /\ \A s \in ParReqs : s # r => rthr'[s] = rthr[s]
  BY DEF ParamsInv
<1>2. \A s \in ParReqs : \A p : Rater(rthr, s, p) => s # r /\ rthr'[s] = rthr[s] /\ Rater(rthr', s, p)
  BY <1>1 DEF Rater
<1>3. ASSUME NEW u \in ParReqs
      PROVE  /\ rthr'[u].pc = "threshold" => rthr'[u].port \in Pa!Ports /\ rthr'[u].qid \in ParQids
             /\ rthr'[u].pc \in {"getrate", "rate"} =>
                  /\ rthr'[u].port \in Pa!Ports /\ rthr'[u].val \in Nat
                  /\ \E s \in ParReqs : /\ Rater(rthr', s, rthr'[u].port)
                                        /\ prate'[rthr'[u].port] = rthr'[s].val \div ParUnit
             /\ rthr'[u].pc = "rate" =>
                  \E s \in ParReqs : /\ Rater(rthr', s, rthr'[u].port)
                                     /\ rthr'[u].actual = (rthr'[s].val \div ParUnit) * ParUnit
  <2>1. CASE u = r
    BY <1>1, <2>1
  <2>2. CASE u # r
    <3>1. rthr'[u] = rthr[u]
      BY <1>1, <2>2
    <3> QED
      BY <1>2, <3>1 DEF ParamsInv
  <2> QED
    BY <2>1, <2>2
<1> QED
  BY <1>1, <1>3 DEF ParamsInv

\* A queue's word keeps the queues that wrote it.
LEMMA WordWritten ==
  ASSUME ParamsInv, NEW p \in Pa!Ports, NEW q \in ParQids,
         qfrom' = [qfrom EXCEPT ![Pa!QueueWord(p, q)] = @ \cup {<<p, q>>}]
  PROVE  /\ qfrom' = [a \in Pa!Words |-> qfrom'[a]]
         /\ \A a \in Pa!Words : \A x \in qfrom'[a] :
              \E o \in Pa!Ports, u \in ParQids : x = <<o, u>> /\ a = Pa!QueueWord(o, u)
<1>1. qfrom' = [a \in Pa!Words |-> qfrom'[a]]
  BY DEF ParamsInv
<1>2. ASSUME NEW a \in Pa!Words, NEW x \in qfrom'[a]
      PROVE  \E o \in Pa!Ports, u \in ParQids : x = <<o, u>> /\ a = Pa!QueueWord(o, u)
  <2>1. x \in qfrom[a] \/ (x = <<p, q>> /\ a = Pa!QueueWord(p, q))
    BY <1>2 DEF ParamsInv
  <2> QED
    BY <2>1 DEF ParamsInv
<1> QED
  BY <1>1, <1>2

LEMMA QuantumWrites ==
  ASSUME ParamsInv, NEW r \in ParReqs, Pa!set_queue_params_req(r)
  PROVE  ParamsInv'
<1>1. PICK p \in Pa!Ports, q \in ParQids, v \in ParValues :
        /\ qfrom' = [qfrom EXCEPT ![Pa!QueueWord(p, q)] = @ \cup {<<p, q>>}]
        /\ rthr' = [rthr EXCEPT ![r] = [pc |-> "threshold", port |-> p, qid |-> q, val |-> v]]
  BY DEF Pa!set_queue_params_req, Pa!set_queue_quantum
<1>2. rthr[r].pc = "new" /\ prate' = prate
  BY DEF Pa!set_queue_params_req
<1>3. /\ rthr' = [s \in ParReqs |-> rthr'[s]] /\ rthr'[r].pc = "threshold"
      /\ rthr'[r].port \in Pa!Ports /\ rthr'[r].qid \in ParQids
      /\ \A s \in ParReqs : s # r => rthr'[s] = rthr[s]
  BY <1>1 DEF ParamsInv
<1>4. \A s \in ParReqs : \A o : Rater(rthr, s, o) => s # r /\ rthr'[s] = rthr[s] /\ Rater(rthr', s, o)
  BY <1>2, <1>3 DEF Rater
<1>5. ASSUME NEW u \in ParReqs
      PROVE  /\ rthr'[u].pc = "threshold" => rthr'[u].port \in Pa!Ports /\ rthr'[u].qid \in ParQids
             /\ rthr'[u].pc \in {"getrate", "rate"} =>
                  /\ rthr'[u].port \in Pa!Ports /\ rthr'[u].val \in Nat
                  /\ \E s \in ParReqs : /\ Rater(rthr', s, rthr'[u].port)
                                        /\ prate'[rthr'[u].port] = rthr'[s].val \div ParUnit
             /\ rthr'[u].pc = "rate" =>
                  \E s \in ParReqs : /\ Rater(rthr', s, rthr'[u].port)
                                     /\ rthr'[u].actual = (rthr'[s].val \div ParUnit) * ParUnit
  <2>1. CASE u = r
    BY <1>3, <2>1
  <2>2. CASE u # r
    <3>1. rthr'[u] = rthr[u]
      BY <1>3, <2>2
    <3> QED
      BY <1>2, <1>4, <3>1 DEF ParamsInv
  <2> QED
    BY <2>1, <2>2
<1> QED
  BY <1>1, <1>2, <1>3, <1>5, WordWritten DEF ParamsInv

\* A port's new rate is that of the request itself.
LEMMA RateWrites ==
  ASSUME ParamsInv, NEW r \in ParReqs, Pa!set_port_rate_req(r)
  PROVE  ParamsInv'
<1>1. rthr[r].pc = "new" /\ qfrom' = qfrom
  BY DEF Pa!set_port_rate_req
<1>2. CASE Pa!Failed(r) /\ UNCHANGED prate
  BY <1>1, <1>2, ParamsDone DEF Pa!Failed, ParamsInv
<1>3. CASE \E p \in Pa!Ports, v \in ParRates :
             /\ prate' = [prate EXCEPT ![p] = v \div ParUnit]
             /\ rthr' = [rthr EXCEPT ![r] = [pc |-> "getrate", port |-> p, val |-> v]]
  <2>1. PICK p \in Pa!Ports, v \in ParRates :
             /\ prate' = [prate EXCEPT ![p] = v \div ParUnit]
             /\ rthr' = [rthr EXCEPT ![r] = [pc |-> "getrate", port |-> p, val |-> v]]
    BY <1>3
  <2>2. /\ rthr' = [s \in ParReqs |-> rthr'[s]] /\ rthr'[r].pc = "getrate"
        /\ rthr'[r].port = p /\ rthr'[r].val = v /\ v \in Nat
        /\ \A s \in ParReqs : s # r => rthr'[s] = rthr[s]
    BY <2>1, ParamAssumption DEF ParamsInv
  <2>3. Rater(rthr', r, p)
    BY <2>2 DEF Rater
  <2>4. \A s \in ParReqs : \A o : Rater(rthr, s, o) => s # r /\ rthr'[s] = rthr[s] /\ Rater(rthr', s, o)
    BY <1>1, <2>2 DEF Rater
  <2>5. /\ prate' = [o \in Pa!Ports |-> prate'[o]] /\ prate'[p] = v \div ParUnit
        /\ \A o \in Pa!Ports : o # p => prate'[o] = prate[o]
    BY <2>1 DEF ParamsInv
  <2>6. ASSUME NEW u \in ParReqs
        PROVE  /\ rthr'[u].pc = "threshold" => rthr'[u].port \in Pa!Ports /\ rthr'[u].qid \in ParQids
               /\ rthr'[u].pc \in {"getrate", "rate"} =>
                    /\ rthr'[u].port \in Pa!Ports /\ rthr'[u].val \in Nat
                    /\ \E s \in ParReqs : /\ Rater(rthr', s, rthr'[u].port)
                                          /\ prate'[rthr'[u].port] = rthr'[s].val \div ParUnit
               /\ rthr'[u].pc = "rate" =>
                    \E s \in ParReqs : /\ Rater(rthr', s, rthr'[u].port)
                                       /\ rthr'[u].actual = (rthr'[s].val \div ParUnit) * ParUnit
    <3>1. CASE u = r
      BY <2>2, <2>3, <2>5, <3>1
    <3>2. CASE u # r
      <4>1. rthr'[u] = rthr[u]
        BY <2>2, <3>2
      <4>2. CASE rthr[u].pc \in {"getrate", "rate"} /\ rthr[u].port = p
        BY <2>2, <2>3, <2>4, <2>5, <4>1, <4>2 DEF ParamsInv
      <4>3. CASE ~(rthr[u].pc \in {"getrate", "rate"} /\ rthr[u].port = p)
        BY <2>4, <2>5, <4>1, <4>3 DEF ParamsInv
      <4> QED
        BY <4>2, <4>3
    <3> QED
      BY <3>1, <3>2
  <2> QED
    BY <1>1, <2>2, <2>5, <2>6 DEF ParamsInv
<1>4. PICK p \in Pa!Ports \cup {ParMaxPort + 1}, v \in ParRates :
        IF p > ParMaxPort THEN Pa!Failed(r) /\ UNCHANGED prate
        ELSE /\ Pa!set_port_rate(p, v)
             /\ rthr' = [rthr EXCEPT ![r] = [pc |-> "getrate", port |-> p, val |-> v]]
             /\ UNCHANGED answer
  BY DEF Pa!set_port_rate_req
<1>5. p > ParMaxPort \/ p \in Pa!Ports
  BY <1>4, ParamAssumption DEF Pa!Ports
<1> QED
  BY <1>2, <1>3, <1>4, <1>5 DEF Pa!set_port_rate

\* The rate read back is the last one written to the port.
LEMMA RateReads ==
  ASSUME ParamsInv, NEW r \in ParReqs, Pa!GetRate(r)
  PROVE  ParamsInv'
<1>1. /\ rthr[r].pc = "getrate" /\ qfrom' = qfrom /\ prate' = prate
      /\ rthr' = [rthr EXCEPT ![r] = [pc |-> "rate", port |-> rthr[r].port, val |-> rthr[r].val,
                                     actual |-> prate[rthr[r].port] * ParUnit]]
  BY DEF Pa!GetRate, Pa!get_port_rate
<1>2. /\ rthr' = [s \in ParReqs |-> rthr'[s]] /\ rthr'[r].pc = "rate"
      /\ rthr'[r].port = rthr[r].port /\ rthr'[r].val = rthr[r].val
      /\ rthr'[r].actual = prate[rthr[r].port] * ParUnit
      /\ \A s \in ParReqs : s # r => rthr'[s] = rthr[s]
  BY <1>1 DEF ParamsInv
<1>3. \A s \in ParReqs : \A o : Rater(rthr, s, o) => Rater(rthr', s, o) /\ rthr'[s].val = rthr[s].val
  BY <1>2 DEF Rater
<1>4. ASSUME NEW u \in ParReqs
      PROVE  /\ rthr'[u].pc = "threshold" => rthr'[u].port \in Pa!Ports /\ rthr'[u].qid \in ParQids
             /\ rthr'[u].pc \in {"getrate", "rate"} =>
                  /\ rthr'[u].port \in Pa!Ports /\ rthr'[u].val \in Nat
                  /\ \E s \in ParReqs : /\ Rater(rthr', s, rthr'[u].port)
                                        /\ prate'[rthr'[u].port] = rthr'[s].val \div ParUnit
             /\ rthr'[u].pc = "rate" =>
                  \E s \in ParReqs : /\ Rater(rthr', s, rthr'[u].port)
                                     /\ rthr'[u].actual = (rthr'[s].val \div ParUnit) * ParUnit
  <2>1. CASE u = r
    <3>1. PICK s \in ParReqs : /\ Rater(rthr, s, rthr[r].port)
                               /\ prate[rthr[r].port] = rthr[s].val \div ParUnit
      BY <1>1 DEF ParamsInv
    <3>2. rthr[r].port \in Pa!Ports /\ rthr[r].val \in Nat
      BY <1>1 DEF ParamsInv
    <3> QED
      BY <1>1, <1>2, <1>3, <2>1, <3>1, <3>2
  <2>2. CASE u # r
    <3>1. rthr'[u] = rthr[u]
      BY <1>2, <2>2
    <3>2. ASSUME rthr[u].pc \in {"getrate", "rate"}
          PROVE  /\ rthr[u].port \in Pa!Ports /\ rthr[u].val \in Nat
                 /\ \E s \in ParReqs : /\ Rater(rthr', s, rthr[u].port)
                                       /\ prate[rthr[u].port] = rthr'[s].val \div ParUnit
      <4>1. PICK s \in ParReqs : /\ Rater(rthr, s, rthr[u].port)
                                 /\ prate[rthr[u].port] = rthr[s].val \div ParUnit
        BY <3>2 DEF ParamsInv
      <4> QED
        BY <1>3, <3>2, <4>1 DEF ParamsInv
    <3>3. ASSUME rthr[u].pc = "rate"
          PROVE  \E s \in ParReqs : /\ Rater(rthr', s, rthr[u].port)
                                    /\ rthr[u].actual = (rthr'[s].val \div ParUnit) * ParUnit
      <4>1. PICK s \in ParReqs : /\ Rater(rthr, s, rthr[u].port)
                                 /\ rthr[u].actual = (rthr[s].val \div ParUnit) * ParUnit
        BY <3>3 DEF ParamsInv
      <4>2. Rater(rthr', s, rthr[u].port) /\ rthr'[s].val = rthr[s].val
        BY <1>3, <4>1
      <4> QED
        BY <4>1, <4>2
    <3>4. rthr[u].pc = "threshold" => rthr[u].port \in Pa!Ports /\ rthr[u].qid \in ParQids
      BY DEF ParamsInv
    <3> QED
      BY <1>1, <3>1, <3>2, <3>3, <3>4
  <2> QED
    BY <2>1, <2>2
<1> QED
  BY <1>1, <1>2, <1>4 DEF ParamsInv

LEMMA ParamsNext ==
  ASSUME ParamsInv, Pa!Next
  PROVE  ParamsInv'
<1>1. PICK r \in ParReqs : Pa!Request(r) \/ Pa!SetThreshold(r) \/ Pa!GetRate(r)
  BY DEF Pa!Next
<1>2. ASSUME rthr[r].pc = "new", Pa!Fine(r) \/ Pa!Failed(r), UNCHANGED <<qfrom, prate>>
      PROVE  ParamsInv'
  BY <1>2, ParamsDone DEF Pa!Fine, Pa!Failed, ParamsInv
<1>3. ASSUME NEW ok, Pa!Read(r, ok)
      PROVE  ParamsInv'
  BY <1>2, <1>3 DEF Pa!Read
<1>4. CASE Pa!set_sample_rates_req(r)
  BY <1>2, <1>4 DEF Pa!set_sample_rates_req
<1>5. CASE Pa!SetThreshold(r)
  <2>1. /\ rthr[r].pc = "threshold" /\ prate' = prate /\ rthr' = [rthr EXCEPT ![r] = [pc |-> "done"]]
        /\ qfrom' = [qfrom EXCEPT ![Pa!QueueWord(rthr[r].port, rthr[r].qid)] =
                       @ \cup {<<rthr[r].port, rthr[r].qid>>}]
    BY <1>5 DEF Pa!SetThreshold, Pa!set_queue_threshold, Pa!Fine
  <2>2. rthr[r].port \in Pa!Ports /\ rthr[r].qid \in ParQids
    BY <2>1 DEF ParamsInv
  <2> QED
    BY <2>1, <2>2, WordWritten, ParamsDone
<1>6. ASSUME NEW c, Pa!ReadRegister(r) \/ Pa!ReadCounter(r, c) \/ Pa!get_queue_len_req(r)
      PROVE  ParamsInv'
  BY <1>3, <1>6 DEF Pa!ReadRegister, Pa!ReadCounter, Pa!get_queue_len_req
<1>7. CASE Pa!Request(r)
  <2>1. \/ Pa!set_queue_params_req(r) \/ Pa!set_port_rate_req(r) \/ Pa!set_sample_rates_req(r)
        \/ \E c : Pa!ReadRegister(r) \/ Pa!ReadCounter(r, c) \/ Pa!get_queue_len_req(r)
    BY <1>7 DEF Pa!Request, Pa!get_rx_pkt_req, Pa!get_rx_byte_req, Pa!get_tx_pkt_req,
       Pa!get_tx_byte_req, Pa!get_reg_pkt_req, Pa!get_reg_byte_req, Pa!get_stats_preq_byte_req,
       Pa!get_stats_preq_pkt_req, Pa!get_stats_postq_byte_req, Pa!get_stats_postq_pkt_req,
       Pa!get_plugin_counter_req
  <2> QED
    BY <1>4, <1>6, <2>1, QuantumWrites, RateWrites
<1> QED
  BY <1>1, <1>5, <1>7, RateReads

-----------------------------------------------------------------------------
(* The property of the run.                                                 *)

PlacesInv ==
  /\ kind \in {"swr", "hostf", "ndne"} => QueueInv
  /\ kind = "params" => ParamsInv

LEMMA PlacesStart ==
  ASSUME MCInit
  PROVE  PlacesInv
<1>1. CASE Sw!Init /\ kind = "swr"
  BY <1>1, SwStarts DEF PlacesInv
<1>2. CASE Hf!Init /\ kind = "hostf"
  BY <1>2, HfStarts DEF PlacesInv, Hf!Init
<1>3. CASE Nd!Init /\ kind = "ndne"
  BY <1>3, NdStarts DEF PlacesInv, Nd!Init, Nd!R!Init
<1>4. CASE Pa!Init /\ kind = "params"
  BY <1>4, ParamsStart DEF PlacesInv
<1>5. CASE kind \in {"tables", "plugins"}
  BY <1>5 DEF PlacesInv
<1> QED
  BY <1>1, <1>2, <1>3, <1>4, <1>5 DEF MCInit

LEMMA PlacesNext ==
  ASSUME PlacesInv, [MCNext]_mcVars
  PROVE  PlacesInv'
<1>1. CASE UNCHANGED mcVars
  <2>1. UNCHANGED <<kind, rthr, kernel, lost, prate, qfrom>>
    BY <1>1 DEF mcVars, swVars, parVars
  <2> QED
    BY <2>1 DEF PlacesInv, QueueInv, Scripts, Covered, IsKernel, ParamsInv, Rater
<1>2. CASE SwNext
  <2>1. kind \in {"swr", "hostf", "ndne"} /\ kind' = kind
    BY <1>2 DEF SwNext
  <2> QED
    BY <1>2, <2>1, QueueNext DEF PlacesInv
<1>3. CASE TabNext \/ PlgNext
  BY <1>3 DEF TabNext, PlgNext, Others, PlacesInv
<1>4. CASE ParNext
  <2>1. kind = "params" /\ kind' = kind /\ Pa!Next
    BY <1>4 DEF ParNext, Others
  <2> QED
    BY <2>1, ParamsNext DEF PlacesInv
<1> QED
  BY <1>1, <1>2, <1>3, <1>4 DEF MCNext

\* Every queue has a place of its own: the number that the software router and the hosts
\* compute to read a queue's statistics is the one tc stored it under, and its qdisc is
\* there whenever they are at rest (read_stats); the word of the network processor router
\* that holds a queue's parameters was written for that queue alone, and a port's rate is
\* read back as one a request gave (set_queue_quantum, set_port_rate).
THEOREM QueuesApartCorrect ==
  ASSUME NumbersInRange
  PROVE  MCSpec => []QueuesApart
<1>1. MCInit => PlacesInv
  BY PlacesStart
<1>2. PlacesInv /\ [MCNext]_mcVars => PlacesInv'
  BY PlacesNext
<1>3. PlacesInv => QueuesApart
  <2> SUFFICES ASSUME PlacesInv PROVE QueuesApart
    OBVIOUS
  <2>1. /\ SwPorts \subseteq 0 .. 18 /\ SwQids \subseteq 0 .. 19
        /\ HostPorts \subseteq 0 .. 18 /\ HostQids \subseteq 0 .. 19
    BY DEF NumbersInRange
  <2>2. CASE kind = "swr"
    BY <2>1, <2>2, SwMonitorable DEF PlacesInv, QueuesApart
  <2>3. CASE kind = "hostf"
    BY <2>1, <2>3, HfMonitorable DEF PlacesInv, QueuesApart
  <2>4. CASE kind = "ndne"
    BY <2>1, <2>4, NdMonitorable DEF PlacesInv, QueuesApart
  <2>5. CASE kind = "params"
    BY <2>5, ParamsApart DEF PlacesInv, QueuesApart
  <2>6. CASE kind \notin {"swr", "hostf", "ndne", "params"}
    BY <2>6 DEF QueuesApart
  <2> QED
    BY <2>2, <2>3, <2>4, <2>5, <2>6
<1> QED
  BY <1>1, <1>2, <1>3, PTL DEF MCSpec
=============================================================================
