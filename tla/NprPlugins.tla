----------------------------- MODULE NprPlugins -----------------------------
(***************************************************************************)
(* Plugins of the network processor router: their code on microengines     *)
(* (Configuration::add_plugin, del_plugin), control messages from the user *)
(* to a plugin and its answer back (PluginControl, PluginConn), and the    *)
(* debug log.                                                              *)
(*                                                                         *)
(* A control message takes the plugin's lock and leaves it locked; the     *)
(* thread that receives the plugin's answer unlocks it.  The message text  *)
(* and its packing into words are left out; a message is the request that  *)
(* carries it.                                                             *)
(***************************************************************************)
EXTENDS Naturals, Sequences, FiniteSets

CONSTANTS Plugins,    \* the plugin microengines: 0..4
          BadPlugin,  \* a microengine number above 4
          BaseMes,    \* the microengines of the router's own code
          Reqs,       \* requests of the user, one thread each
          NoReq,
          MaxDebug    \* bound on debug messages of the plugins

ASSUME PluginAssumption ==
  /\ Plugins \subseteq Nat /\ BadPlugin \notin Plugins /\ BaseMes \cap Plugins = {}
  /\ NoReq \notin Reqs /\ MaxDebug \in Nat

VARIABLES used_me_mask,  \* microengines start_mes starts
          running,       \* microengines that run
          handle,        \* handle[p]: p's code is loaded
          debug_log,     \* a debug log is open
          lock,          \* lock[p]: plugin<p>_control_lock is held
          msg,           \* msg[p]: plugin<p>_msg
          toPlugin, fromPlugin,  \* the control rings
          ready,         \* the plugin whose message check() has found
          thr,           \* thr[r]: the thread of request r
          rcv,           \* rcv[r]: the thread that handles the answer to r
          answered,      \* answered[r]: the texts sent to the user for r
          debugs

vars == <<used_me_mask, running, handle, debug_log, lock, msg, toPlugin,
          fromPlugin, ready, thr, rcv, answered, debugs>>
code == <<used_me_mask, running, handle>>
chan == <<lock, msg, toPlugin, fromPlugin, ready, rcv>>

None == [pc |-> "new", plugin |-> BadPlugin]
NoRcv == [pc |-> "none", plugin |-> BadPlugin, orig |-> NoReq]

Init ==
  /\ used_me_mask = BaseMes /\ running = BaseMes
  /\ handle = [p \in Plugins |-> FALSE]
  /\ debug_log = FALSE
  /\ lock = [p \in Plugins |-> FALSE]
  /\ msg = [p \in Plugins |-> NoReq]
  /\ toPlugin = [p \in Plugins |-> <<>>]
  /\ fromPlugin = [p \in Plugins |-> <<>>]
  /\ ready = BadPlugin
  /\ thr = [r \in Reqs |-> None]
  /\ rcv = [r \in Reqs |-> NoRcv]
  /\ answered = [r \in Reqs |-> <<>>]
  /\ debugs = 0

Answer(r, a) ==
  /\ answered' = [answered EXCEPT ![r] = Append(@, a)]
  /\ thr' = [thr EXCEPT ![r].pc = "done"]

----------------------------------------------------------------------------
(* Code: each under conf_lock                                              *)

start_mes == running' = used_me_mask'
stop_mes(mes) == running \ mes

(* Loading the file or writing the code may fail; in the second case the   *)
(* engines are started again and the plugin counts as loaded.              *)
add_plugin(p) ==
  \/ UNCHANGED code
  \/ /\ handle' = [handle EXCEPT ![p] = TRUE]
     /\ used_me_mask' = used_me_mask \cup {p}
     /\ start_mes

add_plugin_req(r) ==
  /\ thr[r].pc = "new"
  /\ \E p \in Plugins \cup {BadPlugin}, status \in {"Fine", "Failed"} :
       /\ IF p = BadPlugin THEN UNCHANGED code ELSE add_plugin(p)
       /\ status = "Fine" => p # BadPlugin /\ handle'[p]
       /\ Answer(r, status)
  /\ UNCHANGED <<debug_log, lock, msg, toPlugin, fromPlugin, ready, rcv, debugs>>

(* Mutant: a plugin that is not loaded is toggled too. *)
del_pluginMut(p) ==
  /\ running' = stop_mes({p})
  /\ used_me_mask' = (used_me_mask \ {p}) \cup ({p} \ used_me_mask)
  /\ handle' = [handle EXCEPT ![p] = FALSE]

(* The engines of a plugin that is not loaded are none.  The mask is       *)
(* toggled; a failure to delete the code answers Failed after that.        *)
del_plugin(p) ==
  LET mes == IF handle[p] THEN {p} ELSE {}
  IN /\ running' = stop_mes(mes)
     /\ used_me_mask' = (used_me_mask \ mes) \cup (mes \ used_me_mask)
     /\ handle' = [handle EXCEPT ![p] = FALSE]

delete_plugin_req(r) ==
  /\ thr[r].pc = "new"
  /\ \E p \in Plugins \cup {BadPlugin}, status \in {"Fine", "Failed"} :
       /\ IF p = BadPlugin THEN UNCHANGED code ELSE del_plugin(p)
       /\ p = BadPlugin => status = "Failed"
       /\ Answer(r, status)
  /\ UNCHANGED <<debug_log, lock, msg, toPlugin, fromPlugin, ready, rcv, debugs>>

(* The labels come in answers of five; a directory without plugins is      *)
(* answered with nothing.                                                  *)
find_plugins(n) == (n + 4) \div 5
get_plugins_req(r) ==
  /\ thr[r].pc = "new"
  /\ \/ \E n \in {0, 1, 6} :
          /\ answered' = [answered EXCEPT ![r] = [i \in 1..find_plugins(n) |-> "Fine"]]
          /\ thr' = [thr EXCEPT ![r].pc = "done"]
     \/ Answer(r, "Failed")
  /\ UNCHANGED <<code, debug_log, lock, msg, toPlugin, fromPlugin, ready, rcv, debugs>>

(* The old log is closed before anything can fail.                         *)
plugin_debug_req(r) ==
  /\ thr[r].pc = "new"
  /\ \/ debug_log' = TRUE /\ Answer(r, "Fine")
     \/ debug_log' = FALSE /\ Answer(r, "Failed")
  /\ UNCHANGED <<code, lock, msg, toPlugin, fromPlugin, ready, rcv, debugs>>

----------------------------------------------------------------------------
(* Control messages                                                        *)

plugin_control_msg_req(r) ==
  /\ thr[r].pc = "new"
  /\ \E p \in Plugins \cup {BadPlugin} :
       IF p = BadPlugin THEN Answer(r, "Failed")
       ELSE thr' = [thr EXCEPT ![r] = [pc |-> "lock", plugin |-> p]] /\ UNCHANGED answered
  /\ UNCHANGED <<code, debug_log, lock, msg, toPlugin, fromPlugin, ready, rcv, debugs>>

(* Mutant: the request is stored before the lock is taken. *)
send_msg_to_pluginMut(r) ==
  LET p == thr[r].plugin
  IN /\ thr[r].pc = "lock"
     /\ msg' = [msg EXCEPT ![p] = r]
     /\ lock' = [lock EXCEPT ![p] = TRUE]
     /\ thr' = IF lock[p] THEN thr ELSE [thr EXCEPT ![r].pc = "write"]
     /\ UNCHANGED <<code, debug_log, toPlugin, fromPlugin, ready, rcv, answered, debugs>>

(* With the lock the request is stored and its message written; the lock   *)
(* stays locked, the request is not deleted (handle returns false).        *)
send_msg_to_plugin(r) ==
  LET p == thr[r].plugin
  IN /\ thr[r].pc = "lock" /\ ~lock[p]
     /\ lock' = [lock EXCEPT ![p] = TRUE]
     /\ msg' = [msg EXCEPT ![p] = r]
     /\ thr' = [thr EXCEPT ![r].pc = "write"]
     /\ UNCHANGED <<code, debug_log, toPlugin, fromPlugin, ready, rcv, answered, debugs>>

writemsg(r) ==
  /\ thr[r].pc = "write"
  /\ toPlugin' = [toPlugin EXCEPT ![thr[r].plugin] = Append(@, r)]
  /\ thr' = [thr EXCEPT ![r].pc = "done"]
  /\ UNCHANGED <<code, debug_log, lock, msg, fromPlugin, ready, rcv, answered, debugs>>

(* A loaded plugin answers each message once, and may send debug texts.    *)
PluginAnswers(p) ==
  /\ handle[p] /\ p \in running /\ toPlugin[p] # <<>>
  /\ toPlugin' = [toPlugin EXCEPT ![p] = Tail(@)]
  /\ fromPlugin' = [fromPlugin EXCEPT ![p] = Append(@, Head(toPlugin[p]))]
  /\ UNCHANGED <<code, debug_log, lock, msg, ready, thr, rcv, answered, debugs>>

PluginDebugs(p) ==
  /\ handle[p] /\ p \in running /\ debugs < MaxDebug /\ debugs' = debugs + 1
  /\ fromPlugin' = [fromPlugin EXCEPT ![p] = Append(@, NoReq)]
  /\ UNCHANGED <<code, debug_log, lock, msg, toPlugin, ready, thr, rcv, answered>>

(* The main loop: plugins in the order of their numbers, one message at a  *)
(* time until its thread has read it.                                      *)
check ==
  /\ ready = BadPlugin
  /\ \E p \in Plugins :
       /\ fromPlugin[p] # <<>>
       /\ \A q \in Plugins : q < p => fromPlugin[q] = <<>>
       /\ ready' = p
  /\ UNCHANGED <<code, debug_log, lock, msg, toPlugin, fromPlugin, thr, rcv, answered, debugs>>

(* A debug text goes to the log (if one is open); an error closes it for   *)
(* good.                                                                   *)
plugin_debug_msg == debug_log' \in {debug_log, FALSE} /\ UNCHANGED rcv

readmsg ==
  /\ ready # BadPlugin
  /\ ready' = BadPlugin
  /\ fromPlugin' = [fromPlugin EXCEPT ![ready] = Tail(@)]
  /\ LET text == Head(fromPlugin[ready])
     IN IF text = NoReq THEN plugin_debug_msg
        ELSE /\ rcv' = [rcv EXCEPT ![text] = [pc |-> "rsp", plugin |-> ready, orig |-> NoReq]]
             /\ UNCHANGED debug_log
  /\ UNCHANGED <<code, lock, msg, toPlugin, thr, answered, debugs>>

(* pass_result_to_rli reads the stored request, unlocks, answers, and only *)
(* then forgets the stored request, which may be the next one by now.      *)
pass_result_to_rli(r) ==
  LET p == rcv[r].plugin
  IN /\ rcv[r].pc = "rsp"
     /\ lock' = [lock EXCEPT ![p] = FALSE]
     /\ rcv' = [rcv EXCEPT ![r].pc = "send", ![r].orig = msg[p]]
     /\ UNCHANGED <<code, debug_log, msg, toPlugin, fromPlugin, ready, thr, answered, debugs>>

(* Without a stored request it throws: the user gets no answer.            *)
send_plugin_response(r) ==
  /\ rcv[r].pc = "send"
  /\ IF rcv[r].orig = NoReq
     THEN rcv' = [rcv EXCEPT ![r].pc = "done"] /\ UNCHANGED answered
     ELSE /\ answered' = [answered EXCEPT ![rcv[r].orig] = Append(@, r)]
          /\ rcv' = [rcv EXCEPT ![r].pc = "clear"]
  /\ UNCHANGED <<code, debug_log, lock, msg, toPlugin, fromPlugin, ready, thr, debugs>>

ClearMsg(r) ==
  /\ rcv[r].pc = "clear"
  /\ msg' = [msg EXCEPT ![rcv[r].plugin] = NoReq]
  /\ rcv' = [rcv EXCEPT ![r].pc = "done"]
  /\ UNCHANGED <<code, debug_log, lock, toPlugin, fromPlugin, ready, thr, answered, debugs>>

Request(r) ==
  \/ add_plugin_req(r) \/ delete_plugin_req(r) \/ get_plugins_req(r)
  \/ plugin_debug_req(r) \/ plugin_control_msg_req(r)

Step(r) ==
  \/ send_msg_to_plugin(r) \/ writemsg(r)
  \/ pass_result_to_rli(r) \/ send_plugin_response(r) \/ ClearMsg(r)

Next ==
  \/ \E r \in Reqs : Request(r) \/ Step(r)
  \/ check \/ readmsg
  \/ \E p \in Plugins : PluginAnswers(p) \/ PluginDebugs(p)

Spec == Init /\ [][Next]_vars

----------------------------------------------------------------------------
(* Properties                                                              *)

(* The engines that run are those of the router's own code and of the      *)
(* loaded plugins: adding and deleting in any order, with failures, never  *)
(* toggles a bit of used_me_mask the wrong way.                            *)
EnginesMatchPlugins ==
  /\ used_me_mask = BaseMes \cup {p \in Plugins : handle[p]}
  /\ running = used_me_mask

(* "only one outstanding message to each plugin is allowed at any one      *)
(* time" (send_msg_to_plugin), and the answer of a plugin reaches the user *)
(* who sent the message: an answer to r is the plugin's answer to r.       *)
Outstanding(p) ==
  {r \in Reqs : \/ \E i \in DOMAIN toPlugin[p] : toPlugin[p][i] = r
                \/ \E i \in DOMAIN fromPlugin[p] : fromPlugin[p][i] = r
                \/ rcv[r].pc = "rsp" /\ rcv[r].plugin = p}

AnswersMatchMessages ==
  /\ \A p \in Plugins : Cardinality(Outstanding(p)) <= 1
  /\ \A r \in Reqs : thr[r].plugin # BadPlugin =>
       Len(answered[r]) <= 1 /\ \A i \in DOMAIN answered[r] : answered[r][i] = r
=============================================================================
