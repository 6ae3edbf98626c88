-------------------------------- MODULE Nmd --------------------------------
(***************************************************************************)
(* The network management daemon: it owns the vlans of the testbed's       *)
(* switches.  The crd allocates a vlan per link, adds the link's switch    *)
(* ports to it, has all the vlans of a session configured at once, and     *)
(* ends the session.  Every request runs in a thread of its own.  A        *)
(* session object holds its lock while its switch commands are on their    *)
(* way; a vlan has a lock of its own, and so has the list of free vlans.   *)
(* The text of the commands for the four kinds of switch is abstracted to  *)
(* the membership it leaves; a switch is either driven by SNMP, at once,   *)
(* or by an ssh command that is collected and sent by a thread.            *)
(***************************************************************************)
EXTENDS Naturals, FiniteSets, Sequences, SequencesExt

CONSTANTS Sids,      \* sessions of the crd
          Vlans,     \* vlan numbers
          Switches,  \* the switches of the testbed
          Snmp,      \* the ones without an ssh command line
          Ports,     \* switch ports
          SwitchOf,  \* [Ports -> Switches]
          Trunks,    \* ports to other switches, and those that pass tags
          Threads,   \* message threads of the daemon
          Objs,      \* session objects that may be made
          MaxSsh,    \* ssh commands a switch takes at a time (10)
          MaxFaults  \* bound on failed or late switch commands

VARIABLES
  vlans,       \* [Vlans -> in_use, sid, ports]
  free_vlans,  \* list of vlans to hand out
  objs,        \* [1..Objs -> session object]
  sessions,    \* vlan_set::sessions, a list of objects
  hw,          \* the switches: member [Vlans -> SUBSET Ports], pvid [Ports -> vlan]
  ssh,         \* [Switches -> outstanding ssh commands]
  cmds,        \* commands on their way
  thr,         \* [Threads -> request being handled]
  known,       \* [Sids -> vlans the crd was told of]
  lost,        \* vlans in use when the crd initialized the switches again
  faults       \* failed or late switch commands so far

vars == <<vlans, free_vlans, objs, sessions, hw, ssh, cmds, thr, known, lost, faults>>

\* The vlan of the ports that are in no experiment.
default_vlan == 1

\* A switch with no vlans: what initialize_switch leaves on all of them.
Emptied == [member |-> [v \in Vlans |-> {}], pvid |-> [p \in Ports |-> default_vlan]]

Free == [in_use |-> FALSE, sid |-> "", ports |-> {}]

NoObj == [sid |-> "", active |-> {}, removed |-> {}, switches |-> {},
          cleared |-> FALSE, owner |-> "none"]

NoRequest == [pc |-> "idle", op |-> "none", sid |-> "", v |-> 0, port |-> "none",
              obj |-> 0, todo |-> {}, empty |-> 0]

\* vlan_set::vlan_set.
Init ==
  /\ vlans = [v \in Vlans |-> Free]
  /\ free_vlans = SetToSeq(Vlans)
  /\ objs = [o \in 1..Objs |-> NoObj]
  /\ sessions = <<>>
  /\ hw = Emptied
  /\ ssh = [w \in Switches |-> 0]
  /\ cmds = {}
  /\ thr = [t \in Threads |-> NoRequest]
  /\ known = [s \in Sids |-> {}]
  /\ lost = {}
  /\ faults = 0

At(t, pc) == thr[t].pc = pc

Goto(t, pc) == thr' = [thr EXCEPT ![t].pc = pc]

Answer(t) == thr' = [thr EXCEPT ![t] = NoRequest]

\* vlan::get_switch_ports.
OnSwitch(ps, w) == {p \in ps : SwitchOf[p] = w}

\* vlan_set::get_session: the first object of the list with the session's id, or 0.
get_session(s) ==
  LET i == SelectInSeq(sessions, LAMBDA o : objs[o].sid = s)
  IN  IF i = 0 THEN 0 ELSE sessions[i]

\* vlan_set::free_vlan.
free_vlan(list, v) == IF v \in ToSet(list) THEN list ELSE Append(list, v)

-----------------------------------------------------------------------------
(***************************************************************************)
(* Requests.  The crd sends add_vlan for the links of a session one after  *)
(* the other (commit), adds ports for several links at a time, and ends a  *)
(* session or deletes its vlans when it has the answers to those.          *)
(***************************************************************************)
Adding(s)   == \E t \in Threads : thr[t].sid = s /\ thr[t].op \in {"add_vlan", "add_to_vlan"}
Removing(s) == \E t \in Threads : thr[t].sid = s /\ thr[t].op \in {"delete_vlan", "end_session"}

Take(t, op, pc, s, v, p) ==
  /\ At(t, "idle")
  /\ thr' = [thr EXCEPT ![t] = [NoRequest EXCEPT !.pc = pc, !.op = op, !.sid = s,
                                                 !.v = v, !.port = p]]
  /\ UNCHANGED <<vlans, free_vlans, objs, sessions, hw, ssh, cmds, known, lost, faults>>

add_vlan_req(t, s) ==
  ~Adding(s) /\ ~Removing(s) /\ Take(t, "add_vlan", "alloc", s, 0, "none")

add_to_vlan_req(t, s) ==
  /\ ~Removing(s)
  /\ \A u \in Threads : ~(thr[u].sid = s /\ thr[u].op = "add_vlan")
  /\ \E v \in known[s], p \in Ports : Take(t, "add_to_vlan", "session", s, v, p)

delete_vlan_req(t, s) ==
  ~Adding(s) /\ \E v \in known[s] : Take(t, "delete_vlan", "session", s, v, "none")

start_session_req(t, s) == known[s] # {} /\ Take(t, "start_session", "session", s, 0, "none")

end_session_req(t, s) == ~Adding(s) /\ Take(t, "end_session", "session", s, 0, "none")

\* delete_from_vlan_req::handle is Fine and leaves the port to the end of the vlan.
delete_from_vlan_req(t, s) == At(t, "idle") /\ known[s] # {} /\ UNCHANGED vars

\* initialize_switch for the switches of ws, by ssh or vlan by vlan over SNMP.
initialize_switches(ws) ==
  [member |-> [v \in Vlans |-> {p \in hw.member[v] : SwitchOf[p] \notin ws}],
   pvid |-> [p \in Ports |-> IF SwitchOf[p] \in ws THEN default_vlan ELSE hw.pvid[p]]]

\* initialize_req::handle: every switch is emptied by a thread of its own; when all
\* are, the vlans and the sessions are forgotten.  The list of free vlans is left as
\* it is, so a vlan that was in use is never handed out again.  The destructors of
\* the sessions find nothing to clear.  The crd sends it when it starts.
initialize_req(t) ==
  /\ \A u \in Threads : At(u, "idle")
  /\ \/ /\ hw' = initialize_switches(Switches)
        /\ vlans' = [v \in Vlans |-> [vlans[v] EXCEPT !.in_use = FALSE, !.ports = {}]]
        /\ sessions' = <<>>
        /\ lost' = lost \cup (Vlans \ ToSet(free_vlans))
        /\ UNCHANGED faults
     \/ /\ faults < MaxFaults
        /\ faults' = faults + 1
        /\ \E w \in Switches : hw' = initialize_switches(Switches \ {w})
        /\ UNCHANGED <<vlans, sessions, lost>>
  /\ known' = [s \in Sids |-> {}]
  /\ UNCHANGED <<free_vlans, objs, ssh, cmds, thr>>

Request(t) ==
  \/ \E s \in Sids :
       \/ add_vlan_req(t, s) \/ add_to_vlan_req(t, s) \/ delete_vlan_req(t, s)
       \/ start_session_req(t, s) \/ end_session_req(t, s) \/ delete_from_vlan_req(t, s)
  \/ initialize_req(t)

-----------------------------------------------------------------------------
(***************************************************************************)
(* add_vlan.                                                               *)
(***************************************************************************)
\* alloc_vlan takes the first free vlan under its own lock.
alloc_vlan(t) ==
  /\ At(t, "alloc")
  /\ IF free_vlans = <<>>
     THEN Answer(t) /\ UNCHANGED free_vlans
     ELSE /\ free_vlans' = Tail(free_vlans)
          /\ thr' = [thr EXCEPT ![t].pc = "use", ![t].v = Head(free_vlans)]
  /\ UNCHANGED <<vlans, objs, sessions, hw, ssh, cmds, known, lost, faults>>

\* vlan::set_in_use under the vlan's lock.
set_in_use(t) ==
  LET v == thr[t].v
  IN  /\ At(t, "use")
      /\ IF vlans[v].in_use
         THEN Answer(t) /\ UNCHANGED vlans
         ELSE /\ vlans' = [vlans EXCEPT ![v].in_use = TRUE, ![v].sid = thr[t].sid]
              /\ Goto(t, "session")
      /\ UNCHANGED <<free_vlans, objs, sessions, hw, ssh, cmds, known, lost, faults>>

\* The session is created when it is not there: the list is searched under its lock
\* and, in a second step, the new object is added to it.
NewSession(t) ==
  /\ At(t, "create")
  /\ \E o \in 1..Objs :
       /\ objs[o] = NoObj
       /\ \A p \in 1..(o - 1) : objs[p] # NoObj
       /\ objs' = [objs EXCEPT ![o].sid = thr[t].sid]
       /\ sessions' = Append(sessions, o)
       /\ thr' = [thr EXCEPT ![t].pc = "enter", ![t].obj = o]
  /\ UNCHANGED <<vlans, free_vlans, hw, ssh, cmds, known, lost, faults>>

\* session::add_vlan under the session's lock, and the answer.
session_add_vlan(t) ==
  LET r == thr[t]
  IN  /\ At(t, "enter") /\ r.op = "add_vlan"
      /\ objs[r.obj].owner = "none"
      /\ objs' = [objs EXCEPT ![r.obj].active = @ \cup {r.v}]
      /\ known' = [known EXCEPT ![r.sid] = @ \cup {r.v}]
      /\ Answer(t)
      /\ UNCHANGED <<vlans, free_vlans, sessions, hw, ssh, cmds, lost, faults>>

-----------------------------------------------------------------------------
\* The crd forgets a vlan when its deletion is answered, and all the vlans of a session
\* that it has ended: what its links still delete then finds no session.
Forget(t) ==
  CASE thr[t].op = "delete_vlan" -> [known EXCEPT ![thr[t].sid] = @ \ {thr[t].v}]
    [] thr[t].op = "end_session" -> [known EXCEPT ![thr[t].sid] = {}]
    [] OTHER -> known

\* get_session for every request that needs one; without one, add_vlan makes it, a
\* delete or an end is Fine and the others fail.
LookUp(t) ==
  LET o == get_session(thr[t].sid)
  IN  /\ At(t, "session")
      /\ IF o # 0
         THEN thr' = [thr EXCEPT ![t].pc = "enter", ![t].obj = o]
         ELSE IF thr[t].op = "add_vlan" THEN Goto(t, "create") ELSE Answer(t)
      /\ known' = IF o = 0 THEN Forget(t) ELSE known
      /\ UNCHANGED <<vlans, free_vlans, objs, sessions, hw, ssh, cmds, lost, faults>>

\* vlan_set::add_to_vlan: whether the vlan is in use and whose it is are read without
\* its lock; the port is added under the lock and the switch under the session's.
add_to_vlan(t) ==
  LET r == thr[t]
  IN  /\ At(t, "enter") /\ r.op = "add_to_vlan"
      /\ IF vlans[r.v].in_use /\ vlans[r.v].sid = r.sid THEN Goto(t, "port") ELSE Answer(t)
      /\ UNCHANGED <<vlans, free_vlans, objs, sessions, hw, ssh, cmds, known, lost, faults>>

add_port(t) ==
  /\ At(t, "port")
  /\ vlans' = [vlans EXCEPT ![thr[t].v].ports = @ \cup {thr[t].port}]
  /\ Goto(t, "switch")
  /\ UNCHANGED <<free_vlans, objs, sessions, hw, ssh, cmds, known, lost, faults>>

add_switch(t) ==
  LET o == thr[t].obj
  IN  /\ At(t, "switch")
      /\ objs[o].owner = "none"
      /\ objs' = [objs EXCEPT ![o].switches =
                    IF objs[o].cleared THEN @ ELSE @ \cup {SwitchOf[thr[t].port]}]
      /\ Answer(t)
      /\ UNCHANGED <<vlans, free_vlans, sessions, hw, ssh, cmds, known, lost, faults>>

-----------------------------------------------------------------------------
(***************************************************************************)
(* start_session: create_vlans_threaded, under the session's lock.         *)
(***************************************************************************)
\* A command says which ports of the switch some vlans shall have (sets), and puts
\* ports into a vlan of their own (pvids).
Command(t, w, sets, pvids) ==
  [thread |-> t, switch |-> w, sets |-> sets, pvids |-> pvids, state |-> "sent"]

\* set_switch_vlan_membership: the switch's ports leave the vlan and the given ones
\* enter it.
set_switch_vlan_membership(w, v, ps) == (hw.member[v] \ OnSwitch(Ports, w)) \cup ps

\* set_switch_pvids: only ports that lead to a host are set.
set_switch_pvids(pvids) ==
  [p \in Ports |-> IF p \in DOMAIN pvids \ Trunks THEN pvids[p] ELSE hw.pvid[p]]

\* The switches when a command has been carried out.
Carried(c) ==
  [member |-> [v \in Vlans |-> IF v \in DOMAIN c.sets
                               THEN set_switch_vlan_membership(c.switch, v, c.sets[v])
                               ELSE hw.member[v]],
   pvid |-> set_switch_pvids(c.pvids)]

\* An SNMP switch is set while its command is built: the ports that are not given are
\* forbidden, then the given ones are added.  An ssh command is handed to a thread.
Send(c) ==
  IF c.switch \in Snmp
  THEN hw' = Carried(c) /\ UNCHANGED cmds
  ELSE cmds' = cmds \cup {c} /\ UNCHANGED hw

create_vlans(t) ==
  LET o == thr[t].obj
  IN  /\ At(t, "enter") /\ thr[t].op = "start_session"
      /\ objs[o].owner = "none"
      /\ IF objs[o].cleared
         THEN Answer(t) /\ UNCHANGED objs
         ELSE /\ objs' = [objs EXCEPT ![o].owner = t]
              /\ thr' = [thr EXCEPT ![t].pc = "build", ![t].todo = objs[o].switches]
      /\ UNCHANGED <<vlans, free_vlans, sessions, hw, ssh, cmds, known, lost, faults>>

\* The command for one switch is built from the ports the active vlans have now
\* (get_add_ports_cmd) and sent by a thread of its own.
get_add_ports_cmd(t) ==
  LET o == thr[t].obj
  IN  /\ At(t, "build") /\ thr[t].op = "start_session"
      /\ \E w \in thr[t].todo :
           LET sets == [v \in objs[o].active |-> OnSwitch(vlans[v].ports, w)]
               ins  == UNION {sets[v] : v \in objs[o].active}
           IN  /\ thr' = [thr EXCEPT ![t].todo = @ \ {w}]
               /\ Send(Command(t, w, sets, [p \in ins |->
                         CHOOSE v \in objs[o].active : p \in sets[v]]))
      /\ UNCHANGED <<vlans, free_vlans, objs, sessions, ssh, known, lost, faults>>

Sent(t) == {c \in cmds : c.thread = t}

create_vlans_finished(t) ==
  /\ At(t, "build") /\ thr[t].op = "start_session" /\ thr[t].todo = {}
  /\ Sent(t) = {}
  /\ objs' = [objs EXCEPT ![thr[t].obj].owner = "none"]
  /\ Answer(t)
  /\ UNCHANGED <<vlans, free_vlans, sessions, hw, ssh, cmds, known, lost, faults>>

-----------------------------------------------------------------------------
(***************************************************************************)
(* end_session and the delete_vlan of the last vlan: clear_session.        *)
(***************************************************************************)
\* session::remove_vlan; the session is cleared when its last vlan is removed.
remove_vlan(t) ==
  LET r == thr[t]
      left == objs[r.obj].active \ {r.v}
  IN  /\ At(t, "enter") /\ r.op = "delete_vlan"
      /\ objs[r.obj].owner = "none"
      /\ objs' = [objs EXCEPT ![r.obj].active = left,
                              ![r.obj].removed = @ \cup (objs[r.obj].active \cap {r.v})]
      /\ Goto(t, IF left = {} THEN "clear" ELSE "cleared")
      /\ UNCHANGED <<vlans, free_vlans, sessions, hw, ssh, cmds, known, lost, faults>>

clear_session(t) ==
  LET o == thr[t].obj
  IN  /\ At(t, "clear") \/ (At(t, "enter") /\ thr[t].op = "end_session")
      /\ objs[o].owner = "none"
      /\ IF objs[o].cleared
         THEN Goto(t, "cleared") /\ UNCHANGED objs
         ELSE /\ objs' = [objs EXCEPT ![o].cleared = TRUE, ![o].owner = t,
                                      ![o].removed = @ \cup objs[o].active]
              /\ thr' = [thr EXCEPT ![t].pc = "wipe", ![t].todo = objs[o].switches]
      /\ UNCHANGED <<vlans, free_vlans, sessions, hw, ssh, cmds, known, lost, faults>>

\* get_clear_vlan_cmd, for every removed vlan: its ports on the switch are taken off;
\* a vlan that has none left is free at once, before the switch has been told.
get_clear_vlan_cmd(t) ==
  LET o == thr[t].obj
  IN  /\ At(t, "wipe")
      /\ \E w \in thr[t].todo :
           LET hit  == {v \in objs[o].removed : OnSwitch(vlans[v].ports, w) # {}}
               done == {v \in hit : vlans[v].ports \subseteq OnSwitch(Ports, w)}
               outs == UNION {OnSwitch(vlans[v].ports, w) : v \in hit}
           IN  /\ thr' = [thr EXCEPT ![t].todo = @ \ {w}]
               /\ vlans' = [v \in Vlans |->
                    IF v \in done THEN Free
                    ELSE IF v \in hit THEN [vlans[v] EXCEPT !.ports = @ \ OnSwitch(Ports, w)]
                    ELSE vlans[v]]
               /\ free_vlans' = free_vlans \o SetToSeq(done \ ToSet(free_vlans))
               /\ IF hit = {} THEN UNCHANGED <<hw, cmds>>
                  ELSE Send(Command(t, w, [v \in hit |-> {}], [p \in outs |-> default_vlan]))
      /\ UNCHANGED <<objs, sessions, ssh, known, lost, faults>>

\* When all the commands have returned, the vlans that never had a port are looked at.
Wiped(t) ==
  /\ At(t, "wipe") /\ thr[t].todo = {}
  /\ Sent(t) = {}
  /\ thr' = [thr EXCEPT ![t].pc = "empty", ![t].todo = objs[thr[t].obj].removed]
  /\ UNCHANGED <<vlans, free_vlans, objs, sessions, hw, ssh, cmds, known, lost, faults>>

\* vlan::clear_if_empty reads the vlan, resets it and frees it, all without its lock;
\* whose the vlan is by now is not asked.
\* The mutant forgets the vlans that never had a port.
ClearsIfEmptyMut(v) == FALSE

ClearsIfEmpty(v) == vlans[v].in_use /\ vlans[v].ports = {}

clear_if_empty(t) ==
  /\ At(t, "empty")
  /\ \E v \in thr[t].todo :
       thr' = [thr EXCEPT ![t].todo = @ \ {v},
                          ![t].pc = IF ClearsIfEmpty(v) THEN "reset" ELSE "empty",
                          ![t].empty = v]
  /\ UNCHANGED <<vlans, free_vlans, objs, sessions, hw, ssh, cmds, known, lost, faults>>

ResetVlan(t) ==
  /\ At(t, "reset")
  /\ vlans' = [vlans EXCEPT ![thr[t].empty].in_use = FALSE, ![thr[t].empty].sid = ""]
  /\ Goto(t, "free")
  /\ UNCHANGED <<free_vlans, objs, sessions, hw, ssh, cmds, known, lost, faults>>

FreeVlan(t) ==
  /\ At(t, "free")
  /\ free_vlans' = free_vlan(free_vlans, thr[t].empty)
  /\ Goto(t, "empty")
  /\ UNCHANGED <<vlans, objs, sessions, hw, ssh, cmds, known, lost, faults>>

clear_session_finished(t) ==
  /\ At(t, "empty") /\ thr[t].todo = {}
  /\ objs' = [objs EXCEPT ![thr[t].obj].owner = "none"]
  /\ Goto(t, "cleared")
  /\ UNCHANGED <<vlans, free_vlans, sessions, hw, ssh, cmds, known, lost, faults>>

\* A cleared session leaves the list, which it is on once, and the request is answered.
remove_session(t) ==
  LET r == thr[t]
  IN  /\ At(t, "cleared")
      /\ sessions' = IF objs[r.obj].cleared
                     THEN RemoveFirst(sessions, r.obj) ELSE sessions
      /\ known' = Forget(t)
      /\ Answer(t)
      /\ UNCHANGED <<vlans, free_vlans, objs, hw, ssh, cmds, lost, faults>>

-----------------------------------------------------------------------------
(***************************************************************************)
(* Switch commands: send_command in a thread of its own.                   *)
(***************************************************************************)
\* switch_ssh_lock::start_ssh.
start_ssh(c) ==
  /\ c.state = "sent"
  /\ ssh[c.switch] < MaxSsh
  /\ ssh' = [ssh EXCEPT ![c.switch] = @ + 1]
  /\ cmds' = (cmds \ {c}) \cup {[c EXCEPT !.state = "running"]}
  /\ UNCHANGED <<vlans, free_vlans, objs, sessions, hw, thr, known, lost, faults>>

\* After 300 s the command is sent all the same: send_command ignores the answer.
start_ssh_timeout(c) ==
  /\ c.state = "sent"
  /\ ssh[c.switch] >= MaxSsh
  /\ faults < MaxFaults
  /\ faults' = faults + 1
  /\ cmds' = (cmds \ {c}) \cup {[c EXCEPT !.state = "running"]}
  /\ UNCHANGED <<vlans, free_vlans, objs, sessions, hw, ssh, thr, known, lost>>

\* exec_ssh and finish_ssh: the command is carried out, or fails and changes nothing.
finish_ssh(c) ==
  /\ c.state = "running"
  /\ ssh' = [ssh EXCEPT ![c.switch] = IF @ = 0 THEN 0 ELSE @ - 1]
  /\ cmds' = cmds \ {c}
  /\ \/ hw' = Carried(c) /\ UNCHANGED faults
     \/ faults < MaxFaults /\ faults' = faults + 1 /\ UNCHANGED hw
  /\ UNCHANGED <<vlans, free_vlans, objs, sessions, thr, known, lost>>

Step(t) ==
  \/ alloc_vlan(t) \/ set_in_use(t) \/ NewSession(t) \/ session_add_vlan(t)
  \/ LookUp(t) \/ add_to_vlan(t) \/ add_port(t) \/ add_switch(t)
  \/ create_vlans(t) \/ get_add_ports_cmd(t) \/ create_vlans_finished(t)
  \/ remove_vlan(t) \/ clear_session(t) \/ get_clear_vlan_cmd(t) \/ Wiped(t)
  \/ clear_if_empty(t) \/ ResetVlan(t) \/ FreeVlan(t)
  \/ clear_session_finished(t) \/ remove_session(t)

Environment == \E c \in cmds : start_ssh(c) \/ start_ssh_timeout(c) \/ finish_ssh(c)

Next == Environment \/ \E t \in Threads : Request(t) \/ Step(t)

Spec == Init /\ [][Next]_vars

-----------------------------------------------------------------------------
Quiet == \A t \in Threads : At(t, "idle")

\* When the daemon is at rest every vlan can be handed out, or a session that can
\* still be ended has it, or it was in use when the switches were initialized again:
\* a session that never added a port to a vlan gives it back too (clear_if_empty),
\* whatever two sessions that end, start and allocate at the same time do.
NoVlanLeaked ==
  Quiet => \A v \in Vlans :
    \/ v \in ToSet(free_vlans) \cup lost
    \/ \E i \in DOMAIN sessions :
         v \in objs[sessions[i]].active \cup objs[sessions[i]].removed

\* No vlan is on the active lists of two sessions that have not been cleared.
VlanHasOneOwner ==
  \A i, j \in DOMAIN sessions :
    i # j => \/ objs[sessions[i]].cleared \/ objs[sessions[j]].cleared
             \/ objs[sessions[i]].active \cap objs[sessions[j]].active = {}
=============================================================================
