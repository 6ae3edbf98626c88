-------------------------------- MODULE VmBase --------------------------------
(***************************************************************************)
(* The daemon of a server of virtual machines (src/vmbase).  The crd       *)
(* starts, configures and refreshes the VMs of an experiment one request   *)
(* at a time per VM, but those of different VMs at once; each request runs *)
(* in a thread of its own.  The session manager keeps a session per        *)
(* experiment, and a table of the names a VM can have.  The daemon of the  *)
(* VPN node (module VpnBase) was made from this one: Variant selects its   *)
(* side where the two differ.                                              *)
(***************************************************************************)
EXTENDS Naturals, Sequences, SequencesExt

CONSTANTS Variant,   \* "vm" or "vpn"
          Comps,     \* the VMs the crd knows, each with one interface
          ExpOf,     \* the experiment a VM belongs to
          VlanOf,    \* the vlan its interface is on
          MaxNames,  \* number of VM names (24)
          AddrOf,    \* vpn: the last byte of the device's address, its name
          Sids       \* identities of session objects

VARIABLES in_use,         \* vmnames[n].in_use
          active,         \* active_sessions
          sess,           \* session objects
          lock,           \* holder of session_lock
          req,            \* the request of each VM
          stage,          \* what the crd knows of each VM
          defined,        \* names of the VMs virsh has (external)
          bridges,        \* vlans with a bridge (external)
          crashed

vars == <<in_use, active, sess, lock, req, stage, defined, bridges, crashed>>

Names == 1..MaxNames
None == "none"
NoVm == [comp |-> None, name |-> 0, ifs |-> FALSE]
NoSess == [exp |-> None, vms |-> <<>>, vlans |-> {}]
Idle == [op |-> None, pc |-> "idle", sptr |-> None, vm |-> NoVm, ok |-> TRUE]

Init ==
  /\ in_use = [n \in Names |-> FALSE]
  /\ active = <<>>
  /\ sess = [s \in Sids |-> NoSess]
  /\ lock = None
  /\ req = [c \in Comps |-> Idle]
  /\ stage = [c \in Comps |-> "off"]
  /\ defined = {}
  /\ bridges = {}
  /\ crashed = FALSE

Goto(c, pc) == req' = [req EXCEPT ![c].pc = pc]

(* The crd starts a VM, configures it while it is started, ends the        *)
(* configuration, and refreshes it after any of these.                     *)
Receive(c, op) ==
  /\ ~crashed /\ req[c].pc = "idle"
  /\ CASE op = "start" -> stage[c] = "off"
       [] op = "configure" -> stage[c] = "started"
       [] op = "end" -> stage[c] \in {"started", "configured"}
       [] op = "refresh" -> stage[c] # "off"
  /\ req' = [req EXCEPT ![c] = [Idle EXCEPT !.op = op, !.pc = op]]
  /\ UNCHANGED <<in_use, active, sess, lock, stage, defined, bridges, crashed>>

Answer(c, ok, sptr) ==
  /\ stage' = [stage EXCEPT ![c] =
       IF req[c].op = "refresh" THEN "off"
       ELSE IF ~ok THEN "failed"
       ELSE CASE req[c].op = "end" -> "up"
              [] req[c].op = "configure" -> "configured"
              [] OTHER -> "started"]
  /\ req' = [req EXCEPT ![c] = [Idle EXCEPT !.pc = "drop", !.sptr = sptr]]

-----------------------------------------------------------------------------
(* session_manager::getSession, under session_lock: the first session of   *)
(* the experiment.                                                         *)
getSession(c) ==
  LET is == {i \in DOMAIN active : sess[active[i]].exp = ExpOf[c]}
  IN IF is = {} THEN None
     ELSE active[Min(is)]

(* session::getVM: the session's first VM of that component.               *)
getVM(s, c) ==
  LET is == {i \in DOMAIN sess[s].vms : sess[s].vms[i].comp = c}
  IN IF is = {} THEN NoVm ELSE sess[s].vms[Min(is)]

(* session_manager::addSession looks, and only then takes the lock again   *)
(* to add.                                                                 *)
addSession_look(c) ==
  /\ req[c].pc = "start" /\ lock = None
  /\ req' = [req EXCEPT ![c].sptr = getSession(c),
               ![c].pc = IF getSession(c) = None THEN "push" ELSE "addVM"]
  /\ UNCHANGED <<in_use, active, sess, lock, stage, defined, bridges, crashed>>

addSession_push(c) ==
  /\ req[c].pc = "push" /\ lock = None
  /\ \E s \in Sids :
       /\ sess[s].exp = None
       /\ sess' = [sess EXCEPT ![s] = [NoSess EXCEPT !.exp = ExpOf[c]]]
       /\ active' = Append(active, s)
       /\ req' = [req EXCEPT ![c].sptr = s, ![c].pc = "addVM"]
  /\ UNCHANGED <<in_use, lock, stage, defined, bridges, crashed>>

(* session::addVM with assignVM: the first free name, under vmname_lock.  A *)
(* VPN device is named after its address.                                  *)
FreeNames(c) ==
  IF Variant = "vpn" THEN {AddrOf[c]} ELSE {n \in Names : ~in_use[n]}
(* Mutant: the name is not marked.                                         *)
assignVMMut(n) == in_use' = in_use
assignVM(n) ==
  in_use' = IF Variant = "vpn" THEN in_use ELSE [in_use EXCEPT ![n] = TRUE]

addVM(c) ==
  /\ req[c].pc = "addVM"
  /\ IF getVM(req[c].sptr, c) # NoVm
     THEN Answer(c, TRUE, req[c].sptr) /\ UNCHANGED in_use
     ELSE IF FreeNames(c) = {}
     THEN Answer(c, FALSE, req[c].sptr) /\ UNCHANGED in_use
     ELSE LET n == Min(FreeNames(c))
          IN /\ assignVM(n)
             /\ req' = [req EXCEPT ![c].pc = "link",
                          ![c].vm = [NoVm EXCEPT !.comp = c, !.name = n]]
             /\ UNCHANGED stage
  /\ UNCHANGED <<active, sess, lock, defined, bridges, crashed>>

(* vms.push_back without a lock: next to another one of the same list it   *)
(* may be lost.                                                            *)
addVM_link(c) ==
  LET s == req[c].sptr
  IN /\ req[c].pc = "link"
     /\ \/ sess' = [sess EXCEPT ![s].vms = Append(@, req[c].vm)]
        \/ /\ \E d \in Comps \ {c} : req[d].pc = "link" /\ req[d].sptr = s
           /\ UNCHANGED sess
     /\ Answer(c, TRUE, s)
     /\ UNCHANGED <<in_use, active, lock, defined, bridges, crashed>>

-----------------------------------------------------------------------------
(* configure_node_req: remember the interface.                              *)
configureVM(c) ==
  /\ req[c].pc = "configure" /\ lock = None
  /\ LET s == getSession(c)
     IN IF s = None THEN Answer(c, FALSE, None) /\ UNCHANGED sess
        ELSE IF getVM(s, c) = NoVm THEN Answer(c, FALSE, s) /\ UNCHANGED sess
        ELSE /\ sess' = [sess EXCEPT ![s].vms =
                  [i \in DOMAIN @ |-> IF @[i] = getVM(s, c)
                                      THEN [@[i] EXCEPT !.ifs = TRUE] ELSE @[i]]]
             /\ Answer(c, TRUE, s)
  /\ UNCHANGED <<in_use, active, lock, defined, bridges, crashed>>

(* end_configure_node_req asks a null session or VM as well: the daemon    *)
(* ends there.                                                             *)
end_configure_node_req(c) ==
  /\ req[c].pc = "end" /\ lock = None
  /\ LET s == getSession(c)
     IN IF s = None THEN crashed' = TRUE /\ UNCHANGED req
        ELSE IF getVM(s, c) = NoVm THEN crashed' = TRUE /\ UNCHANGED req
        ELSE /\ req' = [req EXCEPT ![c].sptr = s, ![c].vm = getVM(s, c),
                          ![c].pc = "startVM"]
             /\ UNCHANGED crashed
  /\ UNCHANGED <<in_use, active, sess, lock, stage, defined, bridges>>

(* session_manager::startVM without a lock: the interface joins the        *)
(* session's vlan, then the script makes bridge and VM.                    *)
startVM(c) ==
  /\ req[c].pc = "startVM"
  /\ sess' = [sess EXCEPT ![req[c].sptr].vlans =
       IF req[c].vm.ifs THEN @ \cup {<<VlanOf[c], req[c].vm.name>>} ELSE @]
  /\ Goto(c, "script")
  /\ UNCHANGED <<in_use, active, lock, stage, defined, bridges, crashed>>

startVM_script(c) ==
  /\ req[c].pc = "script"
  /\ \/ /\ defined' = defined \cup {req[c].vm.name}
        /\ bridges' = IF req[c].vm.ifs THEN bridges \cup {VlanOf[c]} ELSE bridges
        /\ \E pings \in BOOLEAN : Answer(c, pings, req[c].sptr)
     \/ /\ UNCHANGED <<defined, bridges>>
        /\ Answer(c, FALSE, req[c].sptr)
  /\ UNCHANGED <<in_use, active, sess, lock, crashed>>

-----------------------------------------------------------------------------
(* session::removeVM: leave the vlan and, as its last one, clean it up;    *)
(* undefine; release the name.  The script's exit status is that of its    *)
(* last command, which fails for a VM that was never started.  A VPN       *)
(* device is torn down with its vlan; only without an interface a script   *)
(* of its own can fail.                                                    *)
CanSucceed(v, ok) ==
  IF Variant = "vpn" THEN v.ifs => ok ELSE ok => v.name \in defined

LeaveVlan(s, v) == {m \in sess[s].vlans : m[2] # v.name}
VlanGone(s, v) ==
  /\ v.ifs
  /\ \A m \in LeaveVlan(s, v) : m[1] # VlanOf[v.comp]

removeVM_vlans(c, s, v, next) ==
  /\ sess' = [sess EXCEPT ![s].vlans = LeaveVlan(s, v)]
  /\ bridges' = IF VlanGone(s, v) THEN bridges \ {VlanOf[v.comp]} ELSE bridges
  /\ Goto(c, next)

releaseVMname(v, ok) ==
  /\ in_use' = IF ok THEN [in_use EXCEPT ![v.name] = FALSE] ELSE in_use
  /\ defined' = defined \ {v.name}

(* refresh_req with an experiment: session_manager::deleteVM, which holds  *)
(* session_lock while it removes the VM.  Without one the server reboots.  *)
deleteVM_look(c) ==
  /\ req[c].pc = "refresh" /\ lock = None
  /\ LET s == getSession(c)
     IN IF s = None THEN Answer(c, TRUE, None)
        ELSE /\ req' = [req EXCEPT ![c].pc = "delete", ![c].sptr = s]
             /\ UNCHANGED stage
  /\ UNCHANGED <<in_use, active, sess, lock, defined, bridges, crashed>>

deleteVM_lock(c) ==
  LET s == req[c].sptr
      v == getVM(s, c)
  IN /\ req[c].pc = "delete" /\ lock = None
     /\ lock' = c
     /\ IF v = NoVm
        THEN Goto(c, "removed") /\ UNCHANGED <<sess, bridges>>
        ELSE removeVM_vlans(c, s, v, "undefine")
     /\ UNCHANGED <<in_use, active, stage, defined, crashed>>

deleteVM_undefine(c) ==
  LET s == req[c].sptr
      v == getVM(s, c)
  IN /\ req[c].pc = "undefine"
     /\ \E ok \in BOOLEAN :
          /\ CanSucceed(v, ok)
          /\ releaseVMname(v, ok)
          /\ sess' = IF ok THEN [sess EXCEPT ![s].vms = RemoveFirst(@, v)] ELSE sess
          /\ req' = [req EXCEPT ![c].ok = ok, ![c].pc = "removed"]
     /\ UNCHANGED <<active, lock, stage, bridges, crashed>>

(* With its last VM the session leaves the list.                           *)
(* Mutant: with any VM.                                                    *)
SessionEmptyMut(s, ok) == ok
SessionEmpty(s, ok) == ok /\ sess[s].vms = <<>>

deleteVM_done(c) ==
  LET s == req[c].sptr
  IN /\ req[c].pc = "removed"
     /\ active' = IF SessionEmpty(s, req[c].ok) THEN RemoveFirst(active, s) ELSE active
     /\ lock' = None
     /\ Answer(c, TRUE, s)
     /\ UNCHANGED <<in_use, sess, defined, bridges, crashed>>

-----------------------------------------------------------------------------
(* The request is deleted, and with the last pointer its session, whose    *)
(* destructor clears it: clear() removes the first VM and then pops        *)
(* another one off the list.                                               *)
LastPointer(c, s) ==
  /\ s # None
  /\ ~\E i \in DOMAIN active : active[i] = s
  /\ \A d \in Comps \ {c} : req[d].sptr # s

drop(c) ==
  LET s == req[c].sptr
  IN /\ req[c].pc = "drop"
     /\ IF ~LastPointer(c, s)
        THEN req' = [req EXCEPT ![c] = Idle] /\ UNCHANGED <<sess, bridges>>
        ELSE IF sess[s].vms = <<>>
        THEN /\ sess' = [sess EXCEPT ![s] = NoSess]
             /\ req' = [req EXCEPT ![c] = Idle]
             /\ UNCHANGED bridges
        ELSE removeVM_vlans(c, s, Head(sess[s].vms), "clear")
     /\ UNCHANGED <<in_use, active, lock, stage, defined, crashed>>

clear(c) ==
  LET s == req[c].sptr
      v == Head(sess[s].vms)
  IN /\ req[c].pc = "clear"
     /\ \E ok \in BOOLEAN :
          /\ CanSucceed(v, ok)
          /\ releaseVMname(v, ok)
          /\ IF ok /\ Len(sess[s].vms) = 1
             THEN \* pop_front of an empty list
                  /\ crashed' \in BOOLEAN
                  /\ sess' = [sess EXCEPT ![s].vms = <<>>]
             ELSE /\ sess' = [sess EXCEPT ![s].vms =
                       SubSeq(@, IF ok THEN 3 ELSE 2, Len(@))]
                  /\ UNCHANGED crashed
     /\ Goto(c, "drop")
     /\ UNCHANGED <<active, lock, stage, bridges>>

-----------------------------------------------------------------------------
Request(c) == \E op \in {"start", "configure", "end", "refresh"} : Receive(c, op)
Step(c) ==
  /\ ~crashed
  /\ \/ addSession_look(c) \/ addSession_push(c) \/ addVM(c) \/ addVM_link(c)
     \/ configureVM(c) \/ end_configure_node_req(c)
     \/ startVM(c) \/ startVM_script(c)
     \/ deleteVM_look(c) \/ deleteVM_lock(c) \/ deleteVM_undefine(c)
     \/ deleteVM_done(c) \/ drop(c) \/ clear(c)
Next == \E c \in Comps : Request(c) \/ Step(c)
Spec == Init /\ [][Next]_vars

-----------------------------------------------------------------------------
(* The VM objects there are: in the lists, and in the hands of a thread.   *)
Held ==
  {<<c, req[c].vm.name>> : c \in {d \in Comps : req[d].pc \in {"link", "startVM", "script"}}}
  \cup UNION {{<<sess[s].vms[i].comp, sess[s].vms[i].name>> :
                 i \in DOMAIN sess[s].vms} : s \in Sids}

(* A VM whose configuration was answered Fine is found when it ends,       *)
(* whatever the other VMs of the experiment do in between: their removal   *)
(* never takes the session along (session_manager::deleteVM).              *)
ConfiguredIsFound ==
  ~crashed => \A c \in Comps : stage[c] = "configured" /\ req[c].pc = "end" =>
                 getSession(c) # None /\ getVM(getSession(c), c) # NoVm

(* No two VMs have the same name, whichever sessions they are in and       *)
(* whatever the races on the sessions lose (session_manager::assignVM).     *)
OneVmPerName ==
  \A v, w \in Held : v[2] = w[2] => v = w

(* A VM that virsh knows has a name that is not given out again            *)
(* (session::removeVM releases it only after the undefine script).         *)
RunningNameTaken == \A n \in defined : in_use[n]
=============================================================================
