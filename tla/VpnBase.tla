------------------------------- MODULE VpnBase -------------------------------
(***************************************************************************)
(* The daemon of the VPN node (src/onlvpn_base), which attaches external   *)
(* devices to experiments.  Sessions and devices are managed by the code   *)
(* of vmbase with the VM replaced by a device: what is the same is the     *)
(* definition of VmBase.  New are the routes of a device, which the RLI    *)
(* adds and deletes once the crd has reported the device up.               *)
(***************************************************************************)
EXTENDS Naturals, Sequences

CONSTANTS Comps, ExpOf, VlanOf, MaxNames, AddrOf, Sids

VARIABLES in_use, active, sess, lock, req, stage, defined, bridges, crashed,
          rli,      \* the RLI's request to each device
          routes,   \* devices with the (one) route in their kernel table
          conf      \* devices with the route in their client configuration

base == <<in_use, active, sess, lock, req, stage, defined, bridges, crashed>>
vars == <<base, rli, routes, conf>>

B == INSTANCE VmBase WITH Variant <- "vpn"

(* Sessions and devices                                                    *)
Init ==
  /\ B!Init
  /\ rli = [c \in Comps |-> "idle"]
  /\ routes = {}
  /\ conf = {}
getSession(c) == B!getSession(c)
addSession_look(c) == B!addSession_look(c)
addSession_push(c) == B!addSession_push(c)
getDev(s, c) == B!getVM(s, c)
addDev(c) == B!addVM(c)
addDev_link(c) == B!addVM_link(c)
configureDev(c) == B!configureVM(c)
end_configure_node_req(c) == B!end_configure_node_req(c)
startDev(c) == B!startVM(c)
startDev_script(c) == B!startVM_script(c)
removeDev_vlans(c, s, v, next) == B!removeVM_vlans(c, s, v, next)
deleteDev_look(c) == B!deleteVM_look(c)
deleteDev_lock(c) == B!deleteVM_lock(c)
(* The device's client configuration is cleared, and with its vlan the      *)
(* routing table is flushed.                                               *)
deleteDev_undefine(c) == B!deleteVM_undefine(c)
deleteDev_done(c) == B!deleteVM_done(c)
drop(c) == B!drop(c)
clear(c) == B!clear(c)

Cleared(c) == req[c].pc = "undefine" /\ req'[c].pc = "removed"
DevStep(c) ==
  /\ ~crashed
  /\ \/ addSession_look(c) \/ addSession_push(c) \/ addDev(c) \/ addDev_link(c)
     \/ configureDev(c) \/ end_configure_node_req(c) \/ startDev(c)
     \/ startDev_script(c) \/ deleteDev_look(c) \/ deleteDev_lock(c)
     \/ deleteDev_undefine(c) \/ deleteDev_done(c) \/ drop(c) \/ clear(c)
  /\ conf' = IF Cleared(c) THEN conf \ {c} ELSE conf
  /\ routes' = IF Cleared(c) /\ VlanOf[c] \notin bridges' THEN routes \ {c}
               ELSE routes
  /\ UNCHANGED rli

-----------------------------------------------------------------------------
(* add_route and delete_route: look the device up, run the kernel's script *)
(* and then, under route_lock, the one for the client configuration, whose *)
(* failure is only logged.                                                 *)
RouteRequest(c, op) ==
  /\ ~crashed /\ rli[c] = "idle" /\ stage[c] = "up"
  /\ rli' = [rli EXCEPT ![c] = op]
  /\ UNCHANGED <<base, routes, conf>>

Lookup(c) ==
  /\ ~crashed /\ lock = "none" /\ rli[c] \in {"add", "delete"}
  /\ LET s == getSession(c)
         v == IF s = "none" THEN B!NoVm ELSE getDev(s, c)
     IN IF v = B!NoVm \/ ~v.ifs
        THEN rli' = [rli EXCEPT ![c] = "idle"]              \* Failed
        ELSE rli' = [rli EXCEPT ![c] = IF @ = "add" THEN "kadd" ELSE "kdel"]
  /\ UNCHANGED <<base, routes, conf>>

add_route(c) ==
  /\ ~crashed /\ rli[c] = "kadd"
  /\ \/ /\ routes' = routes \cup {c}
        /\ rli' = [rli EXCEPT ![c] = "cadd"]
     \/ /\ rli' = [rli EXCEPT ![c] = "idle"]                \* Failed
        /\ UNCHANGED routes
  /\ UNCHANGED <<base, conf>>

delete_route(c) ==
  /\ ~crashed /\ rli[c] = "kdel"
  /\ \/ /\ routes' = routes \ {c}
        /\ rli' = [rli EXCEPT ![c] = "cdel"]
     \/ /\ rli' = [rli EXCEPT ![c] = "idle"]
        /\ UNCHANGED routes
  /\ UNCHANGED <<base, conf>>

conf_client(c) ==
  /\ ~crashed /\ rli[c] \in {"cadd", "cdel"}
  /\ \/ conf' = IF rli[c] = "cadd" THEN conf \cup {c} ELSE conf \ {c}
     \/ UNCHANGED conf
  /\ rli' = [rli EXCEPT ![c] = "idle"]
  /\ UNCHANGED <<base, routes>>

Request(c) ==
  \/ /\ \E op \in {"start", "configure", "end", "refresh"} : B!Receive(c, op)
     /\ UNCHANGED <<rli, routes, conf>>
  \/ \E op \in {"add", "delete"} : RouteRequest(c, op)
Step(c) == DevStep(c) \/ Lookup(c) \/ add_route(c) \/ delete_route(c) \/ conf_client(c)
Next == \E c \in Comps : Request(c) \/ Step(c)
Spec == Init /\ [][Next]_vars

(* As for VMs: a device whose configuration was answered Fine is found     *)
(* when its configuration ends (session_manager::deleteDev).                *)
ConfiguredIsFound == B!ConfiguredIsFound
=============================================================================
