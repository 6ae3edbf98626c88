------------------------------ MODULE HostDaemon ------------------------------
(***************************************************************************)
(* The daemon of a plain host (src/pc1core/host; pc8core, pc48core and the *)
(* host part of ccnx_router are variants of it).  It configures the host's *)
(* ports and adds and deletes kernel routes with scripts.  The crd         *)
(* configures the ports; only then the RLI may send routes, one request at *)
(* a time for a prefix.                                                    *)
(***************************************************************************)
EXTENDS Naturals

CONSTANTS Variant,   \* "pc1core", "pc8core", "pc48core" or "ccnx"
          Ports,     \* port numbers in requests
          Prefixes   \* prefixes in requests; the thread of each

VARIABLES nic,       \* the ports' kernel configuration: TRUE if up
          routes,    \* the kernel's routes: <<prefix, port>>
          cfg,       \* the crd's request
          rli,       \* the RLI's request for each prefix
          acked      \* prefixes whose route was answered Fine

vars == <<nic, routes, cfg, rli, acked>>

max_port == IF Variant = "pc48core" THEN 1 ELSE 0
Default == "192.168"
NoCfg == [pc |-> "idle", port |-> 0, nh |-> FALSE]
NoRli == [pc |-> "idle", port |-> 0, ok |-> TRUE]

Init ==
  /\ nic = [p \in 0..max_port |-> FALSE]
  /\ routes = {}
  /\ cfg = NoCfg
  /\ rli = [x \in Prefixes |-> NoRli]
  /\ acked = {}

-----------------------------------------------------------------------------
(* configure_node_req: set_port_info and an answer that is always Fine.     *)
Configure(p, nh) ==
  /\ cfg.pc = "idle" /\ acked = {}
  /\ \A x \in Prefixes : rli[x].pc = "idle"
  /\ cfg' = [pc |-> "port", port |-> p, nh |-> nh]
  /\ UNCHANGED <<nic, routes, rli, acked>>

(* A port above the last is ignored.  onl_cfgport takes the nic down, which *)
(* drops its routes, and up again; whether it works is not looked at.      *)
set_port_info ==
  LET p == cfg.port
  IN /\ cfg.pc = "port"
     /\ IF p > max_port
        THEN cfg' = NoCfg /\ UNCHANGED <<nic, routes>>
        ELSE /\ \E up \in BOOLEAN : nic' = [nic EXCEPT ![p] = up]
             /\ routes' = {r \in routes : r[2] # p}
             /\ cfg' = [cfg EXCEPT !.pc = "default"]
     /\ UNCHANGED <<rli, acked>>

(* The route to all the testbed: hosts behind a router, except that ccnx   *)
(* has it the other way round.                                             *)
NeedsDefault == IF Variant = "ccnx" THEN ~cfg.nh ELSE cfg.nh

default_route ==
  /\ cfg.pc = "default"
  /\ \E ok \in BOOLEAN :
       /\ ok => nic[cfg.port]
       /\ routes' = IF NeedsDefault /\ ok THEN routes \cup {<<Default, cfg.port>>}
                    ELSE routes
  /\ cfg' = NoCfg                                        \* Fine
  /\ UNCHANGED <<nic, rli, acked>>

-----------------------------------------------------------------------------
(* add_route_req and delete_route_req: one script each; its status is the  *)
(* answer.                                                                 *)
Route(x, op, p) ==
  /\ rli[x].pc = "idle" /\ cfg.pc = "idle"
  /\ rli' = [rli EXCEPT ![x] = [pc |-> op, port |-> p, ok |-> TRUE]]
  /\ acked' = IF op = "delete" THEN acked \ {x} ELSE acked
  /\ UNCHANGED <<nic, routes, cfg>>

system_cmd(ok) == ok

add_route(x) ==
  /\ rli[x].pc = "add" /\ rli[x].port <= max_port
  /\ \E ok \in BOOLEAN :
       /\ ok => nic[rli[x].port]
       /\ routes' = IF ok THEN routes \cup {<<x, rli[x].port>>} ELSE routes
       /\ rli' = [rli EXCEPT ![x].ok = system_cmd(ok), ![x].pc = "added"]
  /\ UNCHANGED <<nic, cfg, acked>>

delete_route(x) ==
  /\ rli[x].pc = "delete"
  /\ \E ok \in BOOLEAN :
       /\ routes' = IF ok THEN {r \in routes : r[1] # x} ELSE routes
       /\ rli' = [rli EXCEPT ![x].ok = system_cmd(ok), ![x].pc = "deleted"]
  /\ UNCHANGED <<nic, cfg, acked>>

Answer(x) ==
  /\ rli[x].pc \in {"added", "deleted"}
  /\ acked' = IF rli[x].pc = "added" /\ rli[x].ok THEN acked \cup {x} ELSE acked
  /\ rli' = [rli EXCEPT ![x] = NoRli]
  /\ UNCHANGED <<nic, routes, cfg>>

Request ==
  \/ \E p \in Ports, nh \in BOOLEAN : Configure(p, nh)
  \/ \E x \in Prefixes, op \in {"add", "delete"}, p \in 0..max_port : Route(x, op, p)
Step ==
  \/ set_port_info \/ default_route
  \/ \E x \in Prefixes : add_route(x) \/ delete_route(x) \/ Answer(x)
Next == Request \/ Step
Spec == Init /\ [][Next]_vars

(* A route that was answered Fine is in the kernel until it is deleted:    *)
(* failing scripts and requests for other prefixes do not change that.     *)
FineRouteIsThere == \A x \in acked : \E p \in 0..max_port : <<x, p>> \in routes
=============================================================================
