----------------------------- MODULE HostDaemons -----------------------------
(***************************************************************************)
(* The daemons of the hosts with more cores (src/pc8core/host and          *)
(* src/pc48core/host): copies of pc1core's, the last with a second port;   *)
(* and the part of the CCNx router's daemon (src/ccnx_router/host) that is *)
(* a host's.                                                               *)
(***************************************************************************)
EXTENDS Naturals

CONSTANTS Ports, Prefixes

VARIABLES nic, routes, cfg, rli, acked

vars == <<nic, routes, cfg, rli, acked>>

P8 == INSTANCE HostDaemon WITH Variant <- "pc8core"
P48 == INSTANCE HostDaemon WITH Variant <- "pc48core"
CR == INSTANCE HostDaemon WITH Variant <- "ccnx"

pc8_max_port == P8!max_port
pc8_init == P8!Init
pc8_configure(p, nh) == P8!Configure(p, nh)
pc8_set_port_info == P8!set_port_info
pc8_default_route == P8!default_route
pc8_system_cmd(ok) == P8!system_cmd(ok)
pc8_add_route(x) == P8!add_route(x)
pc8_delete_route(x) == P8!delete_route(x)
pc8_add_route_req(x, p) == P8!Route(x, "add", p)
pc8_delete_route_req(x, p) == P8!Route(x, "delete", p)

pc48_max_port == P48!max_port
pc48_init == P48!Init
pc48_configure(p, nh) == P48!Configure(p, nh)
pc48_set_port_info == P48!set_port_info
pc48_default_route == P48!default_route
pc48_system_cmd(ok) == P48!system_cmd(ok)
pc48_add_route(x) == P48!add_route(x)
pc48_delete_route(x) == P48!delete_route(x)
pc48_add_route_req(x, p) == P48!Route(x, "add", p)
pc48_delete_route_req(x, p) == P48!Route(x, "delete", p)

ccnx_max_port == CR!max_port
ccnx_init == CR!Init
ccnx_configure(p, nh) == CR!Configure(p, nh)
ccnx_set_port_info == CR!set_port_info
ccnx_default_route == CR!default_route
ccnx_system_cmd(ok) == CR!system_cmd(ok)
ccnx_add_route(x) == CR!add_route(x)
ccnx_delete_route(x) == CR!delete_route(x)
ccnx_add_route_req(x, p) == CR!Route(x, "add", p)
ccnx_delete_route_req(x, p) == CR!Route(x, "delete", p)

pc8_request ==
  \/ \E p \in Ports, nh \in BOOLEAN : pc8_configure(p, nh)
  \/ \E x \in Prefixes, p \in 0..pc8_max_port :
       pc8_add_route_req(x, p) \/ pc8_delete_route_req(x, p)
pc8_step ==
  \/ pc8_set_port_info \/ pc8_default_route
  \/ \E x \in Prefixes : pc8_add_route(x) \/ pc8_delete_route(x) \/ P8!Answer(x)

pc48_request ==
  \/ \E p \in Ports, nh \in BOOLEAN : pc48_configure(p, nh)
  \/ \E x \in Prefixes, p \in 0..pc48_max_port :
       pc48_add_route_req(x, p) \/ pc48_delete_route_req(x, p)
pc48_step ==
  \/ pc48_set_port_info \/ pc48_default_route
  \/ \E x \in Prefixes : pc48_add_route(x) \/ pc48_delete_route(x) \/ P48!Answer(x)

ccnx_request ==
  \/ \E p \in Ports, nh \in BOOLEAN : ccnx_configure(p, nh)
  \/ \E x \in Prefixes, p \in 0..ccnx_max_port :
       ccnx_add_route_req(x, p) \/ ccnx_delete_route_req(x, p)
ccnx_step ==
  \/ ccnx_set_port_info \/ ccnx_default_route
  \/ \E x \in Prefixes : ccnx_add_route(x) \/ ccnx_delete_route(x) \/ CR!Answer(x)
=============================================================================
