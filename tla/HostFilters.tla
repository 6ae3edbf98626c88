------------------------------ MODULE HostFilters ------------------------------
(***************************************************************************)
(* The daemon of hosts that filter and queue their own traffic             *)
(* (src/pc1core/host_filters).  Its classes were made from the router's:   *)
(* what is the same code is the definition of SwRouter, which the constant *)
(* Variant turns to the host's side of the few differences.                *)
(***************************************************************************)
EXTENDS Naturals, Sequences

CONSTANTS Threads, Ports, NicOf, NicRate, Rates, Qids, Matches, BadMatches,
          UseRoute, MaxMark, MaxFaults, Variant

VARIABLES nicRate, portTable, filters, next_mark, kernel, thr, faults, lost

vars == <<nicRate, portTable, filters, next_mark, kernel, thr, faults, lost>>

R == INSTANCE SwRouter

(* The node and its ports                                                  *)
Init == R!Init
PortScript(p, mark) == R!PortScript(p, mark)
HostPort(p, rate, nh) == R!HostPort(p, rate, nh)
configure_node_req(t) == R!configure_node_req(t)
set_port_rate_req(t) == R!set_port_rate_req(t)

(* Routes: only the main table, one prefix standing for all; a route is      *)
(* deleted by its prefix alone.                                            *)
MainRoute(verb) ==
  <<R!Cmd(verb, "route", <<R!Main, 0, FALSE>>, "throw", 1)>>
add_route(p) == MainRoute("add")
delete_route == MainRoute("del")
add_route_req(t) == \E p \in Ports : R!Call(t, add_route(p))
delete_route_req(t) == R!Call(t, delete_route)

(* Filters                                                                 *)
get_filter(m, drop) == R!get_filter(m, drop)
QueueInUse(p, q) == R!QueueInUse(p, q)
IptablesCommands(verb, f) == R!IptablesCommands(verb, f)
TcFilterCommand(verb, f) == R!TcFilterCommand(verb, f)
IpRuleCommand(verb, f) == R!IpRuleCommand(verb, f)
filter_command(verb, f) == R!filter_command(verb, f)
add_filter(t, m, drop, out, q) == R!add_filter(t, m, drop, out, q)
del_filter(t, m, drop) == R!del_filter(t, m, drop)
filter_stats(t, m, drop) == R!filter_stats(t, m, drop)
filter_req(t) == R!filter_req(t)

(* Queues and delays                                                       *)
add_queue(p, q, change) == R!add_queue(p, q, change)
delete_queue(p, q) == R!delete_queue(p, q)
add_netem_queue(p, q) == R!add_netem_queue(p, q)
delete_netem_queue(p, q) == R!delete_netem_queue(p, q)
add_delay_port(p) == R!add_delay_port(p)
delete_delay_port(p) == R!delete_delay_port(p)
set_queue_params_req(t) == R!set_queue_params_req(t)
add_delay_req(t) == R!add_delay_req(t)
delete_delay_req(t) == R!delete_delay_req(t)

(* Monitoring                                                              *)
read_stats(k, p, q) == R!read_stats(k, p, q)
read_stats_class(k, p, q) == R!read_stats_class(k, p, q)
read_link_stats(p) == R!read_link_stats(p)
read_stats_pkts(p, q, class) == R!read_stats_pkts(p, q, class)
read_stats_bytes(p, q, class) == R!read_stats_bytes(p, q, class)
read_stats_qlength(p, q, class) == R!read_stats_qlength(p, q, class)
read_stats_drops(p, q, class) == R!read_stats_drops(p, q, class)
read_stats_backlog(p, q, class) == R!read_stats_backlog(p, q, class)
get_tx_pkt_req(t) == R!get_tx_pkt_req(t)
get_tx_kbits_req(t) == R!get_tx_kbits_req(t)
get_queue_len_req(t) == R!get_queue_len_req(t)
get_drops_req(t) == R!get_drops_req(t)
get_backlog_req(t) == R!get_backlog_req(t)
get_link_tx_pkt_req(t) == R!get_link_tx_pkt_req(t)
get_link_rx_pkt_req(t) == R!get_link_rx_pkt_req(t)
get_link_tx_kbits_req(t) == R!get_link_tx_kbits_req(t)
get_link_rx_kbits_req(t) == R!get_link_rx_kbits_req(t)
get_link_tx_drops_req(t) == R!get_link_tx_drops_req(t)
get_link_rx_drops_req(t) == R!get_link_rx_drops_req(t)
get_link_tx_errors_req(t) == R!get_link_tx_errors_req(t)
get_link_rx_errors_req(t) == R!get_link_rx_errors_req(t)
system_cmd(t) == R!system_cmd(t)
Respond(t) == R!Respond(t)

----------------------------------------------------------------------------
Request(t) ==
  \/ configure_node_req(t) \/ set_port_rate_req(t)
  \/ add_route_req(t) \/ delete_route_req(t)
  \/ filter_req(t) \/ set_queue_params_req(t)
  \/ add_delay_req(t) \/ delete_delay_req(t)
  \/ get_tx_pkt_req(t) \/ get_tx_kbits_req(t) \/ get_queue_len_req(t)
  \/ get_drops_req(t) \/ get_backlog_req(t)
  \/ get_link_tx_pkt_req(t) \/ get_link_rx_pkt_req(t)
  \/ get_link_tx_kbits_req(t) \/ get_link_rx_kbits_req(t)
  \/ get_link_tx_drops_req(t) \/ get_link_rx_drops_req(t)
  \/ get_link_tx_errors_req(t) \/ get_link_rx_errors_req(t)

Step(t) == system_cmd(t) \/ Respond(t)

Next == \E t \in Threads : Request(t) \/ Step(t)

Spec == Init /\ [][Next]_vars
=============================================================================
