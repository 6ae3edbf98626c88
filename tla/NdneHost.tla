------------------------------ MODULE NdneHost ------------------------------
(***************************************************************************)
(* The daemon of the hosts of the NDN-over-ethernet experiments            *)
(* (src/pc1core/ndnether_host): the code of host_filters under another     *)
(* name, except that a port always gets its default qdisc and never a      *)
(* route, and that a filter's prefix may not start with 0.                 *)
(***************************************************************************)
EXTENDS Naturals, Sequences

CONSTANTS Threads, Ports, NicOf, NicRate, Rates, Qids, Matches, BadMatches,
          UseRoute, MaxMark, MaxFaults

VARIABLES nicRate, portTable, filters, next_mark, kernel, thr, faults, lost

vars == <<nicRate, portTable, filters, next_mark, kernel, thr, faults, lost>>

R == INSTANCE HostFilters WITH Variant <- "ndne"

(* The node and its ports                                                  *)
Init == R!Init
PortScript(p, mark) == R!PortScript(p, mark)
HostPort(p, rate, nh) == R!HostPort(p, rate, nh)
configure_node_req(t) == R!configure_node_req(t)
set_port_rate_req(t) == R!set_port_rate_req(t)

(* Routes: as on the other hosts.                                            *)
add_route(p) == R!add_route(p)
delete_route == R!delete_route
add_route_req(t) == R!add_route_req(t)
delete_route_req(t) == R!delete_route_req(t)

(* Filters                                                                 *)
get_filter(m, drop) == R!get_filter(m, drop)
QueueInUse(p, q) == R!QueueInUse(p, q)
IptablesCommands(verb, f) == R!IptablesCommands(verb, f)
TcFilterCommand(verb, f) == R!TcFilterCommand(verb, f)
IpRuleCommand(verb, f) == R!IpRuleCommand(verb, f)
filter_command(verb, f) == R!filter_command(verb, f)
add_filter(t, m, drop, out, q) == R!add_filter(t, m, drop, out, q)
del_filter(t, m, drop) == R!del_filter(t, m, drop)
filter_stats(t, m, drop) == R!filter_stats(t, m, drop)
filter_req(t) == R!filter_req(t)

(* Queues and delays                                                       *)
add_queue(p, q, change) == R!add_queue(p, q, change)
delete_queue(p, q) == R!delete_queue(p, q)
add_netem_queue(p, q) == R!add_netem_queue(p, q)
delete_netem_queue(p, q) == R!delete_netem_queue(p, q)
add_delay_port(p) == R!add_delay_port(p)
delete_delay_port(p) == R!delete_delay_port(p)
set_queue_params_req(t) == R!set_queue_params_req(t)
add_delay_req(t) == R!add_delay_req(t)
delete_delay_req(t) == R!delete_delay_req(t)

(* Monitoring                                                              *)
read_stats(k, p, q) == R!read_stats(k, p, q)
read_stats_class(k, p, q) == R!read_stats_class(k, p, q)
read_link_stats(p) == R!read_link_stats(p)
read_stats_pkts(p, q, class) == R!read_stats_pkts(p, q, class)
read_stats_bytes(p, q, class) == R!read_stats_bytes(p, q, class)
read_stats_qlength(p, q, class) == R!read_stats_qlength(p, q, class)
read_stats_drops(p, q, class) == R!read_stats_drops(p, q, class)
read_stats_backlog(p, q, class) == R!read_stats_backlog(p, q, class)
get_tx_pkt_req(t) == R!get_tx_pkt_req(t)
get_tx_kbits_req(t) == R!get_tx_kbits_req(t)
get_queue_len_req(t) == R!get_queue_len_req(t)
get_drops_req(t) == R!get_drops_req(t)
get_backlog_req(t) == R!get_backlog_req(t)
get_link_tx_pkt_req(t) == R!get_link_tx_pkt_req(t)
get_link_rx_pkt_req(t) == R!get_link_rx_pkt_req(t)
get_link_tx_kbits_req(t) == R!get_link_tx_kbits_req(t)
get_link_rx_kbits_req(t) == R!get_link_rx_kbits_req(t)
get_link_tx_drops_req(t) == R!get_link_tx_drops_req(t)
get_link_rx_drops_req(t) == R!get_link_rx_drops_req(t)
get_link_tx_errors_req(t) == R!get_link_tx_errors_req(t)
get_link_rx_errors_req(t) == R!get_link_rx_errors_req(t)
system_cmd(t) == R!system_cmd(t)
Respond(t) == R!Respond(t)

----------------------------------------------------------------------------
Request(t) ==
  \/ configure_node_req(t) \/ set_port_rate_req(t)
  \/ add_route_req(t) \/ delete_route_req(t)
  \/ filter_req(t) \/ set_queue_params_req(t)
  \/ add_delay_req(t) \/ delete_delay_req(t)
  \/ get_tx_pkt_req(t) \/ get_tx_kbits_req(t) \/ get_queue_len_req(t)
  \/ get_drops_req(t) \/ get_backlog_req(t)
  \/ get_link_tx_pkt_req(t) \/ get_link_rx_pkt_req(t)
  \/ get_link_tx_kbits_req(t) \/ get_link_rx_kbits_req(t)
  \/ get_link_tx_drops_req(t) \/ get_link_rx_drops_req(t)
  \/ get_link_tx_errors_req(t) \/ get_link_rx_errors_req(t)

Step(t) == system_cmd(t) \/ Respond(t)

Next == \E t \in Threads : Request(t) \/ Step(t)

Spec == Init /\ [][Next]_vars
=============================================================================
