------------------------------ MODULE SwRouter ------------------------------
(***************************************************************************)
(* The daemon of the software router (src/swrouter) and, through the       *)
(* constant Variant, the daemons of the hosts that filter and queue        *)
(* traffic (src/pc1core/host_filters, src/pc1core/ndnether_host), whose    *)
(* code descends from it; HostFilters and NdneHost name their parts.       *)
(*                                                                         *)
(* A request is served by a thread of its own.  What it does to the node   *)
(* it does with shell commands, one at a time: a handler is therefore a    *)
(* script, the sequence of the commands still to run, and the threads of   *)
(* several requests run their scripts interleaved.  The kernel's tables    *)
(* are external: a command adds, deletes or changes one object of them.    *)
(***************************************************************************)
EXTENDS Naturals, Sequences, FiniteSets, Bags, FiniteSetsExt

CONSTANTS
  Variant,      \* "swr", "hostf" or "ndne": whose code it is
  Threads,      \* the threads that serve requests
  Ports,        \* port numbers, a set of naturals with 0 in it
  NicOf,        \* the nic (getRealPort) the crd names for a port
  NicRate,      \* the bandwidth of a nic
  Rates,        \* the rates a request asks for
  Qids,         \* queue ids a request names; 1 is the default queue
  Matches,      \* what a filter matches: prefixes, protocol, ports, flags
  BadMatches,   \* those of them whose prefix the daemon refuses
  UseRoute,     \* the output port "use route"
  MaxMark,      \* bound: no mark is given out from here on
  MaxFaults     \* bound on the commands that fail by themselves

VARIABLES
  nicRate,      \* nicTable[].rate: bandwidth left on a nic
  portTable,    \* portTable[]: configured, rate, max_rate, mark
  filters,      \* the list of filters
  next_mark,
  kernel,       \* external: iptables rules (a bag) and the other tables
  thr,          \* the script each thread still has to run
  faults,       \* history: commands that failed by themselves
  lost          \* history: one of them was not tried again

vars == <<nicRate, portTable, filters, next_mark, kernel, thr, faults, lost>>

Nics == {NicOf[p] : p \in Ports}
FirstMark == 10
Outs == Ports \cup {UseRoute}
NoFilter == [match |-> "none"]
Main == <<"main", 0>>
Idle == [todo |-> <<>>, fin |-> "idle", f |-> NoFilter]

----------------------------------------------------------------------------
(* The kernel's tables.  A class or a qdisc is named by its port and by    *)
(* the class number that tc stored, a filter of tc by port, mark and       *)
(* class, a rule by mark and table.                                        *)

(* tc reads the decimal digits the daemon prints as hexadecimal ones.      *)
TcId(n) == IF n < 10 THEN n ELSE (16 * (n \div 10)) + (n % 10)

ClassId(p, q) == <<TcId(p + 1), TcId(q)>>

Holds(k, kind, id) == <<kind, id>> \in k.objs

(* A command succeeds when the object is there to delete or to change, or  *)
(* not yet there to add; a qdisc needs its class, and a class that a tc    *)
(* filter is bound to cannot be deleted.                                   *)
CanApply(k, c) ==
  CASE c.kind = "iptables" -> c.verb = "del" => BagIn(c.id, k.ipt)
    [] c.kind = "script"   -> \A o \in c.id : o \notin k.objs
    [] c.kind = "none"     -> TRUE
    [] OTHER ->
         /\ Holds(k, c.kind, c.id) <=> c.verb # "add"
         /\ c.kind = "qdisc" /\ c.verb = "add" => Holds(k, "class", c.id)
         /\ c.kind = "class" /\ c.verb = "del" =>
              \A o \in k.objs : o[1] = "tcfilter" => o[2].flow # c.id

(* Deleting a class deletes its qdisc.                                     *)
Apply(k, c) ==
  IF c.kind = "script" THEN [k EXCEPT !.objs = @ \cup c.id]
  ELSE IF c.kind = "iptables"
  THEN CASE c.verb = "add" -> [k EXCEPT !.ipt = @ (+) SetToBag({c.id})]
         [] c.verb = "del" -> [k EXCEPT !.ipt = @ (-) SetToBag({c.id})]
  ELSE CASE c.verb = "add" -> [k EXCEPT !.objs = @ \cup {<<c.kind, c.id>>}]
         [] c.verb = "del" ->
              [k EXCEPT !.objs = @ \ ({<<c.kind, c.id>>} \cup
                  (IF c.kind = "class" THEN {<<"qdisc", c.id>>} ELSE {}))]
         [] OTHER -> k

(* A command: chk says what the code does with its exit status: "throw"    *)
(* unless it is zero, "negative" throws only when system() itself failed,  *)
(* "ignore", and "else" runs the next command only if this one failed.     *)
Cmd(verb, kind, id, chk, tries) ==
  [verb |-> verb, kind |-> kind, id |-> id, chk |-> chk, tries |-> tries]

(* A command run by a thread, with or without success.  One may also fail *)
(* by itself: iptables does while another process holds its lock.          *)
system_cmd(t) ==
  LET c == Head(thr[t].todo)
      rest == Tail(thr[t].todo)
      Goto(s) == thr' = [thr EXCEPT ![t].todo = s]
      Throw == thr' = [thr EXCEPT ![t] = Idle]
  IN  /\ thr[t].todo # <<>>
      /\ \/ /\ CanApply(kernel, c)
            /\ kernel' = Apply(kernel, c)
            /\ Goto(IF c.chk = "else" THEN Tail(rest) ELSE rest)
            /\ UNCHANGED <<faults, lost>>
         \/ \E fault \in BOOLEAN :
              /\ fault = CanApply(kernel, c)
              /\ fault => faults < MaxFaults /\ c.verb # "read"
              /\ faults' = IF fault THEN faults + 1 ELSE faults
              /\ lost' = (lost \/ (fault /\ c.tries = 1))
              /\ UNCHANGED kernel
              /\ \/ /\ c.tries > 1
                    /\ Goto(<<[c EXCEPT !.tries = @ - 1]>> \o rest)
                 \/ /\ c.tries = 1 /\ c.chk = "throw"
                    /\ Throw
                 \/ /\ c.tries = 1 /\ c.chk = "negative" /\ fault
                    /\ Throw
                 \/ /\ c.tries = 1 /\ c.chk # "throw"
                    /\ Goto(rest)
      /\ UNCHANGED <<nicRate, portTable, filters, next_mark>>

----------------------------------------------------------------------------
(* Ports                                                                   *)

Init ==
  /\ nicRate = [n \in Nics |-> NicRate]
  /\ portTable = [p \in Ports |->
       [configured |-> FALSE, rate |-> 0, max_rate |-> 0, mark |-> 0]]
  /\ filters = <<>>
  /\ next_mark = FirstMark
  /\ kernel = [ipt |-> EmptyBag, objs |-> {}]
  /\ thr = [t \in Threads |-> Idle]
  /\ faults = 0
  /\ lost = FALSE

Run(t, todo, fin, f) ==
  /\ thr[t].fin = "idle"
  /\ thr' = [thr EXCEPT ![t] = [todo |-> todo, fin |-> fin, f |-> f]]

(* A handler whose call threw before its first command, or ran none,       *)
(* answers and is gone.                                                    *)
Call(t, todo) ==
  /\ Run(t, todo, "answer", NoFilter)
  /\ UNCHANGED <<nicRate, portTable, filters, next_mark, kernel, faults, lost>>

get_next_mark == next_mark' = next_mark + 1

(* The script that sets a port up: its root class, its default class, and  *)
(* the filter that sends the port's own mark to the default class.         *)
PortScript(p, mark) ==
  Cmd("add", "script", {<<"class", ClassId(p, 0)>>, <<"class", ClassId(p, 1)>>,
      <<"tcfilter", [mark |-> mark, flow |-> ClassId(p, 1)]>>}, "throw", 1)

DefaultQdisc(p) == Cmd("add", "qdisc", ClassId(p, 1), "throw", 1)

SwrPortMut(p, rate, nh) ==
  [refuse |-> rate > nicRate[NicOf[p]],
   taken  |-> IF portTable[p].configured THEN rate ELSE 0,
   todo   |-> IF portTable[p].configured THEN <<>>
              ELSE <<PortScript(p, next_mark), DefaultQdisc(p)>>]

(* The nic's bandwidth is taken also for a port that is configured again.  *)
SwrPort(p, rate, nh) ==
  [refuse |-> rate > nicRate[NicOf[p]],
   taken  |-> rate,
   todo   |-> IF portTable[p].configured THEN <<>>
              ELSE <<PortScript(p, next_mark),
                     Cmd("add", "route", <<<<"filters", p>>, p, TRUE>>, "throw", 1),
                     DefaultQdisc(p)>>]

(* A host's nic is its port's own; a port without a next hop gets neither  *)
(* the route nor the default qdisc (host_filters).                         *)
HostPort(p, rate, nh) ==
  [refuse |-> portTable[p].configured,
   taken  |-> 0,
   todo   |-> <<PortScript(p, next_mark)>> \o
              (CASE Variant = "ndne" -> <<DefaultQdisc(p)>>
                 [] Variant = "hostf" /\ nh ->
                      <<Cmd("add", "route", <<Main, p, FALSE>>, "throw", 1),
                        DefaultQdisc(p)>>
                 [] OTHER -> <<>>)]

configure_port(p, rate, nh) ==
  IF Variant = "swr" THEN SwrPort(p, rate, nh) ELSE HostPort(p, rate, nh)

(* The crd configures the ports of a node one after the other.             *)
configure_node_req(t) ==
  \E p \in Ports, rate \in Rates, nh \in BOOLEAN :
    LET c == configure_port(p, rate, nh)
    IN  /\ \A u \in Threads : thr[u].fin # "configure"
        /\ ~c.refuse /\ next_mark < MaxMark
        /\ nicRate' = [nicRate EXCEPT ![NicOf[p]] = @ - c.taken]
        /\ get_next_mark
        /\ portTable' = [portTable EXCEPT ![p] =
             [configured |-> TRUE, rate |-> rate, max_rate |-> rate,
              mark |-> next_mark]]
        /\ Run(t, c.todo, "configure", NoFilter)
        /\ UNCHANGED <<filters, kernel, faults, lost>>

set_port_rate_req(t) ==
  \E p \in Ports, rate \in Rates :
    LET change(q) == Cmd("change", "class", ClassId(p, q), "throw", 1)
    IN  /\ portTable[p].configured /\ rate <= portTable[p].max_rate
        /\ portTable' = [portTable EXCEPT ![p].rate = rate]
        /\ Run(t, <<change(0), change(1)>>, "answer", NoFilter)
        /\ UNCHANGED <<nicRate, filters, next_mark, kernel, faults, lost>>

----------------------------------------------------------------------------
(* Routes: of the main table or of a port's own, with or without a         *)
(* gateway.  The handlers of the router call the forms with one.           *)

Route(verb, table, p, gw) ==
  <<Cmd(verb, "route", <<table, p, gw>>, "throw", 1)>>
add_route_main(p) == Route("add", Main, p, FALSE)
add_route_main_gw(p) == Route("add", Main, p, TRUE)
add_route_port(table, p) == Route("add", table, p, FALSE)
add_route_port_gw(table, p) == Route("add", table, p, TRUE)
del_route_main(p) == Route("del", Main, p, FALSE)
del_route_main_gw(p) == Route("del", Main, p, TRUE)
del_route_port(table, p) == Route("del", table, p, FALSE)
del_route_port_gw(table, p) == Route("del", table, p, TRUE)

add_route_main_req(t) == \E p \in Ports : Call(t, add_route_main_gw(p))
del_route_main_req(t) == \E p \in Ports : Call(t, del_route_main_gw(p))
add_route_port_req(t) == \E p, q \in Ports : Call(t, add_route_port_gw(<<"routes", q>>, p))
del_route_port_req(t) == \E p, q \in Ports : Call(t, del_route_port_gw(<<"routes", q>>, p))

----------------------------------------------------------------------------
(* Filters                                                                 *)

(* The first filter of the list that matches the same packets, if any.     *)
get_filter(m, drop) ==
  LET hits == {i \in DOMAIN filters :
                 filters[i].match = m /\ filters[i].drop = drop}
  IN  IF hits = {} THEN NoFilter ELSE filters[Min(hits)]

QueueInUse(p, q) ==
  \E i \in DOMAIN filters : filters[i].out = p /\ filters[i].qid = q

IptablesCommandsMut(verb, f) ==
  LET cmd(ch) == Cmd(verb, "iptables", [chain |-> ch, match |-> f.match,
                                        mark |-> f.mark], "throw", 1)
  IN  IF verb = "add" THEN <<cmd("PREROUTING"), cmd("FORWARD")>>
                      ELSE <<cmd("PREROUTING")>>

(* The two entries of iptables, each tried three times.  The hosts mark    *)
(* what they send, the router what it forwards.                            *)
IptablesCommands(verb, f) ==
  LET chains == IF Variant = "swr" THEN <<"PREROUTING", "FORWARD">>
                                   ELSE <<"mangle OUTPUT", "OUTPUT">>
      cmd(ch) == Cmd(verb, "iptables", [chain |-> ch, match |-> f.match,
                                        mark |-> f.mark], "throw", 3)
  IN  <<cmd(chains[1]), cmd(chains[2])>>

(* The queue: atoi of "use route" is port 0, which the comparison with     *)
(* another spelling does not exclude.                                      *)
TcFilterCommand(verb, f) ==
  LET op == IF f.out = UseRoute THEN 0 ELSE f.out
  IN  IF f.qid > 1 /\ portTable[op].configured
      THEN <<Cmd(verb, "tcfilter", [mark |-> f.mark,
                                    flow |-> ClassId(op, f.qid)], "negative", 1)>>
      ELSE <<>>

(* The routing rule; the router needs none to use the normal route, the    *)
(* hosts ask for a table that does not exist, which fails.                 *)
IpRuleCommand(verb, f) ==
  CASE f.drop -> <<Cmd(verb, "rule", <<f.mark, "drop", 0>>, "negative", 1)>>
    [] ~f.drop /\ f.out # UseRoute ->
         <<Cmd(verb, "rule", <<f.mark, "port", f.out>>, "negative", 1)>>
    [] OTHER -> <<>>

filter_command(verb, f) ==
  IptablesCommands(verb, f) \o TcFilterCommand(verb, f) \o IpRuleCommand(verb, f)

(* The filter enters the list after its last command.                      *)
add_filter(t, m, drop, out, q) ==
  LET f == [match |-> m, drop |-> drop, out |-> out, qid |-> q,
            mark |-> next_mark]
  IN  /\ next_mark < MaxMark
      /\ get_next_mark
      /\ IF m \in BadMatches THEN Run(t, <<>>, "answer", NoFilter)
                             ELSE Run(t, filter_command("add", f), "add", f)
      /\ UNCHANGED <<nicRate, portTable, filters, kernel, faults, lost>>

del_filter(t, m, drop) ==
  LET f == get_filter(m, drop)
  IN  /\ IF f = NoFilter THEN Run(t, <<>>, "answer", NoFilter)
                         ELSE Run(t, filter_command("del", f), "del", f)
      /\ UNCHANGED <<nicRate, portTable, filters, next_mark, kernel, faults, lost>>

(* Only for a filter that is there: the code uses what it found unchecked. *)
filter_stats(t, m, drop) ==
  /\ get_filter(m, drop) # NoFilter
  /\ Call(t, <<Cmd("read", "none", "filter", "negative", 1)>>)

filter_req(t) ==
  \E m \in Matches, drop \in BOOLEAN :
    \/ \E out \in Outs, q \in Qids : add_filter(t, m, drop, out, q)
    \/ del_filter(t, m, drop)
    \/ filter_stats(t, m, drop)

(* The end of a script: the list is changed under conf_lock, and the       *)
(* response sent.                                                          *)
Respond(t) ==
  /\ thr[t].fin # "idle" /\ thr[t].todo = <<>>
  /\ thr' = [thr EXCEPT ![t] = Idle]
  /\ filters' = CASE thr[t].fin = "add" -> Append(filters, thr[t].f)
                  [] thr[t].fin = "del" ->
                       SelectSeq(filters, LAMBDA g : g # thr[t].f)
                  [] OTHER -> filters
  /\ UNCHANGED <<nicRate, portTable, next_mark, kernel, faults, lost>>

----------------------------------------------------------------------------
(* Queues                                                                  *)

Qdisc(verb, p, q, chk) == Cmd(verb, "qdisc", ClassId(p, q), chk, 1)
Class(verb, p, q) == Cmd(verb, "class", ClassId(p, q), "throw", 1)

add_queue(p, q, change) ==
  IF change THEN <<Class("change", p, q)>>
            ELSE <<Class("add", p, q), Qdisc("add", p, q, "throw")>>

delete_queue(p, q) == <<Class("del", p, q)>>

add_netem_queue(p, q) ==
  <<Qdisc("del", p, q, "ignore"), Qdisc("add", p, q, "throw")>>

delete_netem_queue(p, q) ==
  <<Qdisc("del", p, q, "throw"), Qdisc("add", p, q, "ignore")>>

(* A queue comes with its delay, loss and so on when one is not zero (or,  *)
(* on a host, its length is not the default).                              *)
set_queue_params_req(t) ==
  \E p \in Ports, q \in Qids, netem \in BOOLEAN :
    /\ portTable[p].configured
    /\ \/ Call(t, add_queue(p, q, FALSE) \o
                  (IF netem THEN add_netem_queue(p, q) ELSE <<>>))
       \/ Call(t, add_queue(p, q, TRUE))
       \/ /\ q > 1 => ~QueueInUse(p, q)
          /\ Call(t, delete_queue(p, q))
       \/ Call(t, IF netem THEN add_netem_queue(p, q)
                           ELSE delete_netem_queue(p, q))

(* The delay of a whole port sits on its default queue.                    *)
add_delay_port(p) == <<Qdisc("add", p, 1, "else"), Qdisc("change", p, 1, "throw")>>
delete_delay_port(p) == <<Qdisc("del", p, 1, "throw")>>

add_delay_req(t) ==
  \E p \in Ports : portTable[p].configured /\ Call(t, add_delay_port(p))
delete_delay_req(t) ==
  \E p \in Ports : portTable[p].configured /\ Call(t, delete_delay_port(p))

----------------------------------------------------------------------------
(* Monitoring.  A value is read from the qdisc of a queue, or from a class *)
(* or the link of a port; what fails to be found is looked for once more   *)
(* three seconds later.                                                    *)

LibnlIdMut(p, q) == <<p + 1, q>>

(* The reader's own conversion of the numbers that tc stored.              *)
LibnlId(p, q) == <<IF p > 8 THEN p + 7 ELSE p + 1, IF q > 9 THEN q + 6 ELSE q>>

read_stats(k, p, q) ==
  portTable[p].configured => q = 0 \/ Holds(k, "qdisc", LibnlId(p, q))
read_stats_class(k, p, q) ==
  portTable[p].configured => Holds(k, "class", LibnlId(p, q))
read_link_stats(p) == Cmd("read", "none", p, "throw", 1)

(* Requests about a class leave the queue id zero: the root class.         *)
Read(p, q, class, tries) ==
  IF ~portTable[p].configured THEN <<>>
  ELSE <<CASE class -> Cmd("read", "class", LibnlId(p, 0), "throw", tries)
           [] ~class /\ q = 0 -> Cmd("read", "none", p, "throw", tries)
           [] OTHER -> Cmd("read", "qdisc", LibnlId(p, q), "throw", tries)>>

read_stats_pkts(p, q, class) == Read(p, q, class, 2)
read_stats_bytes(p, q, class) == Read(p, q, class, 2)
read_stats_qlength(p, q, class) == Read(p, q, class, 2)
read_stats_drops(p, q, class) == Read(p, q, class, 2)
read_stats_backlog(p, q, class) == Read(p, q, class, 1)

Monitor(t, Reader(_, _, _)) ==
  \E p \in Ports, q \in Qids \cup {0}, class \in BOOLEAN :
    Call(t, Reader(p, IF class THEN 0 ELSE q, class))
MonitorLink(t) == \E p \in Ports :
  Call(t, IF portTable[p].configured THEN <<read_link_stats(p)>> ELSE <<>>)

get_tx_pkt_req(t) == Monitor(t, read_stats_pkts)
get_tx_kbits_req(t) == Monitor(t, read_stats_bytes)
get_queue_len_req(t) == Monitor(t, read_stats_qlength)
get_drops_req(t) == Monitor(t, read_stats_drops)
get_backlog_req(t) == Monitor(t, read_stats_backlog)
get_link_tx_pkt_req(t) == MonitorLink(t)
get_link_rx_pkt_req(t) == MonitorLink(t)
get_link_tx_kbits_req(t) == MonitorLink(t)
get_link_rx_kbits_req(t) == MonitorLink(t)
get_link_tx_drops_req(t) == MonitorLink(t)
get_link_rx_drops_req(t) == MonitorLink(t)
get_link_tx_errors_req(t) == MonitorLink(t)
get_link_rx_errors_req(t) == MonitorLink(t)

----------------------------------------------------------------------------
Request(t) ==
  \/ configure_node_req(t)
  \/ set_port_rate_req(t)
  \/ add_route_main_req(t)
  \/ del_route_main_req(t)
  \/ Variant = "swr" /\ add_route_port_req(t)
  \/ Variant = "swr" /\ del_route_port_req(t)
  \/ filter_req(t)
  \/ set_queue_params_req(t)
  \/ add_delay_req(t)
  \/ delete_delay_req(t)
  \/ get_tx_pkt_req(t)
  \/ get_tx_kbits_req(t)
  \/ get_queue_len_req(t)
  \/ get_drops_req(t)
  \/ get_backlog_req(t)
  \/ get_link_tx_pkt_req(t)
  \/ get_link_rx_pkt_req(t)
  \/ get_link_tx_kbits_req(t)
  \/ get_link_rx_kbits_req(t)
  \/ get_link_tx_drops_req(t)
  \/ get_link_rx_drops_req(t)
  \/ get_link_tx_errors_req(t)
  \/ get_link_rx_errors_req(t)

Step(t) == system_cmd(t) \/ Respond(t)

Next == \E t \in Threads : Request(t) \/ Step(t)

Spec == Init /\ [][Next]_vars

----------------------------------------------------------------------------
Quiet == \A t \in Threads : thr[t].fin = "idle"

PortMarks == {portTable[p].mark : p \in Ports}
FilterMarks == {filters[i].mark : i \in DOMAIN filters}

(* The variables have their types, marks are given out once, and no nic    *)
(* is left with less than nothing.                                         *)
TypeOK ==
  /\ nicRate \in [Nics -> 0 .. NicRate]
  /\ next_mark \in FirstMark .. MaxMark
  /\ \A p \in Ports : portTable[p].rate <= portTable[p].max_rate
  /\ Cardinality(FilterMarks) = Len(filters)
  /\ FilterMarks \cap PortMarks = {}
  /\ IsABag(kernel.ipt)
  /\ faults \in 0 .. MaxFaults

(* When no request is being served, iptables holds exactly the two entries *)
(* of every filter the daemon knows, and nothing in the other tables       *)
(* but a port's own filter carries a mark of none: whatever threads that   *)
(* added and deleted filters did at the same time, and although single     *)
(* calls of iptables failed (filter_command tries each three times).       *)
NoLeftoverRules ==
  Quiet /\ ~lost =>
    /\ BagCardinality(kernel.ipt) = 2 * Len(filters)
    /\ \A i \in DOMAIN filters, n \in 1 .. 2 :
         BagIn(IptablesCommands("add", filters[i])[n].id, kernel.ipt)
    /\ \A o \in kernel.objs :
         /\ o[1] = "tcfilter" => o[2].mark \in FilterMarks \/ o[2].flow[2] = 1
         /\ o[1] = "rule" => o[2][1] \in FilterMarks

(* Every queue that was added can be monitored: its class has a qdisc, and *)
(* the number the reader computes (read_stats) is the number under which   *)
(* tc stored it, also after its delay was set and reset by other threads.  *)
MonitorableQueues ==
  Quiet /\ ~lost =>
    \A p \in Ports, q \in Qids :
      q > 1 /\ Holds(kernel, "class", ClassId(p, q)) => read_stats(kernel, p, q)

(* The ports configured on a nic never get more than its bandwidth         *)
(* together, however often they are configured again (configure_port).     *)
NicNotOversubscribed ==
  Variant = "swr" =>
    \A n \in Nics :
      MapThenSumSet(LAMBDA p : portTable[p].max_rate,
                    {p \in Ports : NicOf[p] = n}) <= NicRate
=============================================================================
