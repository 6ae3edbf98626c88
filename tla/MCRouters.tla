------------------------------ MODULE MCRouters ------------------------------
(***************************************************************************)
(* The daemons of the routers for TLC.  The modules do not interact, so    *)
(* one run explores all of them side by side: MCInit chooses which daemon  *)
(* the behaviour is about, its module takes all the steps, and the         *)
(* variables of the others stay off.  The plugins' module is extended, not *)
(* instantiated, so that the run checks the definitions its theorems are   *)
(* about; in the other parts its variables keep their initial values.      *)
(* What the daemons are made of are constants, so that theorems can be     *)
(* about every value of them; so is MaxCalls, the bound on the requests of *)
(* the daemons whose module does not bound them itself.                    *)
(***************************************************************************)
EXTENDS NprPlugins, NprFields, Bags, TLC

CONSTANTS Parts,      \* the daemons explored
          SwThreads, SwPorts, SwNicOf, SwNicRate, SwRates, SwQids, SwMatches,
          SwBadMatches, SwUseRoute, SwMaxMark,                  \* the software router
          HostPorts, HostQids, HostMatches,                     \* the filtering hosts
          ParReqs, ParMaxPort, ParQidBits, ParQids, ParValues, ParRates, ParUnit,
          ParMaxIndex,                                          \* the NPR's parameters
          MaxCalls,   \* bound on the requests of a behaviour, by daemon
          MaxFaults,  \* bound on the failures of a behaviour
          Npus, Npu, MaxPrefix, PerClass, MaxPriority, FilterClass, NumArp, NumResults,
          DefPriority, Defaults, Filters, RliThreads, ArpThread   \* the NPR's tables

VARIABLES
  kind, calls,
  rthr, faults, lost,
  nicRate, portTable, filters, next_mark, kernel,
  conn, tcam_state, dbs, router, todo, free, sram, srmap, arpKnown,
  qparams, qfrom, prate, sample, answer

swVars == <<nicRate, portTable, filters, next_mark, kernel>>
tabVars == <<conn, tcam_state, dbs, router, todo, free, sram, srmap, arpKnown>>
parVars == <<qparams, qfrom, prate, sample, answer>>
mcVars == <<vars, kind, calls, rthr, faults, lost, swVars, tabVars, parVars>>

-----------------------------------------------------------------------------
(* The software router and the two host daemons with filters.  The run has  *)
(* two threads, two ports on one nic, a good and a refused prefix.          *)
SwNic == [p \in SwPorts |-> 0]

Sw == INSTANCE SwRouter WITH
  Variant <- "swr", Threads <- SwThreads, Ports <- SwPorts, NicOf <- SwNicOf,
  NicRate <- SwNicRate, Rates <- SwRates, Qids <- SwQids, Matches <- SwMatches,
  BadMatches <- SwBadMatches, UseRoute <- SwUseRoute, MaxMark <- SwMaxMark, thr <- rthr
Hf == INSTANCE HostFilters WITH
  Variant <- "hostf", Threads <- SwThreads, Ports <- HostPorts, NicOf <- SwNicOf,
  NicRate <- SwNicRate, Rates <- SwRates, Qids <- HostQids, Matches <- HostMatches,
  BadMatches <- {}, UseRoute <- SwUseRoute, MaxMark <- SwMaxMark, thr <- rthr
Nd == INSTANCE NdneHost WITH
  Threads <- SwThreads, Ports <- HostPorts, NicOf <- SwNicOf, NicRate <- SwNicRate,
  Rates <- SwRates, Qids <- HostQids, Matches <- HostMatches, BadMatches <- {},
  UseRoute <- SwUseRoute, MaxMark <- SwMaxMark, thr <- rthr

(* Ports and queues are numbers (swrd_requests.cc).                         *)
ASSUME QueueAssumption ==
  /\ SwPorts \subseteq Nat /\ HostPorts \subseteq Nat
  /\ SwQids \subseteq Nat /\ HostQids \subseteq Nat

(* The NPR's tables.  The run has addresses of one bit, three slots per     *)
(* prefix length, one thread for the user's requests and the one of the    *)
(* ARP packets.                                                            *)
Filter ==
  [proto |-> "tcp", tcp |-> [x \in {"syn"} |-> 1],
   exceptions |-> [x \in {"ttl"} |-> Wildcard], pps |-> "port(unicast)",
   multicast |-> FALSE, ports |-> <<"4">>, plugins |-> <<>>]
SentFilters == {Filter, [Filter EXCEPT !.proto = "TCP"]}
DefaultKeys == <<1>>

Tb == INSTANCE NprTables WITH thr <- rthr

(* There is room for results, ARP entries and filters, and for a route of   *)
(* every length beside the default route (nprd_configuration.h).           *)
ASSUME TableAssumption ==
  /\ Npu \in Npus
  /\ MaxPrefix \in Nat /\ MaxPrefix >= 1 /\ PerClass \in Nat /\ PerClass >= 2
  /\ MaxPriority \in Nat /\ FilterClass \in Nat /\ FilterClass >= 1
  /\ NumArp \in Nat /\ NumArp >= 3 /\ NumResults \in Nat /\ NumResults >= 3
  /\ DefPriority \in 0..MaxPriority /\ Defaults \in Seq(Nat)

Pa == INSTANCE NprParams WITH
  Reqs <- ParReqs, MaxPort <- ParMaxPort, QidBits <- ParQidBits, Qids <- ParQids,
  Values <- ParValues, Rates <- ParRates, Unit <- ParUnit, MaxIndex <- ParMaxIndex,
  Def <- 1, thr <- rthr

(* Ports, queues and rates are numbers, and the unit of a rate is not zero  *)
(* (QPORT_RATE_CONVERSION).                                                 *)
ASSUME ParamAssumption ==
  /\ ParMaxPort \in Nat /\ 2^ParQidBits \in Nat /\ ParQids \subseteq Nat
  /\ ParRates \subseteq Nat /\ ParUnit \in Nat \ {0}

-----------------------------------------------------------------------------
SwOff  == nicRate = 0 /\ portTable = 0 /\ filters = 0 /\ next_mark = 0 /\ kernel = 0
TabOff == /\ conn = 0 /\ tcam_state = 0 /\ dbs = 0 /\ router = 0 /\ todo = 0 /\ free = 0
          /\ sram = 0 /\ srmap = 0 /\ arpKnown = 0
ParOff == qparams = 0 /\ qfrom = 0 /\ prate = 0 /\ sample = 0 /\ answer = 0

MCInit ==
  /\ kind \in Parts
  /\ calls = 0
  /\ Init
  /\ \/ /\ \/ kind = "swr" /\ Sw!Init
           \/ kind = "hostf" /\ Hf!Init
           \/ kind = "ndne" /\ Nd!Init
        /\ TabOff /\ ParOff
     \/ kind = "tables" /\ Tb!Init /\ SwOff /\ ParOff
     \/ /\ kind = "plugins"
        /\ SwOff /\ TabOff /\ ParOff /\ rthr = 0 /\ lost = 0 /\ faults = 0
     \/ /\ kind = "params" /\ Pa!Init
        /\ SwOff /\ TabOff /\ lost = 0 /\ faults = 0

\* The requests of a behaviour, by daemon.
Requests == ("swr" :> 3) @@ ("hostf" :> 2) @@ ("ndne" :> 2) @@ ("tables" :> 3)

Called == calls < MaxCalls[kind] /\ calls' = calls + 1

SwNext ==
  /\ \E t \in SwThreads :
       \/ kind = "swr" /\ ((Called /\ Sw!Request(t)) \/ (UNCHANGED calls /\ Sw!Step(t)))
       \/ kind = "hostf" /\ ((Called /\ Hf!Request(t)) \/ (UNCHANGED calls /\ Hf!Step(t)))
       \/ kind = "ndne" /\ ((Called /\ Nd!Request(t)) \/ (UNCHANGED calls /\ Nd!Step(t)))
  /\ UNCHANGED <<vars, kind, tabVars, parVars>>

TabNext ==
  /\ kind = "tables"
  /\ \/ Called /\ (Tb!ArpPacket \/ \E t \in RliThreads : Tb!Request(t))
     \/ UNCHANGED calls /\ (Tb!Start \/ Tb!TcamdFails \/ \E t \in Tb!Threads : Tb!Step(t))
  /\ UNCHANGED <<vars, kind, swVars, parVars>>

Others == <<kind, calls, lost, swVars, tabVars>>

PlgNext == kind = "plugins" /\ Next /\ UNCHANGED <<Others, rthr, faults, parVars>>
ParNext == kind = "params" /\ Pa!Next /\ UNCHANGED <<vars, Others, faults>>

MCNext == SwNext \/ TabNext \/ PlgNext \/ ParNext

MCSpec == MCInit /\ [][MCNext]_mcVars

-----------------------------------------------------------------------------
\* When no request is being served iptables and tc hold the entries of exactly the
\* filters the daemon knows, whatever two threads that add and delete did and although
\* single iptables calls failed (filter_command tries each three times).
NoLeftoverRules ==
  /\ kind = "swr" => Sw!NoLeftoverRules
  /\ kind = "hostf" => Hf!R!NoLeftoverRules
  /\ kind = "ndne" => Nd!R!R!NoLeftoverRules

\* Every queue has a place of its own: the software router and its relatives read the
\* statistics of a queue under the handle tc stored it under, also when its delay was
\* set and reset by other threads (read_stats), and the word of the NPR that holds a
\* queue's parameters is written by requests for that queue alone (set_queue_quantum,
\* set_queue_threshold).
QueuesApart ==
  /\ kind = "swr" => Sw!MonitorableQueues
  /\ kind = "hostf" => Hf!R!MonitorableQueues
  /\ kind = "ndne" => Nd!R!R!MonitorableQueues
  /\ kind = "params" => Pa!QueuesApart

\* The ports configured on a nic never get more than its bandwidth together, however
\* often and from however many threads they are configured (configure_port).
NicNotOversubscribed == kind = "swr" => Sw!NicNotOversubscribed

\* The TCAM entry of a route or filter leads to its own result in SRAM (add_route,
\* add_filter write the result first), through failures of the TCAM daemon.
ResultsInPlace == kind = "tables" => Tb!ResultsInPlace

\* At rest every index of the TCAM's lists is free or in use, unless an exception
\* dropped it (the index lists of nprd_configuration.cc).
NoSlotLeaked == kind = "tables" => Tb!NoSlotLeaked
=============================================================================
