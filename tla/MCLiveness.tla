------------------------------ MODULE MCLiveness ------------------------------
(***************************************************************************)
(* The parts that promise an answer, for TLC: the relays of the base       *)
(* daemon and the file readers of the base, VM and VPN daemons, the links  *)
(* of a crd session, and the packets of the NPR.  They do not interact, so *)
(* one run explores them side by side: MCInit chooses which part the       *)
(* behaviour is about, its module takes all the steps, and the variables   *)
(* of the others do not change.  The links' module is extended; the sets   *)
(* and bounds of the other parts are constants of this module, so that     *)
(* AnswersProofs can prove their invariants for every value of them.       *)
(***************************************************************************)
EXTENDS CrdLinks, Sequences, FiniteSets

CONSTANTS Parts,          \* the parts explored
          Threads, Conns, \* threads and connections of the base daemon
          BasePieces,     \* pieces written into the base daemon's files
          MaxPieces,      \* and into those of its copies
          Packets, NoPacket, Forms, Addrs, Slots, NextHop, \* the packets of the NPR
          MaxThrows,      \* failures of the NPR's TCAM
          MaxRoutes,      \* changes of its routes
          Attempts,       \* tries to connect, and to resolve an address
          Limit,          \* the requests of a behaviour, for each of Parts
          La, Lb,         \* links; Lb is at the virtual switch
          A1, S1          \* an address and a result slot of the NPR

VARIABLES
  kind, calls,
  testing, using_spec_daemon, spec_conn, conn, thr, file, last, started,
  ring, msg_ready, form, pthr, out, req, srid, mac, threw, pfaults, routes

baseVars == <<testing, using_spec_daemon, spec_conn, conn, thr, file, last, started>>
pktVars == <<ring, msg_ready, form, pthr, out, req, srid, mac, threw, pfaults, routes>>
mcVars == <<kind, calls, baseVars, vars, pktVars>>

-----------------------------------------------------------------------------
\* Enough requests of the base daemon and its copies for one to overtake another.
Requests == [k \in Parts |-> IF k = "base" THEN 3 ELSE 2]

\* The base daemon, and its two copies.
Ba == INSTANCE BaseDaemon WITH MaxPieces <- BasePieces
Ud == INSTANCE VmUserData

\* Two links, one of them at the virtual switch, with one and two switch ports.
MCPorts == [l \in {La, Lb} |-> IF l = La THEN 1 ELSE 2]

\* Packets that need an address, with a reply that answers or is malformed, and those
\* of the other exceptions.
Form(r, f, d) == [ring |-> r, flags |-> f, addr |-> A1, slot |-> S1, dest |-> d]

MCForms ==
  {Form("EXCEPTIONS", {"arp_needed", "arp_source"}, "mux"),
   Form("EXCEPTIONS", {"arp_needed"}, "plugin"),
   Form("EXCEPTIONS", {"arp_needed"}, "invalid"),
   Form("ERRORS", {"non_ip", "ethertype_arp"}, "mux"),
   Form("ERRORS", {"non_ip", "ethertype_arp", "malformed"}, "mux"),
   Form("ERRORS", {"ttl_expired"}, "mux"),
   Form("LOCAL_DELIVERY", {"echo"}, "mux")}

MCNextHop == [s \in {S1} |-> A1]

Pk == INSTANCE NprPackets WITH MaxFaults <- MaxThrows, thr <- pthr, faults <- pfaults

\* The fields of a packet: the ring it comes by, and addresses the router knows of.
ASSUME PacketAssumption ==
  /\ NoPacket \notin Packets
  /\ NextHop \in [Slots -> Addrs]
  /\ Forms \subseteq [ring : Pk!RingNames, flags : SUBSET STRING, addr : Addrs,
                      slot : Slots, dest : STRING]

-----------------------------------------------------------------------------
BaseOff ==
  /\ testing = 0 /\ using_spec_daemon = 0 /\ spec_conn = 0 /\ conn = 0 /\ thr = 0
  /\ file = 0 /\ last = 0 /\ started = 0
PktOff ==
  /\ ring = 0 /\ msg_ready = 0 /\ form = 0 /\ pthr = 0 /\ out = 0 /\ req = 0
  /\ srid = 0 /\ mac = 0 /\ threw = 0 /\ pfaults = 0 /\ routes = 0

MCInit ==
  /\ kind \in Parts
  /\ calls = 0
  /\ \/ kind = "base" /\ Ba!Init /\ Init /\ PktOff
     \/ kind \in {"vmdata", "vpndata"} /\ Ud!Init /\ Init /\ PktOff
     \/ kind = "links" /\ Init /\ BaseOff /\ PktOff
     \/ kind = "packets" /\ Pk!Init /\ BaseOff /\ Init

Called == calls < Limit[kind] /\ calls' = calls + 1

BaseStep(t) ==
  /\ \/ kind = "base" /\ Ba!Step(t)
     \/ kind = "vmdata" /\ Ud!vm_step(t)
     \/ kind = "vpndata" /\ Ud!vpn_step(t)
  /\ UNCHANGED <<kind, calls, vars, pktVars>>

BaseRequest(t) ==
  /\ Called
  /\ \/ kind = "base" /\ Ba!Request(t)
     \/ kind = "vmdata" /\ Ud!vm_request(t)
     \/ kind = "vpndata" /\ Ud!vpn_request(t)
  /\ UNCHANGED <<kind, vars, pktVars>>

BaseEnvironment ==
  /\ \/ kind = "base" /\ Ba!Environment
     \/ kind \in {"vmdata", "vpndata"} /\ Ud!Environment
  /\ UNCHANGED <<kind, calls, vars, pktVars>>

Linking(A) == kind = "links" /\ A /\ UNCHANGED <<kind, calls, baseVars, pktVars>>
Packet(A) == kind = "packets" /\ A /\ UNCHANGED <<kind, calls, baseVars, vars>>

MCNext ==
  \/ BaseEnvironment
  \/ \E t \in Threads : BaseRequest(t) \/ BaseStep(t)
  \/ Linking(Next)
  \/ Packet(Pk!Next)

\* The fairness of the modules: request threads, the crd's threads, the packets'
\* threads and the loop that reads the rings run, and every wait has a timeout.
MCFairness ==
  /\ \A t \in Threads : WF_baseVars(BaseStep(t))
  /\ WF_vars(Linking(Step))
  /\ WF_pktVars(Packet(Pk!check))
  /\ \A p \in Packets : WF_pktVars(Packet(Pk!Step(p)))

MCSpec == MCInit /\ [][MCNext]_mcVars /\ MCFairness

-----------------------------------------------------------------------------
\* Every answer of the base daemon goes to the connection its request came from, with
\* the requester's rendezvous, whatever the relay did to the request object meanwhile
\* (rli_relay_req::handle points it at the specialisation daemon and back).
AnsweredToOrigin == kind = "base" => Ba!AnsweredToOrigin

\* A time series reports each piece the user's program wrote since the file was opened,
\* once and in order, although the program writes while the daemon reads
\* (userdata::read_next_values and its copies).
NothingLost ==
  /\ kind = "base" => Ba!NothingLost
  /\ kind \in {"vmdata", "vpndata"} => Ud!B!NothingLost

\* A periodic relay ends once the specialisation daemon is gone for good: a handling
\* that finds no open connection stops it (rli_relay_req::handle).
RelayStops ==
  <>[](kind = "base" /\ Ba!NoDaemon) =>
    \A t \in Threads :
      []<>(kind = "base" /\ ~(thr[t].op \in Ba!Relays /\ thr[t].periodic))

\* Whatever the network daemon refuses or leaves unanswered, a session answers every
\* link's request, unless it is cleared meanwhile or a thread could not be made.
LinksAnswered == kind = "links" => AllAnswered

\* The buffer of a packet from the data path is given back once only: sent on, sent to
\* a plugin, or dropped (nprd_datapathmessage.cc).
ReleasedOnce == kind = "packets" => Pk!ReleasedOnce

\* Every packet read from a ring is released in the end, also when its ARP request is
\* another packet's, fails or is never answered.
EveryPacketReleased ==
  \A p \in Packets :
    (kind = "packets" /\ form[p] # Pk!NoForm)
      ~> (kind = "packets" /\ (out[p] # <<>> \/ threw # {}))
=============================================================================
