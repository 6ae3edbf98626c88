------------------------------ MODULE MCDaemons ------------------------------
(***************************************************************************)
(* The daemons around the crd for TLC: connections and the listener, the   *)
(* VM and VPN servers, the hosts, the CCNx router and the network          *)
(* management daemon.  Their modules do not interact, so one run explores  *)
(* all of them side by side: MCInit chooses which daemon the behaviour is  *)
(* about, its module takes all the steps, and the variables of the others  *)
(* stay off.  The connections' module is extended, not instantiated, so    *)
(* that the run checks the definitions its theorems are about; in the      *)
(* other parts its variables keep their initial values.  The sets of the   *)
(* VM servers, the hosts, the CCNx router and the nmd are constants, so    *)
(* that theorems can be about every value of them; so is Limit, the bound  *)
(* on the requests of a behaviour.                                         *)
(***************************************************************************)
EXTENDS NccpConnection, Sequences, TLC

CONSTANTS Parts,          \* the daemons explored
          Vms, ExpOf, VlanOf, MaxNames, Sids,      \* the VM and VPN servers
          VmAddr, DevAddr,                         \* addresses of VMs and devices
          HostPorts, Prefixes,                     \* the hosts
          CcnxThreads, Paths, Hops, BadHops, MaxPkts,  \* the CCNx router
          VlanSids, Vlans, Switches, Snmp, SwitchPorts, SwitchOf, Trunks,
          VlanThreads, Objs, MaxSsh, MaxFaults,    \* the nmd
          Limit,          \* the requests of a behaviour, for each of Parts
          Va,             \* a VM
          P1              \* a switch port

VARIABLES
  kind, calls, rli, routes,
  in_use, active, sess, lock, req, stage, defined, bridges, crashed, conf,
  nic, cfg, acked,
  ccnd, fib, paths, nexthops, mutex, job, pkts, total,
  vlans, free_vlans, objs, sessions, hw, ssh, cmds, known, lost, faults, nthr

vmVars == <<in_use, active, sess, lock, req, stage, defined, bridges, crashed, conf>>
hostVars == <<nic, cfg, acked>>
ccnxVars == <<ccnd, fib, paths, nexthops, mutex, job, pkts, total>>
nmdVars == <<vlans, free_vlans, objs, sessions, hw, ssh, cmds, known, lost, faults, nthr>>
mcVars == <<vars, kind, calls, rli, routes, vmVars, hostVars, ccnxVars, nmdVars>>

-----------------------------------------------------------------------------
\* The VMs of one experiment on one vlan; each device has an address of its own.
OneExp == [c \in Vms |-> "e"]
OneVlan == [c \in Vms |-> 1]
OwnAddr == [c \in Vms |-> IF c = Va THEN 1 ELSE 2]

\* A switch that takes ssh commands and one that does not, with a port each.
PortSwitch == [p \in SwitchPorts |-> IF p = P1 THEN "arista" ELSE "snmp"]

\* Enough requests for an owner, a second owner and a late step of the first.
Requests ==
  [k \in Parts |-> CASE k \in {"vm", "vpn"} -> 6
                     [] k = "nmd" -> 5
                     [] k = "ccnx" -> 3
                     [] OTHER -> 4]

Vm == INSTANCE VmBase WITH Variant <- "vm", Comps <- Vms, AddrOf <- VmAddr
Vp == INSTANCE VpnBase WITH Comps <- Vms, AddrOf <- DevAddr

\* Components, experiments and sessions are there; addresses are numbers.
ASSUME VmAssumption ==
  /\ MaxNames \in Nat /\ DevAddr \in [Vms -> Nat]
  /\ "none" \notin Vms /\ "none" \notin Sids
  /\ \A c \in Vms : ExpOf[c] # "none"

\* The hosts, and the CCNx router.
Ho == INSTANCE HostDaemon WITH Variant <- "pc1core", Ports <- HostPorts
Hs == INSTANCE HostDaemons WITH Ports <- HostPorts
Cc == INSTANCE CcnxRouter WITH Threads <- CcnxThreads

ASSUME HostAssumption == HostPorts \subseteq Nat /\ "none" \notin CcnxThreads

\* The network management daemon.
Nm == INSTANCE Nmd WITH
  Sids <- VlanSids, Ports <- SwitchPorts, Threads <- VlanThreads, thr <- nthr

\* A session has an id, a lock that is free has no thread, and there is a vlan 2 and up.
ASSUME NmdAssumption ==
  /\ "" \notin VlanSids /\ "none" \notin VlanThreads /\ "none" \notin SwitchPorts
  /\ IsFiniteSet(Vlans) /\ Vlans \subseteq Nat /\ Objs \in Nat
  /\ SwitchOf \in [SwitchPorts -> Switches]

-----------------------------------------------------------------------------
VmOff ==
  /\ in_use = 0 /\ active = 0 /\ sess = 0 /\ lock = 0 /\ req = 0 /\ stage = 0
  /\ defined = 0 /\ bridges = 0 /\ crashed = 0
HostOff == nic = 0 /\ cfg = 0 /\ acked = 0
CcnxOff ==
  /\ ccnd = 0 /\ fib = 0 /\ paths = 0 /\ nexthops = 0 /\ mutex = 0 /\ job = 0
  /\ pkts = 0 /\ total = 0
NmdOff ==
  /\ vlans = 0 /\ free_vlans = 0 /\ objs = 0 /\ sessions = 0 /\ hw = 0 /\ ssh = 0
  /\ cmds = 0 /\ known = 0 /\ lost = 0 /\ faults = 0 /\ nthr = 0
RliOff == rli = 0 /\ routes = 0

MCInit ==
  /\ kind \in Parts
  /\ calls = 0
  /\ Init
  /\ \/ /\ kind = "conn"
        /\ VmOff /\ conf = 0 /\ HostOff /\ CcnxOff /\ NmdOff /\ RliOff
     \/ /\ kind = "vm" /\ Vm!Init
        /\ conf = 0 /\ HostOff /\ CcnxOff /\ NmdOff /\ RliOff
     \/ /\ kind = "vpn" /\ Vp!Init
        /\ HostOff /\ CcnxOff /\ NmdOff
     \/ /\ \/ kind = "pc1core" /\ Ho!Init
           \/ kind = "pc8core" /\ Hs!pc8_init
           \/ kind = "pc48core" /\ Hs!pc48_init
           \/ kind = "ccnxhost" /\ Hs!ccnx_init
        /\ VmOff /\ conf = 0 /\ CcnxOff /\ NmdOff
     \/ /\ kind = "ccnx" /\ Cc!Init
        /\ VmOff /\ conf = 0 /\ HostOff /\ NmdOff /\ RliOff
     \/ /\ kind = "nmd" /\ Nm!Init
        /\ VmOff /\ conf = 0 /\ HostOff /\ CcnxOff /\ RliOff

Called == calls < Limit[kind] /\ calls' = calls + 1

ConnNext ==
  /\ kind = "conn"
  /\ \/ Called /\ \E c \in Conns : Request(c)
     \/ /\ UNCHANGED calls
        /\ \/ cleanup
           \/ \E c \in Conns : Step(c)
           \/ \E t \in MsgThreads : Process(t)
  /\ UNCHANGED <<kind, rli, routes, vmVars, hostVars, ccnxVars, nmdVars>>

VmNext ==
  /\ \E c \in Vms :
       \/ /\ kind = "vm" /\ UNCHANGED <<rli, routes, conf>>
          /\ (Called /\ Vm!Request(c)) \/ (UNCHANGED calls /\ Vm!Step(c))
       \/ /\ kind = "vpn"
          /\ (Called /\ Vp!Request(c)) \/ (UNCHANGED calls /\ Vp!Step(c))
  /\ UNCHANGED <<vars, kind, hostVars, ccnxVars, nmdVars>>

HostNext ==
  /\ \/ kind = "pc1core" /\ ((Called /\ Ho!Request) \/ (UNCHANGED calls /\ Ho!Step))
     \/ kind = "pc8core" /\ ((Called /\ Hs!pc8_request) \/ (UNCHANGED calls /\ Hs!pc8_step))
     \/ kind = "pc48core" /\ ((Called /\ Hs!pc48_request) \/ (UNCHANGED calls /\ Hs!pc48_step))
     \/ kind = "ccnxhost" /\ ((Called /\ Hs!ccnx_request) \/ (UNCHANGED calls /\ Hs!ccnx_step))
  /\ UNCHANGED <<vars, kind, vmVars, ccnxVars, nmdVars>>

CcnxNext ==
  /\ kind = "ccnx"
  /\ \/ Called /\ \E t \in CcnxThreads : Cc!Request(t)
     \/ UNCHANGED calls /\ (Cc!Packet \/ \E t \in CcnxThreads : Cc!Step(t))
  /\ UNCHANGED <<vars, kind, rli, routes, vmVars, hostVars, nmdVars>>

NmdNext ==
  /\ kind = "nmd"
  /\ \/ Called /\ \E t \in VlanThreads : Nm!Request(t)
     \/ UNCHANGED calls /\ (Nm!Environment \/ \E t \in VlanThreads : Nm!Step(t))
  /\ UNCHANGED <<vars, kind, rli, routes, vmVars, hostVars, ccnxVars>>

MCNext == ConnNext \/ VmNext \/ HostNext \/ CcnxNext \/ NmdNext

MCSpec == MCInit /\ [][MCNext]_mcVars

-----------------------------------------------------------------------------
\* No two VMs have the same name, whatever the races on the sessions lose, and the name
\* of a VM that virsh still knows is not given out again (assignVM, releaseVMname).
NamesApart == kind = "vm" => Vm!OneVmPerName /\ Vm!RunningNameTaken

\* A VM or device whose configuration was answered Fine is found when its configuration
\* ends: the removal of another one never takes the session along (deleteVM, deleteDev).
ConfiguredIsFound ==
  /\ kind = "vm" => Vm!ConfiguredIsFound
  /\ kind = "vpn" => Vp!ConfiguredIsFound

\* A host's route that was answered Fine is in the kernel until it is deleted, and when
\* the CCNx router replays its saved routes each path has its own next hop: failing
\* scripts and requests of other threads do not change that (add_route, get_add_route_req).
RoutesKept ==
  /\ kind = "pc1core" => Ho!FineRouteIsThere
  /\ kind = "pc8core" => Hs!P8!FineRouteIsThere
  /\ kind = "pc48core" => Hs!P48!FineRouteIsThere
  /\ kind = "ccnxhost" => Hs!CR!FineRouteIsThere
  /\ kind = "ccnx" => Cc!SavedPairs

\* At rest every vlan can be handed out or belongs to a session that can still be ended,
\* or it was in use when the switches were initialized again: a vlan that never had a
\* port is given back too, whatever two sessions do at the same time (vlan_set, session).
NoVlanLeaked == kind = "nmd" => Nm!NoVlanLeaked
=============================================================================
