SPECIFICATION MCSpec
CONSTANTS
  Parts = {"conn", "vm", "vpn", "pc1core", "pc8core", "pc48core", "ccnxhost", "ccnx", "nmd"}
  Accepted = {a1}
  Clients = {c1, c2}
  MsgThreads = {t1, t2}
  Vms = {va, vb}
  ExpOf <- OneExp
  VlanOf <- OneVlan
  MaxNames = 2
  Sids = {"s1", "s2", "s3"}
  VmAddr <- OneVlan
  DevAddr <- OwnAddr
  HostPorts = {0, 1, 2}
  Prefixes = {"x", "y"}
  CcnxThreads = {t1, t2}
  Paths = {"/a", "/b"}
  Hops = {"h"}
  BadHops = {"z"}
  MaxPkts = 1
  Limit <- Requests
  Va = va
  P1 = p1
  VlanSids = {"A", "B"}
  Vlans = {2, 3}
  Switches = {"arista", "snmp"}
  Snmp = {"snmp"}
  SwitchPorts = {p1, p2}
  SwitchOf <- PortSwitch
  Trunks = {p2}
  VlanThreads = {t1, t2}
  Objs = 3
  MaxSsh = 1
  MaxFaults = 1
INVARIANTS
  
  
  ConfiguredIsFound
  
  
CHECK_DEADLOCK FALSE
