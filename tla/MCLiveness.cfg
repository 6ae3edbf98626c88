SPECIFICATION MCSpec
CONSTANTS
  Parts = {"base", "vmdata", "vpndata", "links", "packets"}
  Threads = {t1, t2}
  Conns = {c1}
  BasePieces = 0
  MaxPieces = 2
  Packets = {p1, p2}
  NoPacket = none
  Forms <- MCForms
  Addrs = {a1}
  Slots = {s1}
  NextHop <- MCNextHop
  MaxThrows = 1
  MaxRoutes = 3
  Attempts = 2
  Limit <- Requests
  La = la
  Lb = lb
  Links = {la, lb}
  OnSwitch = {lb}
  Ports <- MCPorts
  Switch = sw
  MaxFaults = 2
  A1 = a1
  S1 = s1
INVARIANTS
  AnsweredToOrigin
  NothingLost
  LinkAnsweredOnce
  StartsLast
  ReleasedOnce
PROPERTIES
  RelayStops
  LinksAnswered
  EveryPacketReleased
CHECK_DEADLOCK FALSE
