CONSTANTS
  n1 = n1
  n2 = n2
  c0 = c0
  c1 = c1
  c2 = c2
  c3 = c3
  none = none
  NoNode = none
  Nodes = {n1}
  Comps = {c0, c1, c2, c3}
  StartComps = {c0}
  SessComps = {c1}
  Keeboot = {n1}
  NodeOf <- OneNode
  DepOf <- NoDep
  MaxReboots = 0
SPECIFICATION Spec
CHECK_DEADLOCK FALSE
INVARIANTS NoPendingRefresh KeebootBeforeConfig
PROPERTIES ClearedNeverClaims
