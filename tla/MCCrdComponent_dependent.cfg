CONSTANTS
  n1 = n1
  n2 = n2
  c0 = c0
  c1 = c1
  c2 = c2
  c3 = c3
  none = none
  NoNode = none
  Nodes = {n1, n2}
  Comps = {c0, c1, c3}
  StartComps = {c0, c3}
  SessComps = {c1}
  Keeboot = {}
  NodeOf <- TwoNodes
  DepOf <- Dominant
  MaxReboots = 0
SPECIFICATION Spec
CHECK_DEADLOCK FALSE
INVARIANTS NoOrphan
 
