CONSTANTS
  n1 = n1
  n2 = n2
  c0 = c0
  c1 = c1
  c2 = c2
  c3 = c3
  none = none
  NoNode = none
  Nodes = {n1}
  Comps = {c0, c1}
  StartComps = {c0}
  SessComps = {c1}
  Keeboot = {}
  NodeOf <- OneNode
  DepOf <- NoDep
  MaxReboots = 1
SPECIFICATION FairSpec
CHECK_DEADLOCK FALSE
PROPERTIES EveryObjectCleared InitializeEnds
