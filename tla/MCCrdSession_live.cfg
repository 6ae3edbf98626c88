CONSTANTS
  s1 = s1
  s2 = s2
  u1 = u1
  u2 = u2
  n1 = n1
  a1 = a1
  a2 = a2
  a3 = a3
  NoNode = NoNode
  NoReq = NoReq
  NoThread = NoThread
  Nodes = {n1}
  NodeOf <- SameNode
  SessOf <- Owners
  Start <- Starts
  End <- Ends
  Sessions = {s1}
  Users = {u1}
  UserOf <- TwoUsers
  Reqs = {a1, a3}
  Kind <- ClusterKinds
  MaxTime = 1
  MaxPolls = 1
  Overload = FALSE
  Failing = {s1}
SPECIFICATION FairSpec
CHECK_DEADLOCK FALSE
PROPERTIES  DeadRliCleared ClearedRemoved
