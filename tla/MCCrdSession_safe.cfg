CONSTANTS
  s1 = s1
  s2 = s2
  u1 = u1
  u2 = u2
  n1 = n1
  a1 = a1
  a2 = a2
  a3 = a3
  NoNode = NoNode
  NoReq = NoReq
  NoThread = NoThread
  Nodes = {n1}
  NodeOf <- SameNode
  SessOf <- Owners
  Start <- Starts
  End <- Ends
  Sessions = {s1, s2}
  Users = {u1, u2}
  UserOf <- TwoUsers
  Reqs = {a1, a2}
  Kind <- Kinds
  MaxTime = 1
  MaxPolls = 1
  Overload = TRUE
  Failing = {}
SPECIFICATION Spec
CHECK_DEADLOCK FALSE
 
PROPERTIES AnsweredOnce RemovedWhenCleared
