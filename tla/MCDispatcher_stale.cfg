SPECIFICATION Spec
CONSTANTS
  r1 = r1
  r2 = r2
  r3 = r3
  opA = opA
  opB = opB
  p1 = p1
  p2 = p2
  p3 = p3
  Ops = {opA, opB}
  RespOps = {opA}
  OpOf <- MCOpOf
  NoReq = NoReq
  NoResp = NoResp
  Reqs = {r1}
  Resps = {p1, p2}
  MaxCalls = 2
  MaxSeq = 3
INVARIANTS ReplyMatchesCall
CHECK_DEADLOCK FALSE
