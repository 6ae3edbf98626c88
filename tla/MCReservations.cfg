SPECIFICATION MCSpec
CONSTANTS
  n1 = n1
  n2 = n2
  u1 = u1
  u2 = u2
  c1 = c1
  c2 = c2
  Nodes = {n1, n2}
  Users = {u1, u2}
  Admins = {}
  UserClients = {c1, c2}
  CrdClients = {c1}
  OpClients = {c2}
  MaxCalls = 4
  NoClient = NoClient
  Rids = {1, 2, 3}
  Slot = 2
  WeekLen = 4
  MaxNow = 1
  Horizon = 4
  MaxLen = 4
  UserMaxNum = 2
  UserMaxUsage = 4
  GrpMaxUsage = 8
  Begins = {0, 2}
  Lens = {1}
  Nums = {1}
  Named = {n1}
INVARIANTS NoDoubleBooking SearchIsComplete
PROPERTIES RemapKeepsReservations
SYMMETRY Symmetry
CHECK_DEADLOCK FALSE
