SPECIFICATION MCSpec
CONSTANTS
  Parts = {"swr", "hostf", "ndne", "tables", "plugins", "params"}
  SwThreads = {t1, t2}
  SwPorts = {0, 1}
  SwNicOf <- SwNic
  SwNicRate = 4
  SwRates = {3}
  SwQids = {12}
  SwMatches = {"m", "x"}
  SwBadMatches = {"x"}
  SwUseRoute = use_route
  SwMaxMark = 14
  HostPorts = {0}
  HostQids = {1, 12}
  HostMatches = {"m"}
  ParReqs = {r1, r2}
  ParMaxPort = 1
  ParQidBits = 1
  ParQids = {0, 1}
  ParValues = {1, 2}
  ParRates = {3, 5}
  ParUnit = 2
  ParMaxIndex = 1
  Plugins = {0, 1}
  BadPlugin = 5
  BaseMes = {8}
  Reqs = {r1, r2, r3}
  NoReq = noreq
  MaxDebug = 1
  MaxCalls <- Requests
  MaxFaults = 1
  Npus = {npu}
  Npu = npu
  MaxPrefix = 1
  PerClass = 3
  MaxPriority = 1
  FilterClass = 2
  NumArp = 4
  NumResults = 6
  DefPriority = 1
  Defaults <- DefaultKeys
  Filters <- SentFilters
  RliThreads = {t1}
  ArpThread = t2
INVARIANTS
  
  
  
  
  EnginesMatchPlugins
  AnswersMatchMessages
  
CHECK_DEADLOCK FALSE
