SPECIFICATION FairPoolSpec
CONSTANTS
  NoLease = NoLease
  NoPod = NoPod
  Nodes = {n1}
  Capacity <- OneNodeOneGPU
  Quota <- OneNodeOneGPU
  Pods = {1, 2}
  NodeOf <- AllOnOneNode
  InitialPods = {1, 2}
  TemplateLabel = "warm"
  WarmReplicas = 1
  MinHotReplicas = 0
  Stale = {}
  FaultKinds = {"apiError", "lostDelete", "lostPatch", "restart", "evict"}
  MaxFaults = 1
PROPERTY PoolSettles
CHECK_DEADLOCK FALSE
