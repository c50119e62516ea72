SPECIFICATION Spec
CONSTANTS
  NoLease = NoLease
  NoPod = NoPod
  Nodes = {n1}
  Capacity <- OneNodeTwoGPUs
  Quota <- OneNodeTwoGPUs
  Pods = {1}
  NodeOf <- AllOnOneNode
  InitialPods = {1}
  TemplateLabel = "warm"
  WarmReplicas = 0
  MinHotReplicas = 0
  Stale = {"pod"}
  FaultKinds = {}
  MaxFaults = 0
INVARIANTS GPUUseLeased
 
