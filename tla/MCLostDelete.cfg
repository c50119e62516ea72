SPECIFICATION Spec
CONSTANTS
  NoLease = NoLease
  NoPod = NoPod
  Nodes = {n1}
  Capacity <- OneNodeOneGPU
  Quota <- OneNodeOneGPU
  Pods = {1, 2}
  NodeOf <- AllOnOneNode
  InitialPods = {1, 2}
  TemplateLabel = "warm"
  WarmReplicas = 1
  MinHotReplicas = 1
  Stale = {}
  FaultKinds = {"lostDelete"}
  MaxFaults = 1
INVARIANT GPUExclusive
