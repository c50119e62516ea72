SPECIFICATION FairSpec
CONSTANTS
  NoLease = NoLease
  NoPod = NoPod
  Nodes = {n1}
  Capacity <- OneNodeOneGPU
  Quota <- OneNodeOneGPU
  Pods = {1}
  NodeOf <- AllOnOneNode
  InitialPods = {1}
  TemplateLabel = "warm"
  WarmReplicas = 0
  MinHotReplicas = 0
  Stale = {}
  FaultKinds = {"restart"}
  MaxFaults = 1
PROPERTY BoundBacked
