SPECIFICATION Spec
CONSTANTS
  NoLease = NoLease
  NoPod = NoPod
  Nodes = {n1}
  Capacity <- OneNodeOneGPU
  Quota <- OneNodeOneGPU
  Pods = {1}
  NodeOf <- AllOnOneNode
  InitialPods = {1}
  TemplateLabel = "warm"
  WarmReplicas = 0
  MinHotReplicas = 0
  Stale = {"lease", "workload", "pod"}
  FaultKinds = {}
  MaxFaults = 0
INVARIANT QuotaFreedFirst
