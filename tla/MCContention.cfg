SPECIFICATION Spec
CONSTANTS
  NoLease = NoLease
  NoPod = NoPod
  Nodes = {n1}
  Capacity <- OneNodeOneGPU
  Quota <- OneNodeOneGPU
  Pods = {1, 2}
  NodeOf <- AllOnOneNode
  InitialPods = {1}
  TemplateLabel = ""
  WarmReplicas = 1
  MinHotReplicas = 0
  Stale = {}
  FaultKinds = {"apiError","lostPost","lostReply","restart","inadmissible","evict","operator"}
  MaxFaults = 2
INVARIANTS TypeOK GPUExclusive GPUUseLeased  QuotaFreedFirst FailedHoldsNoQuota HotLabelBacked
PROPERTIES LeaseLifecycle ImplementsLedger
