SPECIFICATION ServerSpec
CONSTANTS
  NoLease = NoLease
  Leases = {l1, l2}
  Warmup = 2
  Teardown = 3
  InferLatency = 2
  MaxGen = 4
INVARIANT PodGauges
