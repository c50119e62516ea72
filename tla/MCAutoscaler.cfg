SPECIFICATION Spec
CONSTANTS
  Pods = {1, 2, 3}
  Demands = {1, 3}
  MaxEdits = 2
  Annotations <- SmallAnnotations
  DefaultWarmReplicas = 1
  DefaultMinHotReplicas = 1
  MaxInt32 = 7
  PodCapacityRPS = 2
  MinReplicas = 2
  MaxReplicas = 3
  ScaleStep = 2
  GPUs = 2
  MaxLosses = 1
INVARIANTS TypeOK 
PROPERTIES     ScaleDownSparesHot
