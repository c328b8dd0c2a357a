CONSTANTS
  C = {"a", "b"}
  K = {"k1", "k2"}
  Setups <- McSetups
  MaxSuffix = 2
  MaxFaults = 1
SPECIFICATION Spec
INVARIANTS Confined  
PROPERTIES RemovesOwn DevicePolicy
CHECK_DEADLOCK FALSE
