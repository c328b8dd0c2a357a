CONSTANTS
    Names <- MCNames
    Setups <- MCSetups
    MaxCalls = 4
    MaxFaults = 2
SPECIFICATION Spec
INVARIANTS CopyWhole
  
CHECK_DEADLOCK FALSE
