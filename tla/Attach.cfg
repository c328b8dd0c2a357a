SPECIFICATION Spec
CONSTANTS
    Setups <- McSetups
    MaxCalls = 2
    MaxFaults = 1
INVARIANTS RunsAsAsked  
 
CHECK_DEADLOCK FALSE
