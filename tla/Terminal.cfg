SPECIFICATION Spec
CONSTANTS
    Client = {c1, c2}
    Setups <- McSetups
    Chunk = 2
    MaxFaults = 1
INVARIANTS OneUser  EndsClean
PROPERTIES Served
CHECK_DEADLOCK FALSE
