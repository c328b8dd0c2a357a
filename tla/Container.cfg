SPECIFICATION Spec
CONSTANTS
    Proc = {"p", "q"}
    Top = {"a", "b"}
    MaxSnap = 1
    Starts <- MCStarts
INVARIANTS LockWaitsAcyclic 
PROPERTIES NothingLost
