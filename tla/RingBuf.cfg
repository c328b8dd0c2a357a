CONSTANTS
    Byte = {0, 1}
    Zero = 0
    Size = 4
    MaxWrite = 2
SPECIFICATION Spec
INVARIANTS OffsetsInMapping
PROPERTIES IsConsoleLog
