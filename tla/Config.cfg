SPECIFICATION Spec
CONSTANTS
    Built <- MCBuilt
    Environ <- MCEnviron
    Files <- MCFiles
    Dirs <- MCDirs
    Interfaces <- MCInterfaces
    Samples <- MCSamples
    Clears <- MCClears
    Disk <- MCDisk
    Edits <- MCEdits
    MaxCalls = 4
INVARIANTS ShownIsUsable FieldsAgree
PROPERTIES StaysInSync
CHECK_DEADLOCK FALSE
