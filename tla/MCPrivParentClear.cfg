CONSTANTS
    Configs <- ClearConfigs
    MaxLines = 6
    DataStalls = FALSE
SPECIFICATION Spec
\* A connection ends.
CHECK_DEADLOCK FALSE
INVARIANT LocalLoginsAreEncrypted
