CONSTANTS
    Configs <- TLSConfigs
    MaxLines = 6
    DataStalls = TRUE
SPECIFICATION Spec
\* A connection ends.
CHECK_DEADLOCK FALSE
PROPERTY TimeoutKicksOff
