SPECIFICATION Spec
CONSTANTS
    ClientLines <- MCClientLines
    Torn <- MCTorn
    MaxLines = 2
    MaxLine = 11
    MaxVisit = 1
    Sides <- MCSides
    Home <- MCHome
    Dirs <- MCDirs
    Messages <- MCMessages
    HostPorts <- MCHostPorts
    Streams <- MCStreams
    Offsets = {0, 1, 5}
    ChunkTunables = {0, 1}
    DataBufsize = 3
    MinChunk = 2
    PageSize = 4
\* A session, and a transfer come to an end.
CHECK_DEADLOCK FALSE
INVARIANTS ControlConnectionInStep TransfersConvertExactly
PROPERTY DataAddressIsTheClients
