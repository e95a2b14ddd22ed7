CONSTANTS
    Sessions <- MCSessions
    AnonSessions <- MCAnon
    Configs <- MCConfigs
    Args <- MCArgs
    MaxCommands <- MCMaxCommands
    MaxChunks = 1
    MaxInodes = 4
SPECIFICATION Spec
\* Sessions stop after MaxCommands commands.
CHECK_DEADLOCK FALSE
INVARIANTS LockedTransfersAreWhole LogTellsEachCommandOnce WaitsEndAtWork
PROPERTIES AnonymousNeverOverwrites
