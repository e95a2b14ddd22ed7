SPECIFICATION MCSpec
CONSTANTS
    MaxCalls = 2
    Calls = {"file", "list", "readme", "vers"}
    Faults = {"refuse", "abort", "noconnect", "timeout"}
    Replies <- MCReplies
    ReadLen = 2
    Installers = 2
    Artifacts = {"a1", "a2"}
    PackContent <- MCPackContent
    AddonEntries <- MCAddonEntries
    MaxBreaks = 2
INVARIANTS CallsKeepApart SuccessIsComplete InstalledPacksAreWhole
PROPERTIES CallsReturn RepliesReachTheCaller InstallerStartsWhole
\* The calls end.
CHECK_DEADLOCK FALSE
