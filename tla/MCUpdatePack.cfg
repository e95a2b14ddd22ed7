SPECIFICATION Spec
CONSTANTS
    m = m
    d = d
    x = x
    y = y
    Paths = {m, d, x, y}
    Mods = {m}
    Dirs = {d}
    Parent <- MCParent
    Extends <- MCExtends
    Order <- MCOrder
    Published <- MCGentle
    Faulty <- MCLasting
    Events = {"cut", "refuse"}
    MaxFaults = 2
    Releases = 3
INVARIANTS FineIsFine NeverStuck
PROPERTIES VersionsGrow KeptUpToDate
CHECK_DEADLOCK FALSE
