SPECIFICATION Spec
CONSTANTS
    m = m
    d = d
    x = x
    y = y
    Paths = {m, x}
    Mods = {m}
    Dirs = {}
    Parent <- MCParent
    Extends <- MCExtends
    Order <- MCOrder
    Published <- MCGentle
    Faulty <- MCLasting
    Events = {"cut"}
    MaxFaults = 1
    Releases = 3
INVARIANT FineMeansWhole
CHECK_DEADLOCK FALSE
