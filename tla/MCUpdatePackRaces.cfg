SPECIFICATION Spec
CONSTANTS
    m = m
    d = d
    x = x
    y = y
    Paths = {m, x}
    Mods = {m}
    Dirs = {}
    Parent <- MCParent
    Extends <- MCExtends
    Order <- MCOrder
    Published <- MCGentle
    Faulty <- MCLasting
    Events = {"publish", "truncate", "readme"}
    MaxFaults = 0
    Releases = 3
INVARIANT FineIsFine
CHECK_DEADLOCK FALSE
