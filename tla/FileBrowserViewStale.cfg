SPECIFICATION Spec
CONSTANTS
    root = root  sub = sub  f = f  g = g
    Dirs = {root, sub}
    Root = root
    Files = {f, g}
    MaxStatsInFlight = 1
    MaxNavs = 3
    MaxOthers = 0
INVARIANT OldStatsDropped
CHECK_DEADLOCK FALSE
