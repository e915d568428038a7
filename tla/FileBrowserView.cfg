SPECIFICATION FairSpec
CONSTANTS
    root = root  sub = sub  f = f  g = g
    Dirs = {root, sub}
    Root = root
    Files = {f, g}
    MaxStatsInFlight = 1
    MaxNavs = 3
    MaxOthers = 1
INVARIANTS EveryRowAccounted NeverStranded LastRequestWins
PROPERTIES RevealsOnlyAsAsked FillsIn
CHECK_DEADLOCK FALSE
