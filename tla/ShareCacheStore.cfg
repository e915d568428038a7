\* The store under any caller: one directory of two names.
CONSTANTS
    a = a  b = b
    Dirs = {a}
    MaxName = 2
    Above <- Flat
    Inodes = {1, 2}
    MaxLinks = 1
SPECIFICATION Spec
INVARIANTS
    IndexExact
    CursorSound
    StatsAsPromised
