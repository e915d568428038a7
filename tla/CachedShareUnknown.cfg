CONSTANTS
    a = a  b = b
    Dirs = {a, b}
    MaxName = 2
    Above <- Flat
    Inodes = {1}
    MaxLinks = 4
    DirInodes = {}
    StartShare <- TwoNames
    Browsed = {a, b}
    Subs <- ViewsAB
    Window = 1
    MaxChanges = 2
SPECIFICATION WorldSpec
INVARIANTS
    EveryMutationInvalidates
CHECK_DEADLOCK FALSE
