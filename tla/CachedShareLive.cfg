\* A rename that moves a directory two levels below it, with its file, and views
\* of both its paths.
CONSTANTS
    a = a  b = b
    Dirs <- Deep
    MaxName = 2
    Above <- ByName
    Inodes = {1, 2, 3}
    DirInodes = {2, 3}
    MaxLinks = 10
    StartShare <- Chain
    Browsed <- Ends
    Subs <- ViewsDeepest
    Window = 1
    MaxChanges = 1
SPECIFICATION FairWorldSpec
INVARIANTS FreshIsTrue
PROPERTIES CatchesUp
CHECK_DEADLOCK FALSE
