SPECIFICATION FairSpec
CONSTANTS
    a = a  b = b  f = f  t = t
    Objects <- TreeObjects
    Shares <- Whole
    Changing <- OneDir
    Options <- OverlapOptions
    Shown <- Inner
    TmpNames = {t}
    MaxListsInFlight = 2
    MaxStarts = 2
    MaxOutside = 1
INVARIANTS EachFolderOnce NeverStranded OneEndPerStart FinishedIsComplete
PROPERTIES SearchEnds
CHECK_DEADLOCK FALSE
