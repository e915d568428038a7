SPECIFICATION Spec
CONSTANTS
    p = p  q = q  r = r
    Files <- SmallFiles
    Givens <- SmallGivens
    Args <- SmallArgs
INVARIANTS RowsAreCandidates NothingMissed OneRowPerPair
CHECK_DEADLOCK FALSE
