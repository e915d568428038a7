\* Several runs of one job each, so that a run meets what an earlier one left.
CONSTANTS
    a = a  b = b  c = c
    i1 = i1  i2 = i2  i3 = i3
    None = None
    Name = {a, b, c}
    Inode = {i1, i2, i3}
    JobLists <- OneJob
    Shares <- CleanShare
    MaxOpId = 5
SPECIFICATION Spec
INVARIANTS
    AwaitedOpIsComing
    CopyKept
    ReportTruthful
PROPERTIES
    NoDataLost
    ReplacesSafely
CHECK_DEADLOCK FALSE
