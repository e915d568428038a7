\* A rename reported failed may have been applied.
CONSTANTS
    a = a  b = b  c = c
    i1 = i1  i2 = i2  i3 = i3
    None = None
    Name = {a, b, c}
    Inode = {i1, i2, i3}
    JobLists <- TwoJobs
    Shares <- CleanShare
    MaxOpId = 1
SPECIFICATION Spec
INVARIANT RenameFailureLeavesVictimUntouched
CHECK_DEADLOCK FALSE
