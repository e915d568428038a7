\* The panel around a runner, from the validation to the end of a batch.
CONSTANTS
    a = a  b = b  c = c
    i1 = i1  i2 = i2  i3 = i3
    t1 = t1  t2 = t2  f1 = f1  f2 = f2
    None = None
    Blank = Blank
    Name = {a, b, c}
    Inode = {i1, i2, i3}
    Text = {t1, t2}
    Folder = {f1, f2}
    FolderOf <- MCFolderOf
    Settings <- MCSettings
    Results <- MCResults
    JobLists <- AllBatches
    Shares <- MCShares
    MaxOpId = 1
    MaxInputs = 2
SPECIFICATION FairPanelSpec
INVARIANTS
    RunOwnsRows
    StatusesTruthful
    ControlsMatch
    ViewsNotBehind
PROPERTIES
    DrivesRunner
    ControlsComeBack
CHECK_DEADLOCK FALSE
