\* Two connections, requests of every kind at any time.
CONSTANTS
    l1 = l1  s1 = s1  o1 = o1 
    Lists = {l1}
    Stats = {s1}
    Ops = {o1}
    MaxAttempt = 2
    Throttle = TRUE
SPECIFICATION FairSpec
INVARIANTS
    NotDestroyedInService
    NothingOutlivesConnection
    NoOrphanedRequest
    EndIsExplained
    LogTruthful
PROPERTIES
    CompletesOnce
    OpsAnswered
    ReadsSettle
CHECK_DEADLOCK FALSE
