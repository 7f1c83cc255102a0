\* Two conflicting reports, each posted up to twice.
CONSTANTS
    d1 = d1
    d2 = d2
    m1 = m1
    Deliveries = {d1, d2}
    Msg <- MsgOf
    Reported <- ReportedOf
    RetryLimit = 2
    MaxPosts = 3
    Size = 2
SPECIFICATION FairSpec
INVARIANTS
    AckIsDurable
    AppliedOnce

PROPERTIES
    EverySubmitReturns
    RunReturns
CHECK_DEADLOCK FALSE
