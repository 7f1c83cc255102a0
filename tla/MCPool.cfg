\* Two lanes with up to one ready row each.
CONSTANTS
    NLanes = 2
    Concurrency = 2
    ClaimBatchSize = 2
    MaxReady = 1
SPECIFICATION FairSpec
INVARIANTS
    SlotsAccountedFor
    NoLostWakeup
PROPERTIES
    EveryLaneServed
    PoolReturns
CHECK_DEADLOCK FALSE
