\* NORMAL_LANES lowered from 3 to 2 while both values are in use; one row to move, one message to expire.
CONSTANTS
    w1 = w1
    w2 = w2
    r1 = r1
    r2 = r2
    none = none
    Workers = {w1, w2}
    Survivor = w2
    Rows = {r1}
    Hash <- HashOfRows
    OldLanes = 3
    NewLanes = 2
    BatchSize = 1
    MaxOverdue = 1
    None = none
SPECIFICATION Spec
INVARIANT PublishedWereExpired
PROPERTIES RowsReachServedLanes EndedWorkersAreForgotten
