\* Three jobs in batches of two: the flush timer matters.
CONSTANTS
    j1 = j1
    j2 = j2
    j3 = j3
    Jobs = {j1, j2, j3}
    Pools = {"express", "normal"}
    Listener = "listener"
    BatchSize = 2
SPECIFICATION FairSpec
INVARIANTS StopLosesNothing StopIsFinal
PROPERTIES RunReturns OutcomesSettle
