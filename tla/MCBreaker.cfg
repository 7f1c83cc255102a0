\* Two providers, three goroutines.
CONSTANTS
    N = 2
    Requests = {r1, r2, r3}
    Threshold = 2
    MaxAttempts = 1
SPECIFICATION FairSpec
INVARIANT
    ProbeOnlyHalfOpen
PROPERTIES
    RecoversUnlessProbeLost
    OnlyLeaseOverLosesProbe
