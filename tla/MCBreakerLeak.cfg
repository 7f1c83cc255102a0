\* Two providers, three goroutines; leases may run out in the budget wait.
CONSTANTS
    N = 2
    Requests = {r1, r2, r3}
    Threshold = 2
    MaxAttempts = 1
SPECIFICATION FairSpec
PROPERTY
    NeverStuck
