\* Three calls around a change of the customer; the clock passes one lifetime,
\* so that an entry may be stored, expire and be purged.
CONSTANTS
    c1 = c1
    c2 = c2
    c3 = c3
    none = none
    l1 = l1
    l2 = l2
    bad = bad
    Calls = {c1, c2, c3}
    MaxKeys = 2
    Malformed = bad
    Limits = {l1, l2}
    TTL = 2
    MaxTime = 3
    MaxChanges = 1
    None = none
SPECIFICATION Spec
INVARIANTS AnswersAreRecent RefusalsAreCurrent
SYMMETRY Symmetry
