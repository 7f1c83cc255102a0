\* Three sends of two IDs on a store of one, so that an ID may be accepted twice.
CONSTANTS
    a = a
    b = b
    none = none
    MaxSends = 3
    IDs = {a, b}
    Capacity = 1
    RecentCap = 2
    None = none
SPECIFICATION Spec
INVARIANTS SendsAgree CountersAddUp  LatestIsNewestFirst
SYMMETRY Symmetry
