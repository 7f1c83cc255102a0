\* One instance.  The slowest rate fills its bucket within IdleAfter, as 1 message
\* per second does with the 500 and the 10 minutes of the code.
CONSTANTS
    a = a
    p1 = p1
    p2 = p2
    none = none
    Customers = {a}
    Rates = {1, 2}
    Instances = 1
    MinBurst = 2
    Sizes = {1, 2}
    IdleAfter = 2
    Threads = {p1, p2}
    MaxTime = 5
    None = none
SPECIFICATION Spec
INVARIANTS AdmissionBounded 
SYMMETRY Symmetry
