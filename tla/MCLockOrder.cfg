\* Two completers, the expire task, a batch of reports and flagSLA.
CONSTANTS
    Messages = {1, 2}
    Customers = {1, 2}
    Owner <- MCOwner
    c1 = c1
    c2 = c2
    e = e
    f = f
    p = p
    Completers = {c1, c2}
    Expirers = {e}
    Flaggers = {f}
    Reporters = {p}
SPECIFICATION Spec
INVARIANT OrderedLocksNeverCycle
SYMMETRY Symmetry
