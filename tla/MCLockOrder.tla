---------------------------- MODULE MCLockOrder -----------------------------
EXTENDS LockOrder, TLC

\* The order of the customers is not that of the messages.
MCOwner == [m \in Messages |-> IF m = 2 THEN 1 ELSE 2]

Symmetry == Permutations(Completers)
==============================================================================
