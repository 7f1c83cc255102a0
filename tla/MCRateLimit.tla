----------------------------- MODULE MCRateLimit -----------------------------
EXTENDS RateLimit, TLC

Symmetry == Permutations(Threads) \cup Permutations(Customers)

==============================================================================
