----------------------------- MODULE MCKeyCache -----------------------------
EXTENDS KeyCache, TLC

Symmetry == Permutations(Calls) \cup Permutations(Limits)

==============================================================================
