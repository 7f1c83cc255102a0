--------------------------- MODULE MCFakeProvider ---------------------------
EXTENDS FakeProvider, TLC

Symmetry == Permutations(IDs)

==============================================================================
