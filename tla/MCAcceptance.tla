---------------------------- MODULE MCAcceptance ----------------------------
(* Bodies of one and two segments, and one that is too long.                *)
EXTENDS Acceptance

CONSTANTS x, y, z

SegmentsOf == [b \in Bodies |-> CASE b = x -> 1 [] b = y -> 2 [] b = z -> 3]
PriceOf == [b \in Bodies |-> 1]
==============================================================================
