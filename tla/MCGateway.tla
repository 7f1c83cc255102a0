----------------------------- MODULE MCGateway -----------------------------
(* Instances of Gateway for TLC.                                            *)
EXTENDS Gateway, TLC

CONSTANTS c1, m1, m2, p1, p2, w1, w2

OneMessage == {m1}
OwnerOne == [m \in {m1} |-> c1]
CostOne == [m \in {m1} |-> 2]
=============================================================================
