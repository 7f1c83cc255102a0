----------------------------- MODULE MCBatcher -----------------------------
(* Two conflicting reports about one message.                              *)
EXTENDS Batcher

CONSTANTS d1, d2, m1

MsgOf == [d \in Deliveries |-> m1]
ReportedOf == [d \in Deliveries |-> IF d = d2 THEN "undelivered" ELSE "delivered"]
=============================================================================
