--------------------------- MODULE MCHousekeeping ---------------------------
(* Two workers and two rows whose customers hash to 2 and 5.                *)
EXTENDS Housekeeping

CONSTANTS w1, w2, r1, r2, none

HashOfRows == [r \in Rows |-> IF r = r1 THEN 2 ELSE 5]

==============================================================================
