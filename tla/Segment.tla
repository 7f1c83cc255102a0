------------------------------ MODULE Segment ------------------------------
(* Segment counting: Count of internal/segment/segment.go, which sets the   *)
(* price of a message.  A character is one of four classes: in the GSM      *)
(* 03.38 alphabet, in its extension table, another character of the basic   *)
(* plane, or one beyond it.  A text is any sequence of characters; every    *)
(* step is one turn of the loops over it.                                   *)
(*                                                                          *)
(* Beside the greedy loop runs somebody who cuts the same text into parts   *)
(* as they like.                                                            *)
EXTENDS Integers

CONSTANTS
    GSM7Single, GSM7Part,   \* capacities in septets
    UCS2Single, UCS2Part    \* capacities in UTF-16 code units

\* What matters of 160, 153, 70 and 67: a part is smaller than a single segment
\* and holds any character.
Capacities ==
    /\ {GSM7Single, GSM7Part, UCS2Single, UCS2Part} \subseteq Nat
    /\ 2 <= GSM7Part /\ GSM7Part < GSM7Single
    /\ 2 <= UCS2Part /\ UCS2Part < UCS2Single

Class == {"basic", "extension", "bmp", "astral"}

VARIABLES
    classes,         \* the classes of the characters in the text
    total,           \* units so far
    segments, used,  \* parts so far, and units in the last one
    cuts, fill       \* history: the same for the other way to cut the text

vars == <<classes, total, segments, used, cuts, fill>>

Detect(seen) == IF seen \subseteq {"basic", "extension"} THEN "gsm7" ELSE "ucs2"

\* The units of character r.
width(enc, r) ==
    IF enc = "gsm7" THEN (IF r = "extension" THEN 2 ELSE 1)
                    ELSE (IF r = "astral" THEN 2 ELSE 1)

Single == IF Detect(classes) = "gsm7" THEN GSM7Single ELSE UCS2Single
Part == IF Detect(classes) = "gsm7" THEN GSM7Part ELSE UCS2Part

Init ==
    /\ classes \in SUBSET Class
    /\ total = 0
    /\ segments = 1 /\ used = 0
    /\ cuts = 1 /\ fill = 0

\* Fill parts greedily: a character that does not fit starts the next part.
Greedy(w) ==
    IF used + w > Part
    THEN segments' = segments + 1 /\ used' = w
    ELSE segments' = segments /\ used' = used + w

\* Another way: a part may be left before it is full.
OtherCut(w) ==
    \/ cuts' = cuts + 1 /\ fill' = w
    \/ fill + w <= Part /\ cuts' = cuts /\ fill' = fill + w

Character(r) ==
    LET w == width(Detect(classes), r)
    IN /\ total' = total + w
       /\ Greedy(w)
       /\ OtherCut(w)
       /\ UNCHANGED classes

Next == \E r \in classes : Character(r)

Spec == Init /\ [][Next]_vars

\* Count(text).Segments of a text that ends here, if n parts were filled.
Result(n) == IF total = 0 THEN 0 ELSE IF total <= Single THEN 1 ELSE n
Count == Result(segments)

------------------------------------------------------------------------------
(* Properties *)

\* A customer never pays for more segments than needed: no way to cut the text
\* that keeps two-unit characters together takes fewer messages than Count.
CountIsMinimal == Count <= Result(cuts)

\* Nor for fewer than it takes: the parts hold the text (Count's result times
\* the capacity of a part, or a single segment).
CountSuffices == total <= Single \/ total <= Count * Part

\* A longer text of the same encoding never costs less.
LongerNeverCostsLess == [][Count' >= Count]_vars

\* The inductive invariant: the greedy loop is never behind, part for part and,
\* in the same part, unit for unit.
SegmentInv ==
    /\ classes \subseteq Class
    /\ {total, segments, used, cuts, fill} \subseteq Nat
    /\ segments >= 1 /\ cuts >= 1
    /\ used <= Part /\ fill <= Part
    /\ segments < cuts \/ (segments = cuts /\ used <= fill)
    /\ total <= (segments - 1) * Part + used

==============================================================================
