--------------------------- MODULE SegmentProofs ---------------------------
(* Proofs about Segment, for all capacities and texts of any length.        *)
EXTENDS Segment, TLAPS

\* What a part and a single segment hold, whatever the encoding (segment.go:20).
LEMMA PartHoldsACharacter ==
    ASSUME Capacities
    PROVE  Part \in Nat /\ Single \in Nat /\ 2 <= Part /\ Part < Single
BY DEF Capacities, Part, Single

\* A character takes one or two units (width).
LEMMA OneOrTwoUnits ==
    ASSUME NEW enc, NEW r
    PROVE  width(enc, r) \in {1, 2}
BY DEF width

\* What one more part adds to the room of the parts before the last.
LEMMA OneMorePart ==
    ASSUME NEW n \in Nat, NEW p \in Nat, n >= 1
    PROVE  /\ (n - 1) * p \in Nat
           /\ n * p = (n - 1) * p + p
<1>1. PICK k \in Nat : n = k + 1
    <2>1. n - 1 \in Nat /\ n = (n - 1) + 1
        OBVIOUS
    <2> QED BY <2>1
<1>2. k * p \in Nat /\ (k + 1) * p = k * p + p
    OBVIOUS
<1> QED BY <1>1, <1>2

\* The greedy loop stays ahead through every character (Count's loop).
LEMMA CharacterKeepsSegmentInv ==
    ASSUME Capacities, SegmentInv, NEW r \in classes, Character(r)
    PROVE  SegmentInv'
<1> DEFINE w == width(Detect(classes), r)
<1>1. w \in {1, 2}
    BY OneOrTwoUnits
<1>2. Part \in Nat /\ 2 <= Part
    BY PartHoldsACharacter
<1>3. Part' = Part /\ classes' = classes
    BY DEF Character, Part, Detect
<1>4. total' = total + w /\ Greedy(w) /\ OtherCut(w)
    BY DEF Character
<1>5. {total, segments, used, cuts, fill} \subseteq Nat /\ segments >= 1 /\ cuts >= 1
    BY DEF SegmentInv
<1>6. /\ (segments - 1) * Part \in Nat
      /\ segments * Part = (segments - 1) * Part + Part
    BY <1>2, <1>5, OneMorePart
<1> HIDE DEF w
<1>7. {total', segments', used', cuts', fill'} \subseteq Nat /\ segments' >= 1 /\ cuts' >= 1
    BY <1>1, <1>4, <1>5 DEF Greedy, OtherCut
<1>8. used' <= Part /\ fill' <= Part
    BY <1>1, <1>2, <1>4, <1>5 DEF Greedy, OtherCut
<1>9. segments' < cuts' \/ (segments' = cuts' /\ used' <= fill')
    <2>1. segments < cuts \/ (segments = cuts /\ used <= fill)
        BY DEF SegmentInv
    <2>2. used <= Part /\ fill <= Part
        BY DEF SegmentInv
    <2> QED BY <1>1, <1>2, <1>4, <1>5, <2>1, <2>2 DEF Greedy, OtherCut
<1>10. total' <= (segments' - 1) * Part + used'
    <2>1. total <= (segments - 1) * Part + used /\ used <= Part
        BY DEF SegmentInv
    <2>2. CASE used + w > Part
        <3>1. segments' = segments + 1 /\ used' = w
            BY <1>4, <2>2 DEF Greedy
        <3>2. (segments' - 1) * Part = (segments - 1) * Part + Part
            <4>1. segments' - 1 = segments
                BY <1>5, <3>1
            <4> QED BY <1>6, <4>1
        <3> DEFINE room == (segments - 1) * Part
        <3>3. room \in Nat /\ total <= room + used /\ (segments' - 1) * Part = room + Part
            BY <1>6, <2>1, <3>2
        <3> HIDE DEF room
        <3> QED BY <1>1, <1>2, <1>4, <1>5, <2>1, <3>1, <3>3
    <2>3. CASE ~(used + w > Part)
        <3>1. segments' = segments /\ used' = used + w
            BY <1>4, <2>3 DEF Greedy
        <3> DEFINE room == (segments - 1) * Part
        <3>2. room \in Nat /\ total <= room + used /\ (segments' - 1) * Part = room
            BY <1>6, <2>1, <3>1
        <3> HIDE DEF room
        <3> QED BY <1>1, <1>4, <1>5, <3>1, <3>2
    <2> QED BY <2>2, <2>3
<1> QED BY <1>3, <1>7, <1>8, <1>9, <1>10 DEF SegmentInv

\* The invariant of the loop, for every text and every capacity (Count).
THEOREM SegmentInvariant == ASSUME Capacities PROVE Spec => []SegmentInv
<1>1. Init => SegmentInv
    <2> SUFFICES ASSUME Init PROVE SegmentInv
        OBVIOUS
    <2>1. Part \in Nat
        BY PartHoldsACharacter
    <2>2. (1 - 1) * Part = 0
        BY <2>1
    <2> QED BY <2>1, <2>2 DEF Init, SegmentInv
<1>2. SegmentInv /\ [Next]_vars => SegmentInv'
    <2> SUFFICES ASSUME SegmentInv, [Next]_vars PROVE SegmentInv'
        OBVIOUS
    <2>1. CASE Next
        BY <2>1, CharacterKeepsSegmentInv DEF Next
    <2>2. CASE UNCHANGED vars
        BY <2>2 DEF vars, SegmentInv, Part, Detect
    <2> QED BY <2>1, <2>2
<1> QED BY <1>1, <1>2, PTL DEF Spec

\* The greedy loop of Count is optimal: no way to cut a text into parts without
\* splitting a character needs fewer of them.
THEOREM GreedyIsMinimal == ASSUME Capacities PROVE Spec => []CountIsMinimal
<1>1. SegmentInv => CountIsMinimal
    BY DEF SegmentInv, CountIsMinimal, Count, Result
<1> QED BY <1>1, SegmentInvariant, PTL

\* The segments that Count returns have room for the text.
THEOREM SegmentsHoldTheText == ASSUME Capacities PROVE Spec => []CountSuffices
<1>1. SegmentInv => CountSuffices
    <2> SUFFICES ASSUME SegmentInv, ~(total <= Single) PROVE total <= Count * Part
        BY DEF CountSuffices
    <2>1. Part \in Nat /\ Single \in Nat
        BY PartHoldsACharacter
    <2>2. Count = segments
        BY <2>1 DEF Count, Result, SegmentInv
    <2>3. segments * Part = (segments - 1) * Part + Part /\ (segments - 1) * Part \in Nat
        BY <2>1, OneMorePart DEF SegmentInv
    <2> DEFINE room == (segments - 1) * Part
    <2>4. room \in Nat /\ total <= room + used /\ used <= Part /\ segments * Part = room + Part
        BY <2>3 DEF SegmentInv
    <2>5. used \in Nat /\ total \in Nat
        BY DEF SegmentInv
    <2> HIDE DEF room
    <2> QED BY <2>1, <2>2, <2>4, <2>5
<1> QED BY <1>1, SegmentInvariant, PTL

\* One more character never makes a message cheaper (Count), also where the text
\* outgrows the single segment and its parts are smaller.
THEOREM LongerCostsAtLeastAsMuch == ASSUME Capacities PROVE Spec => LongerNeverCostsLess
<1>1. SegmentInv /\ SegmentInv' /\ [Next]_vars => [Count' >= Count]_vars
    <2> SUFFICES ASSUME SegmentInv, SegmentInv', NEW r \in classes, Character(r)
                 PROVE  Count' >= Count
        BY DEF Next
    <2> DEFINE w == width(Detect(classes), r)
    <2>1. w \in {1, 2}
        BY OneOrTwoUnits
    <2>2. Part \in Nat /\ Single \in Nat
        BY PartHoldsACharacter
    <2>3. Single' = Single
        BY DEF Character, Single, Detect
    <2>4. total' = total + w /\ Greedy(w)
        BY DEF Character
    <2> HIDE DEF w
    <2>5. total \in Nat /\ segments \in Nat /\ used \in Nat /\ segments >= 1
        BY DEF SegmentInv
    <2>6. segments' \in Nat /\ segments' >= segments
        BY <2>4, <2>5 DEF Greedy
    <2> QED BY <2>1, <2>2, <2>3, <2>4, <2>5, <2>6 DEF Count, Result
<1>2. Spec => [][Count' >= Count]_vars
    BY <1>1, SegmentInvariant, PTL DEF Spec
<1> QED BY <1>2 DEF LongerNeverCostsLess

==============================================================================
