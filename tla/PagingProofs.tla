---------------------------- MODULE PagingProofs ----------------------------
(* Proofs about Paging, for any page size, any rows and any number of pages. *)
EXTENDS Paging, TLAPS

\* What Append does to the pages: one more at the end (a request for a page).
LEMMA PageAppended ==
    ASSUME NEW S, NEW s \in Seq(S), NEW e \in S
    PROVE  /\ Append(s, e) \in Seq(S) /\ Append(s, e) # <<>>
           /\ Len(Append(s, e)) = Len(s) + 1 /\ Len(s) \in Nat
           /\ Append(s, e)[Len(s) + 1] = e
           /\ \A n \in 1 .. Len(s) : Append(s, e)[n] = s[n]
OBVIOUS

\* The rows returned after one more page.
LEMMA ReturnedGrows ==
    ASSUME PagingInv, NEW page \in SUBSET IDs, pages' = Append(pages, page)
    PROVE  Returned' = Returned \cup page
<1>1. pages \in Seq(SUBSET IDs)
    BY DEF PagingInv
<1>2. /\ Len(pages') = Len(pages) + 1 /\ Len(pages) \in Nat
      /\ pages'[Len(pages) + 1] = page
      /\ \A n \in 1 .. Len(pages) : pages'[n] = pages[n]
    BY <1>1, PageAppended
<1>3. ASSUME NEW i \in Returned' PROVE i \in Returned \cup page
    <2>1. PICK n \in 1 .. Len(pages') : i \in pages'[n]
        BY <1>3 DEF Returned
    <2>2. n \in 1 .. Len(pages) \/ n = Len(pages) + 1
        BY <1>2
    <2> QED BY <1>2, <2>1, <2>2 DEF Returned
<1>4. ASSUME NEW i \in Returned PROVE i \in Returned'
    <2>1. PICK n \in 1 .. Len(pages) : i \in pages[n]
        BY <1>4 DEF Returned
    <2>2. n \in 1 .. Len(pages') /\ pages'[n] = pages[n]
        BY <1>2
    <2> QED BY <2>1, <2>2 DEF Returned
<1>5. ASSUME NEW i \in page PROVE i \in Returned'
    <2>1. Len(pages) + 1 \in 1 .. Len(pages')
        BY <1>2
    <2> QED BY <1>2, <2>1 DEF Returned
<1> QED BY <1>3, <1>4, <1>5

\* A page keeps the invariant (List, NewPage).
LEMMA ReadPageStep ==
    ASSUME PagingInv, ReadPage
    PROVE  PagingInv'
<1>1. /\ visible \subseteq IDs /\ matching \subseteq IDs /\ window \in Nat
      /\ pages \in Seq(SUBSET IDs) /\ cursor \in Nat /\ ~ended
    BY DEF PagingInv, ReadPage
<1> DEFINE rows == Below(cursor)
<1>2. PICK page \in SUBSET rows :
        /\ IsPage(page, rows) /\ pages' = Append(pages, page)
        /\ NextCursor(page, rows, cursor')
    BY DEF ReadPage
<1>3. rows \subseteq IDs /\ rows \subseteq InFilter /\ \A i \in rows : cursor = 0 \/ i < cursor
    BY <1>1 DEF Below, InFilter
<1>4. /\ pages' \in Seq(SUBSET IDs) /\ pages' # <<>>
      /\ Len(pages') = Len(pages) + 1 /\ Len(pages) \in Nat
      /\ pages'[Len(pages) + 1] = page
      /\ \A n \in 1 .. Len(pages) : pages'[n] = pages[n]
    BY <1>1, <1>2, <1>3, PageAppended
<1>5. ended' = ~HasMore(rows) /\ InFilter' = InFilter
    BY DEF ReadPage, InFilter
<1>6. cursor' \in Nat /\ (~ended' => cursor' # 0)
    BY <1>1, <1>2, <1>3, <1>5 DEF NextCursor, IDs
<1>7. \A n \in 1 .. Len(pages) : \A i \in pages[n] : i \in IDs /\ cursor <= i
    BY <1>1 DEF PagingInv
<1>8. \A n \in 1 .. Len(pages) : \A i \in pages[n], j \in page : j < i
    <2> SUFFICES ASSUME NEW n \in 1 .. Len(pages), NEW i \in pages[n], NEW j \in page
                 PROVE  j < i
        OBVIOUS
    <2>1. cursor # 0
        <3>1. pages # <<>>
            BY <1>1
        <3> QED BY <1>1, <3>1 DEF PagingInv
    <2> QED BY <1>1, <1>3, <1>7, <2>1 DEF IDs
<1>9. ~ended' => \A n \in 1 .. Len(pages') : \A i \in pages'[n] : cursor' <= i
    <2> SUFFICES ASSUME ~ended', NEW n \in 1 .. Len(pages'), NEW i \in pages'[n]
                 PROVE  cursor' <= i
        OBVIOUS
    <2>1. cursor' \in page /\ \A k \in page : cursor' <= k
        BY <1>2, <1>5 DEF NextCursor
    <2>2. CASE n = Len(pages) + 1
        BY <1>4, <2>1, <2>2
    <2>3. CASE n \in 1 .. Len(pages)
        <3>1. i \in pages[n] /\ i \in IDs
            BY <1>4, <1>7, <2>3
        <3>2. cursor' < i
            BY <1>8, <2>1, <2>3, <3>1
        <3> QED BY <1>6, <3>1, <3>2 DEF IDs
    <2> QED BY <1>4, <2>2, <2>3
<1>10. listed' \ dropped' \subseteq Returned' \cup Owed'
    <2>1. Returned' = Returned \cup page
        BY <1>2, <1>3, ReturnedGrows
    <2>2. rows \subseteq page \cup Owed'
        <3>1. CASE ended'
            BY <1>2, <1>5, <3>1 DEF IsPage
        <3>2. CASE ~ended'
            <4>1. cursor' \in page
                BY <1>2, <1>5, <3>2 DEF NextCursor
            <4>2. \A j \in rows \ page : j < cursor'
                BY <1>2, <4>1 DEF IsPage
            <4>3. Owed' = {i \in InFilter : i < cursor'}
                BY <1>5, <3>2 DEF Owed
            <4> QED BY <1>3, <4>2, <4>3
        <3> QED BY <3>1, <3>2
    <2>3. listed' \ dropped' \subseteq Returned \cup rows
        <3>1. CASE pages = <<>>
            <4>1. listed' = InFilter /\ cursor = 0
                BY <3>1 DEF ReadPage, PagingInv
            <4> QED BY <4>1 DEF Below
        <3>2. CASE pages # <<>>
            <4>1. listed' = listed /\ dropped' = dropped
                BY <3>2 DEF ReadPage
            <4>2. listed \ dropped \subseteq Returned \cup Owed
                BY <3>2 DEF PagingInv
            <4>3. Owed \subseteq rows
                BY <1>1 DEF Owed, Below
            <4> QED BY <4>1, <4>2, <4>3
        <3> QED BY <3>1, <3>2
    <2> QED BY <2>1, <2>2, <2>3
<1>11. NeverRepeats'
    <2> SUFFICES ASSUME NEW m \in 1 .. Len(pages'), NEW n \in 1 .. Len(pages'), m < n,
                        NEW i \in pages'[m], NEW j \in pages'[n]
                 PROVE  j < i
        BY DEF NeverRepeats
    <2>1. m \in 1 .. Len(pages) /\ i \in pages[m]
        BY <1>4
    <2>2. CASE n = Len(pages) + 1
        BY <1>4, <1>8, <2>1, <2>2
    <2>3. CASE n \in 1 .. Len(pages)
        <3>1. j \in pages[n]
            BY <1>4, <2>3
        <3> QED BY <2>1, <2>3, <3>1 DEF PagingInv, NeverRepeats
    <2> QED BY <1>4, <2>2, <2>3
<1>12. visible' \subseteq IDs /\ matching' \subseteq IDs /\ window' \in Nat /\ ended' \in BOOLEAN
    BY <1>1, <1>5 DEF ReadPage, HasMore
<1> QED BY <1>4, <1>6, <1>9, <1>10, <1>11, <1>12 DEF PagingInv

\* What others do to the rows leaves what was returned alone, and what is still
\* owed visible below the cursor.
LEMMA OthersStep ==
    ASSUME PagingInv, MoveWindow \/ \E i \in IDs : Insert(i) \/ ChangeStatus(i)
    PROVE  PagingInv'
<1>1. UNCHANGED <<pages, cursor, ended, listed>>
    BY DEF MoveWindow, Insert, ChangeStatus
<1>2. visible \subseteq IDs /\ matching \subseteq IDs /\ window \in Nat
    BY DEF PagingInv
<1> DEFINE Kept == /\ visible' \subseteq IDs /\ matching' \subseteq IDs /\ window' \in Nat
                   /\ InFilter \ dropped' \subseteq InFilter' /\ dropped \subseteq dropped'
<1>3. Kept
    <2>1. CASE MoveWindow
        <3>1. /\ visible' = visible /\ matching' = matching
              /\ window' = window + 1 /\ dropped' = dropped \cup {window}
            BY <2>1 DEF MoveWindow
        <3>2. \A i \in IDs : i >= window /\ i # window => i >= window + 1
            BY <1>2 DEF IDs
        <3> QED BY <1>2, <3>1, <3>2 DEF InFilter
    <2>2. ASSUME NEW i \in IDs, Insert(i) PROVE Kept
        BY <1>2, <2>2 DEF Insert, InFilter
    <2>3. ASSUME NEW i \in IDs, ChangeStatus(i) PROVE Kept
        <3>1. visible' = visible /\ window' = window
            BY <2>3 DEF ChangeStatus
        <3>2. /\ matching' \subseteq IDs /\ dropped \subseteq dropped'
              /\ matching \ dropped' \subseteq matching'
            BY <1>2, <2>3 DEF ChangeStatus
        <3> QED BY <1>2, <3>1, <3>2 DEF InFilter
    <2> QED BY <2>1, <2>2, <2>3
<1>4. pages # <<>> => listed \ dropped' \subseteq Returned \cup Owed'
    <2>1. Owed \ dropped' \subseteq Owed'
        BY <1>1, <1>3 DEF Owed
    <2>2. pages # <<>> => listed \ dropped \subseteq Returned \cup Owed
        BY DEF PagingInv
    <2> QED BY <1>3, <2>1, <2>2
<1>5. Returned' = Returned /\ NeverRepeats'
    BY <1>1 DEF Returned, PagingInv, NeverRepeats
<1> QED BY <1>1, <1>3, <1>4, <1>5 DEF PagingInv

\* The invariant of a listing, whatever is inserted, changed or outdated meanwhile.
THEOREM PagingInvariant == Spec => []PagingInv
<1>1. Init => PagingInv
    <2> SUFFICES ASSUME Init PROVE PagingInv
        OBVIOUS
    <2>1. pages = <<>> /\ Len(pages) = 0 /\ pages \in Seq(SUBSET IDs) /\ cursor = 0 /\ ended = FALSE
        BY DEF Init
    <2>2. visible \subseteq IDs /\ matching \subseteq IDs /\ window \in Nat
        BY DEF Init
    <2>3. NeverRepeats
        BY <2>1 DEF NeverRepeats
    <2>4. \A n \in 1 .. Len(pages) : \A i \in pages[n] : cursor <= i
        BY <2>1
    <2>5. cursor \in Nat /\ ended \in BOOLEAN
        BY <2>1
    <2> QED BY <2>1, <2>2, <2>3, <2>4, <2>5, Zenon DEF PagingInv
<1>2. PagingInv /\ [Next]_vars => PagingInv'
    <2> SUFFICES ASSUME PagingInv, [Next]_vars PROVE PagingInv'
        OBVIOUS
    <2>1. CASE Next
        BY <2>1, ReadPageStep, OthersStep DEF Next
    <2>2. CASE UNCHANGED vars
        BY <2>2 DEF vars, PagingInv, NeverRepeats, Returned, Owed, InFilter
    <2> QED BY <2>1, <2>2
<1> QED BY <1>1, <1>2, PTL DEF Spec

\* No row comes twice in a listing (docs: paging "does not skip or repeat items").
THEOREM ListingsNeverRepeat == Spec => []NeverRepeats
<1>1. PagingInv => NeverRepeats
    BY DEF PagingInv
<1> QED BY <1>1, PagingInvariant, PTL

\* No row that was there all the time is missing from a listing that has ended.
THEOREM ListingsNeverSkip == Spec => []NeverSkips
<1>1. PagingInv => NeverSkips
    BY DEF PagingInv, NeverSkips, Owed
<1> QED BY <1>1, PagingInvariant, PTL

==============================================================================
