------------------------------- MODULE Paging -------------------------------
(* Keyset pagination: List and ListAll of internal/message, List of         *)
(* internal/customer, ListTransactions of internal/billing and NewPage of   *)
(* internal/httpx, by one reader while rows are inserted, change and leave  *)
(* the window of the filter.                                                *)
(*                                                                          *)
(* An ID is a number.  IDs are generated in the processes before the        *)
(* transactions commit, so rows become visible in any order.  The rows of a *)
(* page are a set; its order is that of the IDs.                            *)
EXTENDS Integers, Sequences, FiniteSets

CONSTANT Limit      \* the page size

IDs == Nat \ {0}

VARIABLES
    visible,   \* committed rows
    matching,  \* rows that pass the filter on status, type, recipient or kind
    window,    \* the smallest ID that is not too old for the lower bound
    pages,     \* the pages read so far
    cursor,    \* next_cursor of the last one: 0 starts at the newest
    ended,     \* next_cursor was null
    listed,    \* history: rows the first page's query could see
    dropped    \* history: rows that stopped to match or left the window since

vars == <<visible, matching, window, pages, cursor, ended, listed, dropped>>

Init ==
    /\ visible \in SUBSET IDs /\ IsFiniteSet(visible)
    /\ matching \in SUBSET IDs
    /\ window = 1
    /\ pages = <<>> /\ cursor = 0 /\ ended = FALSE
    /\ listed = {} /\ dropped = {}

------------------------------------------------------------------------------
(* Reading *)

InFilter == {i \in visible \cap matching : i >= window}

\* The WHERE clause; NullID turns the zero cursor into no bound.
Below(after) == {i \in InFilter : after = 0 \/ i < after}

\* The query asks for Limit + 1 rows: is there one beyond the page?
HasMore(rows) == Cardinality(rows) > Limit

\* ORDER BY id DESC LIMIT: the newest of the rows, at most Limit of them.
IsPage(page, rows) ==
    /\ \A i \in page, j \in rows \ page : j < i
    /\ IF HasMore(rows) THEN Cardinality(page) = Limit /\ page # {} ELSE page = rows

\* NewPage: the last ID of a page that is not the last one, encoded and decoded
\* again by Cursor.
NextCursor(page, rows, c) ==
    IF HasMore(rows) THEN c \in page /\ \A i \in page : c <= i ELSE c = cursor

\* One request for a page.
ReadPage ==
    /\ ~ended
    /\ \E page \in SUBSET Below(cursor) :
        /\ IsPage(page, Below(cursor))
        /\ pages' = Append(pages, page)
        /\ NextCursor(page, Below(cursor), cursor')
    /\ ended' = ~HasMore(Below(cursor))
    /\ listed' = IF pages = <<>> THEN InFilter ELSE listed
    /\ dropped' = IF pages = <<>> THEN {} ELSE dropped
    /\ UNCHANGED <<visible, matching, window>>

------------------------------------------------------------------------------
(* Meanwhile *)

Insert(i) ==
    /\ i \notin visible
    /\ visible' = visible \cup {i}
    /\ UNCHANGED <<matching, window, pages, cursor, ended, listed, dropped>>

\* A message's status changes, or the row goes with its customer.
ChangeStatus(i) ==
    /\ i \in visible
    /\ matching' = IF i \in matching THEN matching \ {i} ELSE matching \cup {i}
    /\ dropped' = IF i \in matching THEN dropped \cup {i} ELSE dropped
    /\ UNCHANGED <<visible, window, pages, cursor, ended, listed>>

\* Time passes: ListAll without customer and since computes its lower bound,
\* 24 hours ago, anew for each page.
MoveWindow ==
    /\ window' = window + 1
    /\ dropped' = dropped \cup {window}
    /\ UNCHANGED <<visible, matching, pages, cursor, ended, listed>>

Next ==
    \/ ReadPage \/ MoveWindow
    \/ \E i \in IDs : Insert(i) \/ ChangeStatus(i)

Spec == Init /\ [][Next]_vars

------------------------------------------------------------------------------
(* Properties *)

\* Pages are newest first across pages, and a page is a set of rows: so no row
\* is repeated ("does not skip or repeat items when new rows are inserted
\* during paging").
NeverRepeats ==
    \A m, n \in 1 .. Len(pages) : m < n => \A i \in pages[m], j \in pages[n] : j < i

Returned == UNION {pages[n] : n \in 1 .. Len(pages)}

\* A listing that has ended returned every row that was there when it began and
\* still passed the filter when its turn came, however many rows were inserted.
NeverSkips == ended => listed \ dropped \subseteq Returned

\* The inductive invariant: what was returned is not below the cursor, and what
\* is still owed is below it and can be seen.
Owed == IF ended THEN {} ELSE {i \in InFilter : i < cursor}

PagingInv ==
    /\ visible \subseteq IDs /\ matching \subseteq IDs /\ window \in Nat
    /\ pages \in Seq(SUBSET IDs) /\ cursor \in Nat /\ ended \in BOOLEAN
    /\ pages = <<>> => cursor = 0 /\ ~ended
    /\ pages # <<>> /\ ~ended => cursor # 0
    /\ ~ended => \A n \in 1 .. Len(pages) : \A i \in pages[n] : cursor <= i
    /\ pages # <<>> => listed \ dropped \subseteq Returned \cup Owed
    /\ NeverRepeats

==============================================================================
