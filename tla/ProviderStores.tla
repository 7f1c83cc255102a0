--------------------------- MODULE ProviderStores ---------------------------
(* The two bounded stores of internal/fakeprovider, each behind a mutex: the *)
(* deduplication store (dedup.go), which maps message IDs to acceptances    *)
(* and forgets the oldest, and the log of recent records (recent.go).       *)
(*                                                                          *)
(* A ref is the position of the acceptance in the order of acceptances:     *)
(* refs are taken to be unique.                                             *)
EXTENDS Integers, Sequences, FiniteSets, SequencesExt, FiniteSetsExt

CONSTANTS
    IDs,           \* message IDs
    Capacity,      \* dedupCapacity
    RecentCap,     \* recentCapacity
    MaxSends,      \* bound: records and acceptances
    None

ASSUME StoresAssumption ==
    MaxSends \in Nat /\ Capacity \in Nat \ {0} /\ RecentCap \in Nat \ {0}

Sends == 1 .. MaxSends

VARIABLES
    entries,         \* dedupStore.entries: the ref of an ID
    order, next,     \* dedupStore.order and dedupStore.next
    accepts,         \* history: the IDs in the order of their acceptance
    recent, newest,  \* recentLog.records and recentLog.next
    adds             \* history: the records in the order of recent.add

dedup == <<entries, order, next, accepts>>
recentVars == <<recent, newest, adds>>

StoresInit ==
    /\ entries = [i \in IDs |-> None]
    /\ order = <<>> /\ next = 0 /\ accepts = <<>>
    /\ recent = <<>> /\ newest = 0 /\ adds = <<>>

\* Mutant: nothing is ever known.
KnownNever(i) == FALSE

\* Has the ID an entry (dedupStore.get, and again in dedupStore.add)?
Known(i) == entries[i] # None


\* dedupStore.add of an unknown ID: at capacity, the oldest entry goes.
DedupAdd(i) ==
    /\ accepts' = Append(accepts, i)
    /\ IF Len(order) < Capacity
       THEN /\ order' = Append(order, i)
            /\ entries' = [entries EXCEPT ![i] = Len(accepts')]
            /\ UNCHANGED next
       ELSE /\ entries' = [entries EXCEPT ![order[next + 1]] = None, ![i] = Len(accepts')]
            /\ order' = [order EXCEPT ![next + 1] = i]
            /\ next' = (next + 1) % Capacity

\* recentLog.add.
RecentAdd(r) ==
    /\ adds' = Append(adds, r)
    /\ IF Len(recent) < RecentCap
       THEN recent' = Append(recent, r) /\ UNCHANGED newest
       ELSE /\ recent' = [recent EXCEPT ![newest + 1] = r]
            /\ newest' = (newest + 1) % RecentCap

------------------------------------------------------------------------------
(* Properties *)


\* Mutant: the wrap of the ring is forgotten.
LatestUnwrapped ==
    LET size == Len(recent)
    IN [i \in 1 .. size |-> recent[((size - 1 - (i - 1) + size) % size) + 1]]

\* latest: the records of the admin view, newest first.
Latest ==
    LET size == Len(recent)
        first == IF size = RecentCap THEN (newest - 1 + size) % size ELSE size - 1
    IN [i \in 1 .. size |-> recent[((first - (i - 1) + size) % size) + 1]]

\* The admin view lists the latest records in reverse order of their arrival in
\* the log ("newest first"), before and after the ring has wrapped.
LatestIsNewestFirst ==
    Latest = [i \in 1 .. Min({RecentCap, Len(adds)}) |-> adds[Len(adds) - i + 1]]

==============================================================================
