------------------------------ MODULE KeyCache ------------------------------
(* Authentication of API keys: Authenticator of internal/auth/authenticator.go *)
(* against the operator's changes of one customer (RotateKey, Update and    *)
(* Delete of internal/customer/customer.go).                                *)
(*                                                                          *)
(* Calls of Authenticate run concurrently.  Each reads the clock once,      *)
(* looks into the cache under the mutex, and on a miss asks the database    *)
(* and stores what it found, again under the mutex; anything may happen     *)
(* between these steps, and a step may take any time.                       *)
EXTENDS Integers, Sequences, FiniteSets, SequencesExt

CONSTANTS
    Calls,        \* calls of Authenticate
    MaxKeys,      \* bound: keys 1 .. MaxKeys, in the order they are generated
    Malformed,    \* a key ValidKeyFormat refuses
    Limits,       \* values of rate_limit_rps
    TTL,          \* the cache lifetime, in ticks
    MaxTime,      \* bound: the last tick
    MaxChanges,   \* bound: changes of the customer's row
    None

ASSUME KeyCacheAssumption ==
    /\ MaxKeys \in Nat \ {0} /\ Malformed \notin 1 .. MaxKeys
    /\ TTL \in Nat \ {0} /\ MaxTime \in Nat /\ MaxChanges \in Nat

Keys == 1 .. MaxKeys

VARIABLES
    clock,      \* the time
    table,      \* the customer's row and its history: <<[at, row], ...>>
    entries,    \* entries[k]: the cached lookup of key k
    lastPurge,  \* Authenticator.lastPurge
    call        \* call[c]: a call of Authenticate

vars == <<clock, table, entries, lastPurge, call>>

Customer == [key : Keys, limit : Limits]
Entry == [limit : Limits, expires : Int]
Stage == {"idle", "cache", "lookup", "store", "done"}
Idle == [pc |-> "idle", key |-> Malformed, now |-> 0, got |-> None, end |-> 0]

TypeOK ==
    /\ clock \in 0 .. MaxTime
    /\ \A h \in ToSet(table) : h.at \in 0 .. MaxTime /\ h.row \in Customer \cup {None}
    /\ entries \in [Keys -> Entry \cup {None}]
    /\ lastPurge \in Int
    /\ call \in [Calls -> [pc : Stage, key : Keys \cup {Malformed}, now : 0 .. MaxTime,
                           got : Limits \cup {None, "unauthorized", "error"}, end : 0 .. MaxTime]]

Row == Last(table).row

\* A zero time.Time is long before any start: the first purge is due.
Init ==
    /\ clock = 0
    /\ \E l \in Limits : table = <<[at |-> 0, row |-> [key |-> 1, limit |-> l]]>>
    /\ entries = [k \in Keys |-> None]
    /\ lastPurge = -TTL
    /\ call = [c \in Calls |-> Idle]

------------------------------------------------------------------------------
(* Authenticate *)

Return(c, what) == call' = [call EXCEPT ![c].pc = "done", ![c].got = what, ![c].end = clock]

Start(c) ==
    /\ call[c].pc = "idle"
    /\ \E k \in Keys \cup {Malformed} :
        call' = [call EXCEPT ![c] =
            IF k = Malformed
            THEN [pc |-> "done", key |-> k, now |-> clock, got |-> "unauthorized", end |-> clock]
            ELSE [Idle EXCEPT !.pc = "cache", !.key = k, !.now = clock]]
    /\ UNCHANGED <<clock, table, entries, lastPurge>>

Hit(c) ==
    /\ entries[call[c].key] # None
    /\ call[c].now < entries[call[c].key].expires

\* Mutant: an expired entry is an answer, too.
ReadCacheRefuses(c) ==
    /\ call[c].pc = "cache"
    /\ CASE Hit(c) -> Return(c, entries[call[c].key].limit)
         [] entries[call[c].key] # None /\ ~Hit(c) -> Return(c, "unauthorized")
         [] OTHER -> call' = [call EXCEPT ![c].pc = "lookup"]
    /\ UNCHANGED <<clock, table, entries, lastPurge>>

ReadCache(c) ==
    /\ call[c].pc = "cache"
    /\ \/ /\ Hit(c)
          /\ Return(c, entries[call[c].key].limit)
       \/ /\ ~Hit(c)
          /\ call' = [call EXCEPT ![c].pc = "lookup"]
    /\ UNCHANGED <<clock, table, entries, lastPurge>>

Lookup(c) ==
    /\ call[c].pc = "lookup"
    /\ \/ /\ Row # None
          /\ Row.key = call[c].key
          /\ call' = [call EXCEPT ![c].pc = "store", ![c].got = Row.limit]
       \/ /\ Row # None => Row.key # call[c].key
          /\ Return(c, "unauthorized")
       \/ Return(c, "error")
    /\ UNCHANGED <<clock, table, entries, lastPurge>>

\* purgeExpiredLocked, the entries it leaves and the new lastPurge.
PurgeDue(now) == now - lastPurge >= TTL
Purged(now) == [k \in Keys |-> IF PurgeDue(now) /\ entries[k] # None /\ now >= entries[k].expires
                               THEN None ELSE entries[k]]

\* Mutant: the lifetime starts when the lookup has ended.
StoreFromEnd(c) ==
    /\ call[c].pc = "store"
    /\ entries' = [Purged(call[c].now) EXCEPT ![call[c].key] =
                    [limit |-> call[c].got, expires |-> clock + TTL]]
    /\ lastPurge' = IF PurgeDue(call[c].now) THEN call[c].now ELSE lastPurge
    /\ Return(c, call[c].got)
    /\ UNCHANGED <<clock, table>>

Store(c) ==
    /\ call[c].pc = "store"
    /\ entries' = [Purged(call[c].now) EXCEPT ![call[c].key] =
                    [limit |-> call[c].got, expires |-> call[c].now + TTL]]
    /\ lastPurge' = IF PurgeDue(call[c].now) THEN call[c].now ELSE lastPurge
    /\ Return(c, call[c].got)
    /\ UNCHANGED <<clock, table>>

------------------------------------------------------------------------------
(* The operator and time *)

Change(row) ==
    /\ Row # None
    /\ Len(table) <= MaxChanges
    /\ table' = Append(table, [at |-> clock, row |-> row])
    /\ UNCHANGED <<clock, entries, lastPurge, call>>

RotateKey == Row # None /\ Row.key < MaxKeys /\ Change([Row EXCEPT !.key = @ + 1])
Update == Row # None /\ \E l \in Limits \ {Row.limit} : Change([Row EXCEPT !.limit = l])
Delete == Change(None)

Tick ==
    /\ clock < MaxTime
    /\ clock' = clock + 1
    /\ UNCHANGED <<table, entries, lastPurge, call>>

Finished == (\A c \in Calls : call[c].pc = "done") /\ UNCHANGED vars

Next ==
    \/ \E c \in Calls : Start(c) \/ ReadCache(c) \/ Lookup(c) \/ Store(c)
    \/ RotateKey \/ Update \/ Delete \/ Tick \/ Finished

Spec == Init /\ [][Next]_vars

------------------------------------------------------------------------------
(* Properties *)

\* The rows the table held at some moment of tick t.
RowsAt(t) == {table[i].row : i \in {j \in 1 .. Len(table) :
                table[j].at <= t /\ (j < Len(table) => t <= table[j + 1].at)}}

\* What a call answers was true within one cache lifetime before it began: "A
\* deleted customer or a rotated key therefore stops working within one cache
\* lifetime", however long lookups take and in whatever order they are stored.
\* The same holds of a changed rate limit.
AnswersAreRecent ==
    \A c \in Calls : call[c].pc = "done" /\ call[c].got \in Limits =>
        \E t \in (call[c].now - TTL + 1) .. call[c].end :
            [key |-> call[c].key, limit |-> call[c].got] \in RowsAt(t)

\* A refusal is never stale: a key is refused only if it was unknown at some
\* moment of the call itself, since failed lookups are not cached.
RefusalsAreCurrent ==
    \A c \in Calls : call[c].pc = "done" /\ call[c].got = "unauthorized" =>
        \E t \in call[c].now .. call[c].end : \E row \in RowsAt(t) :
            row # None => row.key # call[c].key

==============================================================================
