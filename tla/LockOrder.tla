------------------------------ MODULE LockOrder ------------------------------
(* The row locks that the gateway's transactions wait for, statement by     *)
(* statement: the completer's commit (internal/dispatch/completer.go), the  *)
(* sweeper's expire and flagSLA (internal/sweeper/tasks.go), the delivery   *)
(* reports' Apply (internal/dlr/apply.go).  Gateway takes each of these     *)
(* transactions as one step; this module looks inside them for the one      *)
(* thing that view hides, transactions that wait for each other.  An accept *)
(* or a charge waits for the customer row only, as its last lock, and so is *)
(* in no cycle of these rows.                                               *)
(*                                                                          *)
(* A transaction is a plan: the rows its statements lock, in order.  A row  *)
(* is kept until the end.  A lock of a statement with SKIP LOCKED never     *)
(* waits; a message whose queue row was skipped is left out of the rest.    *)
(* A transaction may try rows that others are locking: the conditions on    *)
(* owner, version and status are evaluated before the wait.  An UPDATE ...  *)
(* FROM unnest is taken to lock rows in the order of its arrays.            *)
EXTENDS Integers, Sequences, FiniteSets, SequencesExt

CONSTANTS
    Messages, Customers,    \* sets of integers, ordered as the IDs are
    Owner,                  \* Owner[m]: the customer of message m
    Completers, Expirers, Flaggers, Reporters  \* transactions of each kind

ASSUME LockOrderAssumption ==
    /\ Messages \subseteq Int /\ Customers \subseteq Int
    /\ Owner \in [Messages -> Customers]

Transactions == Completers \cup Expirers \cup Flaggers \cup Reporters

Queue(m) == [table |-> "queue", id |-> m]
Message(m) == [table |-> "messages", id |-> m]
Customer(c) == [table |-> "customers", id |-> c]
Rows == {Queue(m) : m \in Messages} \cup {Message(m) : m \in Messages}
        \cup {Customer(c) : c \in Customers}

VARIABLES
    plan,   \* plan[t]: the rows t has still to lock
    held,   \* held[t]: the rows t has locked
    state   \* state[t]: "new", "open" or "ended"

vars == <<plan, held, state>>

------------------------------------------------------------------------------
(* The plans *)

Ascending(S) == SetToSortSeq(S, <)
Each(row(_), ids) == [i \in 1 .. Len(ids) |-> row(ids[i])]
Waits(rows) == [i \in 1 .. Len(rows) |-> [row |-> rows[i], skip |-> FALSE]]
Skips(rows) == [i \in 1 .. Len(rows) |-> [row |-> rows[i], skip |-> TRUE]]

\* ApplyRefunds: one UPDATE per customer in ascending order.
Refunds(S) == {Waits(Each(Customer, Ascending(S)))}

\* lockOwned: ORDER BY q.message_id FOR UPDATE OF q.
LockOwnedAnyOrder(S) == {Waits(Each(Queue, s)) : s \in SetToSeqs(S)}
LockOwned(S) == {Waits(Each(Queue, Ascending(S)))}

Kind == {"sent", "retry", "deferred", "terminal"}

\* commit: the queue rows, then the messages of each kind, kind after kind, and
\* the refunds of the last one.  Deferred outcomes change queue rows only.
CommitPlans ==
    UNION {LET S == DOMAIN k
               ofKind(x) == {m \in S : k[m] = x}
               messages(x) == Waits(Each(Message, Ascending(ofKind(x))))
           IN {q \o messages("sent") \o messages("retry") \o messages("terminal") \o r :
                 q \in LockOwned(S), r \in Refunds({Owner[m] : m \in ofKind("terminal")})}
           : k \in UNION {[S -> Kind] : S \in SUBSET Messages \ {{}}}}

\* expire: queue rows in order, SKIP LOCKED, then their messages and refunds.
ExpirePlans ==
    UNION {{Skips(Each(Queue, Ascending(S))) \o Waits(Each(Message, Ascending(S))) \o r :
              r \in Refunds({Owner[m] : m \in S})}
           : S \in SUBSET Messages \ {{}}}

\* flagSLA: an UPDATE of messages without an order and without queue locks.
FlagPlans == UNION {{Waits(Each(Message, s)) : s \in SetToSeqs(S)} : S \in SUBSET Messages \ {{}}}

\* Apply: the messages of the reports, sorted by ID.
ApplyPlans == {Waits(Each(Message, Ascending(S))) : S \in SUBSET Messages \ {{}}}

PlansOf(t) ==
    CASE t \in Completers -> CommitPlans
      [] t \in Expirers -> ExpirePlans
      [] t \in Flaggers -> FlagPlans
      [] t \in Reporters -> ApplyPlans

------------------------------------------------------------------------------
(* Transactions *)

Init ==
    /\ plan = [t \in Transactions |-> <<>>]
    /\ held = [t \in Transactions |-> {}]
    /\ state = [t \in Transactions |-> "new"]

Begin(t) ==
    /\ state[t] = "new"
    /\ \E p \in PlansOf(t) : plan' = [plan EXCEPT ![t] = p]
    /\ state' = [state EXCEPT ![t] = "open"]
    /\ UNCHANGED held

Wants(t) == state[t] = "open" /\ plan[t] # <<>>

\* The transactions t would have to wait for.
Blockers(t) == {u \in Transactions \ {t} : Head(plan[t]).row \in held[u]}

WaitsFor(t) == IF Wants(t) /\ ~Head(plan[t]).skip THEN Blockers(t) ELSE {}

\* t is in a cycle of transactions of S.  A row has one holder, so a set whose
\* members all wait for members, and are waited for by members, is made of cycles.
InCycle(t, S) ==
    /\ WaitsFor(t) # {}
    /\ \E C \in SUBSET {u \in S : WaitsFor(u) # {}} :
          t \in C /\ \A u \in C : WaitsFor(u) \subseteq C /\ \E v \in C : u \in WaitsFor(v)

Lock(t) ==
    /\ Wants(t)
    /\ Blockers(t) = {}
    /\ held' = [held EXCEPT ![t] = @ \cup {Head(plan[t]).row}]
    /\ plan' = [plan EXCEPT ![t] = Tail(@)]
    /\ UNCHANGED state

\* The rows of the message with a skipped queue row; its customer stays, as
\* another message of the batch may need it.
SkipLocked(t) ==
    /\ Wants(t)
    /\ Head(plan[t]).skip
    /\ Blockers(t) # {}
    /\ plan' = [plan EXCEPT ![t] = SelectSeq(Tail(@),
                    LAMBDA s : s.row # Message(Head(plan[t]).row.id))]
    /\ UNCHANGED <<held, state>>

\* Commit or rollback.
End(t) ==
    /\ state[t] = "open"
    /\ plan[t] = <<>>
    /\ state' = [state EXCEPT ![t] = "ended"]
    /\ held' = [held EXCEPT ![t] = {}]
    /\ UNCHANGED plan

\* PostgreSQL's deadlock detector: one transaction of a cycle is rolled back.
Abort(t) ==
    /\ InCycle(t, Transactions)
    /\ state' = [state EXCEPT ![t] = "ended"]
    /\ plan' = [plan EXCEPT ![t] = <<>>]
    /\ held' = [held EXCEPT ![t] = {}]

Finished ==
    /\ \A t \in Transactions : state[t] = "ended"
    /\ UNCHANGED vars

Next ==
    \/ \E t \in Transactions : Begin(t) \/ Lock(t) \/ SkipLocked(t) \/ End(t) \/ Abort(t)
    \/ Finished

Spec == Init /\ [][Next]_vars

------------------------------------------------------------------------------
(* Properties *)

\* Transactions that lock in the same order never wait for each other in a
\* cycle ("so that concurrent transactions lock rows in the same order",
\* completer.go:162; ApplyRefunds: "so that concurrent callers cannot
\* deadlock").  Every cycle has a flagSLA, or a completer and a batch of
\* reports; completers and the expire task form none, and neither do reports
\* and the expire task.
OrderedLocksNeverCycle ==
    \A S \in {Completers \cup Expirers, Reporters \cup Expirers} :
        \A t \in S : ~InCycle(t, S)

\* No transactions at all wait for each other in a cycle
\* (docs/060-processing/010-queue-and-workers.md:143, completer.go:162).
NoLockCycle == \A t \in Transactions : ~InCycle(t, Transactions)

==============================================================================
