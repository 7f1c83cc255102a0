---------------------------- MODULE FakeProvider ----------------------------
(* The simulated SMS operator of internal/fakeprovider: concurrent sends,   *)
(* the deduplication store, the log of recent messages, the delivery        *)
(* reports and the counters.  How a report reaches the gateway is the       *)
(* subject of Batcher; here it is delivered, refused or given up.           *)
(*                                                                          *)
(* A random decision (chance) may go either way.  Sends are numbered as     *)
(* they arrive.                                                             *)
EXTENDS ProviderStores

VARIABLES
    pc, id, ref,     \* of each send: where it is, its message ID, the ref it carries
    answer,          \* answer[s]: the HTTP response
    dlr,             \* dlr[s]: the delivery report of an accepted send
    outage, closed,  \* Settings.Outage; has Close been called?
    stats            \* the counters

vars == <<pc, id, ref, answer, dedup, recentVars, dlr, outage, closed, stats>>

Counter == {"received", "accepted", "duplicates", "rejected", "failed", "timedOut", "outage",
            "dlrSent", "dlrPending", "dlrFailed"}

TypeOK ==
    /\ pc \in [Sends -> {"idle", "latency", "accept", "respond", "done", "gone"}]
    /\ id \in [Sends -> IDs \cup {None}]
    /\ answer \in [Sends -> {None, "ok", "outage", "rejected", "failed", "held"}]
    /\ Len(order) <= Capacity /\ next \in 0 .. (Capacity - 1)
    /\ {i \in IDs : entries[i] # None} = ToSet(order)
    /\ Len(recent) <= RecentCap /\ newest \in 0 .. (RecentCap - 1)
    /\ dlr \in [Sends -> {None, "pending", "sent", "failed", "dropped"}]
    /\ stats \in [Counter -> Nat]

Init ==
    /\ pc = [s \in Sends |-> "idle"]
    /\ id = [s \in Sends |-> None]
    /\ ref = [s \in Sends |-> 0]
    /\ answer = [s \in Sends |-> None]
    /\ StoresInit
    /\ dlr = [s \in Sends |-> None]
    /\ outage = FALSE /\ closed = FALSE
    /\ stats = [c \in Counter |-> 0]

------------------------------------------------------------------------------
(* handleSend *)

Bump(counters) == stats' = [c \in Counter |-> stats[c] + IF c \in counters THEN 1 ELSE 0]

Answer(s, what) == pc' = [pc EXCEPT ![s] = "done"] /\ answer' = [answer EXCEPT ![s] = what]

Receive(s) ==
    /\ s = stats["received"] + 1
    /\ \E i \in IDs : id' = [id EXCEPT ![s] = i]
    /\ \/ /\ outage
          /\ Bump({"received", "outage"})
          /\ RecentAdd(s)
          /\ Answer(s, "outage")
       \/ /\ ~outage
          /\ Bump({"received"})
          /\ pc' = [pc EXCEPT ![s] = "latency"]
          /\ UNCHANGED <<answer, recentVars>>
    /\ UNCHANGED <<ref, dedup, dlr, outage, closed>>

\* Mutant: a replay is counted as an acceptance.
ReplayAccepted(s, r) ==
    /\ ref' = [ref EXCEPT ![s] = r]
    /\ Bump({"accepted", "duplicates"})
    /\ Answer(s, "ok")

\* replay: the original ref, and one more duplicate of its record.
Replay(s, r) ==
    /\ ref' = [ref EXCEPT ![s] = r]
    /\ Bump({"duplicates"})
    /\ Answer(s, "ok")

\* The random decisions: rejection, failure, or acceptance.
Decide(s) ==
    /\ \/ \E what \in {"rejected", "failed"} :
            Bump({what}) /\ RecentAdd(s) /\ Answer(s, what)
       \/ pc' = [pc EXCEPT ![s] = "accept"] /\ UNCHANGED <<answer, stats, recentVars>>
    /\ UNCHANGED ref

\* The simulated latency has passed, unless the client gave up; dedup.get.
Latency(s) ==
    /\ pc[s] = "latency"
    /\ \/ /\ pc' = [pc EXCEPT ![s] = "gone"]
          /\ UNCHANGED <<ref, answer, stats, recentVars>>
       \/ Known(id[s]) /\ Replay(s, entries[id[s]]) /\ UNCHANGED recentVars
       \/ ~Known(id[s]) /\ Decide(s)
    /\ UNCHANGED <<id, dedup, dlr, outage, closed>>

\* dedup.add, stats.accepted and scheduleDLR, whose goroutine starts at once.
Accept(s) ==
    /\ pc[s] = "accept"
    /\ \/ Known(id[s]) /\ Replay(s, entries[id[s]]) /\ UNCHANGED <<dedup, dlr>>
       \/ /\ ~Known(id[s])
          /\ DedupAdd(id[s])
          /\ ref' = [ref EXCEPT ![s] = Len(accepts')]
          /\ Bump({"accepted", "dlrPending"})
          /\ dlr' = [dlr EXCEPT ![s] = "pending"]
          /\ pc' = [pc EXCEPT ![s] = "respond"]
          /\ UNCHANGED answer
    /\ UNCHANGED <<id, recentVars, outage, closed>>

\* The response, or a simulated timeout: accepted, and nobody is told.
Respond(s) ==
    /\ pc[s] = "respond"
    /\ \/ Bump({"timedOut"}) /\ Answer(s, "held")
       \/ Answer(s, "ok") /\ UNCHANGED stats
    /\ RecentAdd(s)
    /\ UNCHANGED <<id, ref, dedup, dlr, outage, closed>>

------------------------------------------------------------------------------
(* Delivery reports, settings and shutdown *)

DLREnds(s, how, counters) ==
    /\ dlr[s] = "pending"
    /\ dlr' = [dlr EXCEPT ![s] = how]
    /\ stats' = [c \in Counter |-> stats[c] + CASE c \in counters -> 1
                                               [] c = "dlrPending" -> -1
                                               [] OTHER -> 0]
    /\ UNCHANGED <<pc, id, ref, answer, dedup, recentVars, outage, closed>>

\* deliver returns; after Close the report may also be dropped in its delay.
Deliver(s) ==
    \/ DLREnds(s, "sent", {"dlrSent"})
    \/ DLREnds(s, "failed", {"dlrFailed"})
    \/ closed /\ DLREnds(s, "dropped", {})

\* A valid PUT /admin/config; an invalid one changes nothing.
PutConfig ==
    /\ outage' = ~outage
    /\ UNCHANGED <<pc, id, ref, answer, dedup, recentVars, dlr, closed, stats>>

Close ==
    /\ ~closed
    /\ closed' = TRUE
    /\ UNCHANGED <<pc, id, ref, answer, dedup, recentVars, dlr, outage, stats>>

Next ==
    \/ \E s \in Sends : Receive(s) \/ Latency(s) \/ Accept(s)
                        \/ Respond(s) \/ Deliver(s)
    \/ PutConfig \/ Close

Spec == Init /\ [][Next]_vars

------------------------------------------------------------------------------
(* Properties *)

\* "Two concurrent sends of the same ID agree on one result": two acceptances
\* of one ID, or two 200 responses with different refs, are separated by more
\* acceptances than the store holds.
SendsAgree ==
    \A s, t \in Sends :
        id[s] = id[t] /\ 0 < ref[s] /\ ref[s] < ref[t] => ref[t] - ref[s] > Capacity

\* The counters tell the truth: whenever no send is in progress and no report
\* is on its way, every received send has been counted once by its result
\* (except one whose client gave up in the latency) and every accepted one by
\* what became of its report (except one that Close cut short).  In between,
\* each counter moves by an atomic step of its own, and these commute.
CountersAddUp ==
    (\A s \in Sends : pc[s] \in {"idle", "done", "gone"} /\ dlr[s] # "pending") =>
        /\ stats["received"] =
             stats["accepted"] + stats["duplicates"] + stats["rejected"] + stats["failed"]
             + stats["outage"] + Cardinality({s \in Sends : pc[s] = "gone"})
        /\ stats["accepted"] =
             stats["dlrSent"] + stats["dlrFailed"] + Cardinality({s \in Sends : dlr[s] = "dropped"})
        /\ stats["dlrPending"] = 0

==============================================================================
