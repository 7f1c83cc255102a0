-------------------------------- MODULE Pool --------------------------------
(***************************************************************************)
(* The claim loop of one pool of a worker (internal/dispatch/pool.go), the *)
(* notification listener that wakes it (listener.go) and the goroutines it *)
(* starts.  Lanes are numbered as in the rotation.  Rows are counted; a    *)
(* row is announced when its NOTIFY went to a session that listens.        *)
(***************************************************************************)
EXTENDS Naturals

CONSTANTS
    NLanes,             \* len(p.lanes)
    Concurrency,        \* capacity of slots
    ClaimBatchSize,
    MaxReady            \* bound on the ready rows of a lane

ASSUME PoolAssumption ==
    /\ NLanes \in Nat \ {0} /\ Concurrency \in Nat \ {0}
    /\ ClaimBatchSize \in Nat \ {0} /\ MaxReady \in Nat \ {0}

VARIABLES
    ready, announced,   \* rows of each lane, and those announced
    notifications,      \* sent to the listening session, not yet read
    listening, wake,    \* the listener's session; the token in p.wake
    usable, budget,     \* anyUsable, budgetAvailable
    pc, next, emptyLanes, slots, taken, active, ctxDone,
    got,                \* rows the claim returned
    last,               \* the lane of the latest claim
    found               \* lanes found empty since rows were last found

laneVars == <<ready, announced, notifications>>
loopVars == <<pc, next, emptyLanes, slots, taken, got, active, last, found>>
vars == <<laneVars, listening, wake, usable, budget, loopVars, ctxDone>>

Lanes == 0 .. (NLanes - 1)

-----------------------------------------------------------------------------
(* The rest of the system.                                                 *)

\* The accept transaction: a row and, at commit, its notification.
Accept(l) ==
    /\ ready[l] < MaxReady /\ ready' = [ready EXCEPT ![l] = @ + 1]
    /\ notifications < MaxReady
    /\ announced' = [announced EXCEPT ![l] = IF listening THEN @ + 1 ELSE @]
    /\ notifications' = IF listening THEN notifications + 1 ELSE notifications
    /\ UNCHANGED <<listening, wake, usable, budget, loopVars, ctxDone>>

\* A retry or a lease that ran out becomes due, silently.
Due(l) ==
    /\ ready[l] < MaxReady /\ ready' = [ready EXCEPT ![l] = @ + 1]
    /\ UNCHANGED <<announced, notifications, listening, wake, usable, budget, loopVars, ctxDone>>

Smaller(x, y) == IF x < y THEN x ELSE y

\* Takes n rows of a lane; announced rows are the newest.
TakeRows(l, n) ==
    /\ ready' = [ready EXCEPT ![l] = @ - n]
    /\ announced' = [announced EXCEPT ![l] = Smaller(@, ready[l] - n)]

\* Another worker claims, or the sweeper expires.
Steal(l) ==
    /\ ready[l] > 0 /\ TakeRows(l, 1)
    /\ UNCHANGED <<notifications, listening, wake, usable, budget, loopVars, ctxDone>>

ProvidersChange ==
    /\ usable' \in BOOLEAN /\ budget' \in 0 .. ClaimBatchSize
    /\ <<usable, budget>>' # <<usable, budget>>
    /\ UNCHANGED <<laneVars, listening, wake, loopVars, ctxDone>>

Shutdown ==
    /\ ~ctxDone /\ ctxDone' = TRUE
    /\ UNCHANGED <<laneVars, listening, wake, usable, budget, loopVars>>

-----------------------------------------------------------------------------
(* listen and signal.                                                      *)

\* A pool that is not idle when the signal comes never learns of it.
SignalIfIdle == wake \/ pc = "idle"
Signal == TRUE

Notified ==
    /\ listening /\ notifications > 0 /\ ~ctxDone
    /\ notifications' = notifications - 1 /\ wake' = Signal
    /\ UNCHANGED <<ready, announced, listening, usable, budget, loopVars, ctxDone>>

\* The session fails; its notifications are lost and polling continues.
ListenFails ==
    /\ listening /\ listening' = FALSE
    /\ notifications' = 0 /\ announced' = [l \in Lanes |-> 0]
    /\ UNCHANGED <<ready, wake, usable, budget, loopVars, ctxDone>>

Listen ==
    /\ ~listening /\ ~ctxDone /\ listening' = TRUE
    /\ UNCHANGED <<laneVars, wake, usable, budget, loopVars, ctxDone>>

-----------------------------------------------------------------------------
(* runPool.                                                                *)

Quiet == UNCHANGED <<laneVars, listening, usable, budget, ctxDone>>

\* The loop condition does not look at the context.
LoopsOn == IF usable THEN "slot" ELSE "sleep"
LoopsTo == IF ctxDone THEN "returned" ELSE IF usable THEN "slot" ELSE "sleep"

Loop ==
    /\ pc = "loop" /\ pc' = LoopsTo
    /\ UNCHANGED <<wake, next, emptyLanes, slots, taken, got, active, last, found>> /\ Quiet

\* sleep(earliestProbe), the pause after an empty budget or a failed claim.
Wakes ==
    /\ pc = "sleep" /\ pc' = "loop"
    /\ UNCHANGED <<wake, next, emptyLanes, slots, taken, got, active, last, found>> /\ Quiet

Want == Smaller(ClaimBatchSize, budget)

\* One free slot, then as many more as are free and wanted.
TakeSlots ==
    /\ pc = "slot" /\ slots < Concurrency
    /\ IF Want < 1
       THEN pc' = "sleep" /\ UNCHANGED <<slots, taken>>
       ELSE /\ taken' = Smaller(Want, Concurrency - slots)
            /\ slots' = slots + taken' /\ pc' = "claim"
    /\ UNCHANGED <<wake, next, emptyLanes, got, active, last, found>> /\ Quiet

SlotCancelled ==
    /\ pc = "slot" /\ ctxDone /\ pc' = "returned"
    /\ UNCHANGED <<wake, next, emptyLanes, slots, taken, got, active, last, found>> /\ Quiet

\* The rotation stays with a lane while it has rows.
AdvanceWhenEmpty(n) == IF n = 0 THEN (next + 1) % NLanes ELSE next
Advance(n) == (next + 1) % NLanes

\* Slots of jobs that were not found are kept.
SlotsKept(n) == slots
SlotsAfter(n) == slots - (taken - n)

\* The claim's transaction; its answer reaches the loop later.
Claim ==
    /\ pc = "claim" /\ pc' = "claimed"
    /\ got' = Smaller(taken, ready[next]) /\ TakeRows(next, got')
    /\ next' = Advance(got') /\ last' = next
    /\ UNCHANGED <<notifications, listening, wake, usable, budget, emptyLanes, slots, taken, active,
                   found, ctxDone>>

\* Rows start goroutines; a full rotation without any idles.
Claimed ==
    /\ pc = "claimed"
    /\ slots' = SlotsAfter(got) /\ taken' = 0 /\ active' = active + got /\ got' = 0
    /\ found' = IF got = 0 THEN found \cup {last} ELSE {}
    /\ emptyLanes' = IF got > 0 \/ emptyLanes + 1 >= NLanes THEN 0 ELSE emptyLanes + 1
    /\ pc' = IF got = 0 /\ emptyLanes + 1 >= NLanes THEN "idle" ELSE "loop"
    /\ UNCHANGED <<wake, next, last>> /\ Quiet

ClaimFails ==
    /\ pc = "claim" /\ pc' = IF ctxDone THEN "loop" ELSE "sleep"
    /\ slots' = SlotsAfter(0) /\ taken' = 0
    /\ next' = Advance(0) /\ last' = next
    /\ UNCHANGED <<wake, emptyLanes, got, active, found>> /\ Quiet

\* The poll interval, a wake-up, or shutdown.
Idle ==
    /\ pc = "idle" /\ pc' = "loop" /\ found' = {}
    /\ wake' \in {FALSE, wake}
    /\ UNCHANGED <<next, emptyLanes, slots, taken, got, active, last>> /\ Quiet

JobEnds ==
    /\ active > 0 /\ active' = active - 1 /\ slots' = slots - 1
    /\ UNCHANGED <<wake, pc, next, emptyLanes, taken, got, last, found>> /\ Quiet

-----------------------------------------------------------------------------
Init ==
    /\ ready = [l \in Lanes |-> 0] /\ announced = [l \in Lanes |-> 0] /\ notifications = 0
    /\ listening = FALSE /\ wake = FALSE /\ usable = TRUE /\ budget = ClaimBatchSize
    /\ pc = "loop" /\ next = 0 /\ emptyLanes = 0
    /\ slots = 0 /\ taken = 0 /\ got = 0 /\ active = 0 /\ ctxDone = FALSE
    /\ last = 0 /\ found = {}

LoopStep == Loop \/ Wakes \/ TakeSlots \/ SlotCancelled \/ Claim \/ Claimed \/ ClaimFails \/ Idle

Next ==
    \/ \E l \in Lanes : Accept(l) \/ Due(l) \/ Steal(l)
    \/ ProvidersChange \/ Shutdown
    \/ Notified \/ ListenFails \/ Listen
    \/ LoopStep \/ JobEnds

Spec == Init /\ [][Next]_vars

\* The loop runs, timers fire and sends end; the claims of no lane fail for
\* ever.
Fairness ==
    /\ WF_vars(LoopStep) /\ WF_vars(JobEnds)
    /\ \A l \in Lanes : SF_vars(Claim /\ next = l)

FairSpec == Spec /\ Fairness

-----------------------------------------------------------------------------
(* Properties.                                                             *)

TypeOK ==
    /\ ready \in [Lanes -> 0 .. MaxReady]
    /\ announced \in [Lanes -> 0 .. MaxReady]
    /\ notifications \in 0 .. MaxReady
    /\ listening \in BOOLEAN /\ wake \in BOOLEAN /\ usable \in BOOLEAN /\ ctxDone \in BOOLEAN
    /\ budget \in 0 .. ClaimBatchSize
    /\ pc \in {"loop", "sleep", "slot", "claim", "claimed", "idle", "returned"}
    /\ next \in Lanes /\ last \in Lanes /\ emptyLanes \in Lanes /\ found \subseteq Lanes
    /\ slots \in 0 .. Concurrency /\ active \in 0 .. Concurrency
    /\ taken \in 0 .. Concurrency /\ got \in 0 .. taken

\* Every slot is held by a send in progress or by the claim under way: none
\* is lost when a claim finds fewer rows, fails or is cancelled
\* (pool.go runPool).
SlotsAccountedFor == slots = active + taken

\* A pool that waits has been told of every row announced in a lane that it
\* found empty, or is about to be: a NOTIFY that arrives between the claim and
\* the wait is not lost (pool.go signal, idle; listener.go).
NoLostWakeup ==
    pc = "idle" /\ ~wake /\ notifications = 0 => \A l \in found : announced[l] = 0

\* Once providers stay usable, a backlog in one lane never keeps the pool from
\* another lane that has rows (pool.go: "a backlog in one lane cannot delay
\* the others by more than one rotation").
EveryLaneServed ==
    <>[](usable /\ budget > 0) =>
        \A l \in Lanes : ready[l] > 0 ~> (last = l \/ ready[l] = 0 \/ ctxDone)

\* The loop ends after shutdown (pool.go runPool).
PoolReturns == ctxDone ~> pc = "returned"

\* The pool waits only after a full rotation returned no rows
\* (docs/060-processing/010-queue-and-workers.md:66).
IdleAfterFullRotation == pc = "idle" => found = Lanes
=============================================================================
