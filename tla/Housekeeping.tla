---------------------------- MODULE Housekeeping ----------------------------
(* The sweepers and heartbeats of several worker processes: Run, Sweep and  *)
(* locked of internal/sweeper/sweeper.go, the tasks of tasks.go that        *)
(* Gateway leaves out (lanes, workers), and internal/heartbeat.             *)
(*                                                                          *)
(* NORMAL_LANES changes with a deployment: processes with the old and the   *)
(* new value run side by side, on the API side (Enqueue) as well.  A        *)
(* process never returns: its successor has another worker ID.              *)
EXTENDS Integers, FiniteSets, FiniteSetsExt

CONSTANTS
    Workers,              \* worker processes, old and new
    Survivor,             \* one with the new configuration that is not stopped
    Rows,                 \* queue rows of normal messages
    Hash,                 \* Hash[r]: fnv32a of the customer of r
    OldLanes, NewLanes,   \* NORMAL_LANES before and after the deployment
    BatchSize,
    MaxOverdue,           \* bound: messages that pass their TTL
    None

ASSUME HousekeepingAssumption ==
    /\ Survivor \in Workers /\ Hash \in [Rows -> Nat]
    /\ {OldLanes, NewLanes, BatchSize} \subseteq Nat \ {0} /\ MaxOverdue \in Nat

VARIABLES
    state,      \* of a worker: "new", "up", "stopped" or "crashed"
    lanes,      \* its Config.NormalLanes
    task,       \* the task its Sweep has come to, 0 between sweeps
    lock,       \* lock[t]: the worker whose transaction holds t's advisory lock
    collected,  \* Sweeper.expired
    overdue, expired, published,  \* messages to expire, expired, and counted in the metrics
    laneOf,     \* queue.lane
    record,     \* workers: None, or is last_seen "fresh" or older than staleWorkerAge?
    late        \* workers with a heartbeat statement that outlives its process

sweepVars == <<task, lock, collected, overdue, expired, published>>
vars == <<state, lanes, sweepVars, laneOf, record, late>>

Expire == 1   \* then flagSLA and removeOrphans, whose effects are in Gateway
Lanes == 4
RemoveWorkers == 5
Tasks == Expire .. RemoveWorkers

\* message.Lane of a normal message.
Lane(r, normalLanes) == Hash[r] % normalLanes

TypeOK ==
    /\ state \in [Workers -> {"new", "up", "stopped", "crashed"}]
    /\ lanes \in [Workers -> {OldLanes, NewLanes}]
    /\ task \in [Workers -> Tasks \cup {0}]
    /\ \A t \in Tasks : lock[t] # None => task[lock[t]] = t
    /\ collected \in [Workers -> 0 .. BatchSize]
    /\ {overdue, expired, published} \subseteq 0 .. MaxOverdue
    /\ \A r \in Rows : laneOf[r] \in {None, Lane(r, OldLanes), Lane(r, NewLanes)}
    /\ late \subseteq Workers
    /\ record \in [Workers -> {None, "fresh", "old"}]

Init ==
    /\ state = [w \in Workers |-> "new"]
    /\ lanes \in [Workers -> {OldLanes, NewLanes}] /\ lanes[Survivor] = NewLanes
    /\ task = [w \in Workers |-> 0]
    /\ lock = [t \in Tasks |-> None]
    /\ collected = [w \in Workers |-> 0]
    /\ overdue = MaxOverdue /\ expired = 0 /\ published = 0
    /\ laneOf = [r \in Rows |-> None]
    /\ late = {}
    /\ record = [w \in Workers |-> None]

------------------------------------------------------------------------------
(* One sweep: Sweep and locked *)

Tick(w) ==
    /\ state[w] = "up" /\ task[w] = 0
    /\ task' = [task EXCEPT ![w] = Expire]
    /\ UNCHANGED <<state, lanes, lock, collected, overdue, expired, published, laneOf, record, late>>

\* The step succeeded: publishExpired, and the next step of the sweep.
StepDone(w, found) ==
    /\ published' = published + found
    /\ task' = [task EXCEPT ![w] = IF @ = RemoveWorkers THEN 0 ELSE @ + 1]

\* Another transaction holds the lock: the step counts zero.
Skip(w) ==
    /\ task[w] # 0
    /\ lock[task[w]] \notin {None, w}
    /\ collected' = [collected EXCEPT ![w] = 0]
    /\ StepDone(w, collected'[w])
    /\ UNCHANGED <<state, lanes, lock, overdue, expired, laneOf, record, late>>

\* Mutant: what an earlier step collected is kept.
BeginKeeps(w) ==
    /\ task[w] # 0
    /\ lock[task[w]] = None
    /\ lock' = [lock EXCEPT ![task[w]] = w]
    /\ collected' = [collected EXCEPT ![w] = IF task[w] = Expire THEN Min({overdue, BatchSize}) ELSE @]
    /\ UNCHANGED <<state, lanes, task, overdue, expired, published, laneOf, record, late>>

\* s.expired = s.expired[:0]; the lock is free and the task runs.
Begin(w) ==
    /\ task[w] # 0
    /\ lock[task[w]] = None
    /\ lock' = [lock EXCEPT ![task[w]] = w]
    /\ collected' = [collected EXCEPT ![w] = IF task[w] = Expire THEN Min({overdue, BatchSize}) ELSE 0]
    /\ UNCHANGED <<state, lanes, task, overdue, expired, published, laneOf, record, late>>

Holds(w) == task[w] # 0 /\ lock[task[w]] = w
Release(w) == lock' = [lock EXCEPT ![task[w]] = None]

\* Mutant: the first lane that no longer exists is overlooked.
RemovedBeyond(w) == {r \in Rows : laneOf[r] # None /\ laneOf[r] > lanes[w]}

\* Rows in lanes that w's configuration does not have.
Removed(w) == {r \in Rows : laneOf[r] # None /\ laneOf[r] >= lanes[w]}

\* reassignLanes: at most BatchSize rows, without those that claims and
\* completers have locked (SKIP LOCKED).
ReassignLanes(w) ==
    \E locked \in SUBSET Removed(w) : \E found \in SUBSET (Removed(w) \ locked) :
        /\ Cardinality(found) = Min({BatchSize, Cardinality(Removed(w) \ locked)})
        /\ laneOf' = [r \in Rows |-> IF r \in found THEN Lane(r, lanes[w]) ELSE laneOf[r]]

\* Mutant: the age is compared the wrong way round.
RemoveFreshWorkers == record' = [w \in Workers |-> IF record[w] = "fresh" THEN None ELSE record[w]]

RemoveStaleWorkers == record' = [w \in Workers |-> IF record[w] = "old" THEN None ELSE record[w]]

\* What the transaction of w's task changes.
Effect(w) ==
    /\ IF task[w] = Expire
       THEN overdue' = overdue - collected[w] /\ expired' = expired + collected[w]
       ELSE UNCHANGED <<overdue, expired>>
    /\ IF task[w] = Lanes THEN ReassignLanes(w) ELSE UNCHANGED laneOf
    /\ IF task[w] = RemoveWorkers THEN RemoveStaleWorkers ELSE UNCHANGED record

Commit(w) ==
    /\ Holds(w)
    /\ Effect(w)
    /\ Release(w)
    /\ StepDone(w, collected[w])
    /\ UNCHANGED <<state, lanes, collected, late>>

\* The task fails, or its commit does without an answer: Sweep returns.
Fail(w) ==
    /\ Holds(w)
    /\ \/ Effect(w)
       \/ UNCHANGED <<overdue, expired, laneOf, record>>
    /\ Release(w)
    /\ task' = [task EXCEPT ![w] = 0]
    /\ UNCHANGED <<state, lanes, collected, published, late>>

------------------------------------------------------------------------------
(* Heartbeats and the life of a process *)

\* A beat that fails leaves the row as it is.
Beat(w) ==
    /\ state[w] = "up"
    /\ record[w] # "fresh"
    /\ record' = [record EXCEPT ![w] = "fresh"]
    /\ UNCHANGED <<state, lanes, sweepVars, laneOf, late>>

\* The first beat precedes the ticker; it may fail.
Start(w) ==
    /\ state[w] = "new"
    /\ state' = [state EXCEPT ![w] = "up"]
    /\ record' \in {record, [record EXCEPT ![w] = "fresh"]}
    /\ UNCHANGED <<lanes, sweepVars, laneOf, late>>

\* The end of a process: its transactions are rolled back, and a statement
\* that was under way may still take effect.
Ends(w, how) ==
    /\ w # Survivor
    /\ state[w] = "up"
    /\ state' = [state EXCEPT ![w] = how]
    /\ lock' = [t \in Tasks |-> IF lock[t] = w THEN None ELSE lock[t]]
    /\ task' = [task EXCEPT ![w] = 0]
    /\ late' \in {late, late \cup {w}}
    /\ UNCHANGED <<lanes, collected, overdue, expired, published, laneOf>>

\* The heartbeat deletes the row when it stops, unless the DELETE fails.
Stop(w) == Ends(w, "stopped") /\ record' \in {record, [record EXCEPT ![w] = None]}
Crash(w) == Ends(w, "crashed") /\ UNCHANGED record

LateBeat(w) ==
    /\ w \in late
    /\ late' = late \ {w}
    /\ record' \in {record, [record EXCEPT ![w] = "fresh"]}
    /\ UNCHANGED <<state, lanes, sweepVars, laneOf>>

\* An hour passes without a beat that succeeds.
Age(w) ==
    /\ record[w] = "fresh"
    /\ record' = [record EXCEPT ![w] = "old"]
    /\ UNCHANGED <<state, lanes, sweepVars, laneOf, late>>

------------------------------------------------------------------------------
(* The rest of the system *)

\* accept, in an API process of either configuration.
Enqueue(r) ==
    /\ laneOf[r] = None
    /\ \E n \in {OldLanes, NewLanes} : laneOf' = [laneOf EXCEPT ![r] = Lane(r, n)]
    /\ UNCHANGED <<state, lanes, sweepVars, record, late>>

Next ==
    \/ \E w \in Workers :
        \/ Tick(w) \/ Skip(w) \/ Begin(w) \/ Commit(w) \/ Fail(w)
        \/ Beat(w) \/ Start(w) \/ Stop(w) \/ Crash(w) \/ LateBeat(w) \/ Age(w)
    \/ \E r \in Rows : Enqueue(r)

Moves == \E w \in Workers : Commit(w) /\ laneOf' # laneOf

\* Transactions end, and the survivor's tasks do not fail each time they are
\* tried; some row to be moved is not locked each time; the hour passes; and
\* the deployment ends: processes with the old configuration are stopped.
Spec ==
    /\ Init /\ [][Next]_vars
    /\ WF_vars(Start(Survivor)) /\ WF_vars(Tick(Survivor)) /\ WF_vars(Beat(Survivor))
    /\ WF_vars(Skip(Survivor) \/ Begin(Survivor))
    /\ \A t \in Tasks : SF_vars(task[Survivor] = t /\ Commit(Survivor))
    /\ SF_vars(Moves)
    /\ \A w \in Workers \ {Survivor} :
        /\ WF_vars(Commit(w) \/ Fail(w))
        /\ WF_vars(LateBeat(w)) /\ WF_vars(state[w] # "up" /\ Age(w))
        /\ WF_vars(lanes[w] # NewLanes /\ Stop(w))

------------------------------------------------------------------------------
(* Properties *)

\* The metrics never count an expiration that was rolled back: "it is published
\* only once the task's transaction commits", also when a sweep fails halfway
\* and the next one finds the lock taken.
PublishedWereExpired == published <= expired

\* A row in a lane that the new configuration does not have is moved to one
\* that it has, whichever processes enqueue, sweep, fail and stop meanwhile.
RowsReachServedLanes == \A r \in Rows : laneOf[r] # None ~> laneOf[r] \in 0 .. (NewLanes - 1)

\* The row of a process that has ended is removed for good, even if the process
\* crashed, could not delete it, or had a heartbeat under way.
EndedWorkersAreForgotten ==
    \A w \in Workers : state[w] \in {"stopped", "crashed"} ~> [](record[w] = None)

==============================================================================
