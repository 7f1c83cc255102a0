------------------------------ MODULE Migrator ------------------------------
(* Schema migrations: Migrator of internal/store/migrate.go.  Several       *)
(* processes start at the same time and run Up, Down or Status, each on a   *)
(* connection of its own under a session-level advisory lock; any of them   *)
(* may be killed or lose its connection at any point.                       *)
(*                                                                          *)
(* The database is what it would be without the bookkeeping: the set of     *)
(* migrations whose effect it has.  Running a section out of turn is an SQL *)
(* error (a table exists already, or does not exist yet).                   *)
EXTENDS Integers

CONSTANTS
    Runs,       \* calls of Up, Down and Status
    Last,       \* the migrations are 1 .. Last, ordered by version
    HasDown,    \* those with a "-- migrate:down" section
    None

\* Versions are ordered; None is neither a run nor an answer.
WellFormed ==
    Last \in Nat /\ HasDown \subseteq 1 .. Last /\ None \notin Runs \cup {"clash"}

Versions == 1 .. Last

VARIABLES
    schema,    \* migrations whose effect the database has
    applied,   \* the rows of schema_migrations
    lock,      \* the session that holds the advisory lock
    op,        \* op[r]: the operation of r
    pc,        \* where r is
    done,      \* done[r]: the versions r read
    result,    \* result[r]: the versions r will return
    answer     \* answer[r]: how r ended

vars == <<schema, applied, lock, op, pc, done, result, answer>>

Op == {"up", "down", "status"}
Stage == {"new", "waiting", "read", "work", "unlock", "ended"}

TypeOK ==
    /\ schema \subseteq Versions /\ applied \subseteq Versions
    /\ lock \in Runs \cup {None}
    /\ op \in [Runs -> Op] /\ pc \in [Runs -> Stage]
    /\ done \in [Runs -> SUBSET Versions] /\ result \in [Runs -> SUBSET Versions]
    /\ answer \in [Runs -> {None, "ok", "clash", "no down section", "error"}]

\* Every state an earlier Up or Down can have left.
Init ==
    /\ \E k \in 0 .. Last : schema = 1 .. k /\ applied = 1 .. k
    /\ lock = None
    /\ op \in [Runs -> Op]
    /\ pc = [r \in Runs |-> "new"]
    /\ done = [r \in Runs |-> {}]
    /\ result = [r \in Runs |-> {}]
    /\ answer = [r \in Runs |-> None]

------------------------------------------------------------------------------
(* One run *)

Goto(r, stage) == pc' = [pc EXCEPT ![r] = stage]

\* fn returns; the deferred unlock comes next.
Leave(r, how) == Goto(r, "unlock") /\ answer' = [answer EXCEPT ![r] = how]

Acquire(r) ==
    /\ pc[r] = "new"
    /\ Goto(r, "waiting")
    /\ UNCHANGED <<schema, applied, lock, op, done, result, answer>>

Locked(r) ==
    /\ pc[r] = "waiting"
    /\ lock = None
    /\ lock' = r
    /\ Goto(r, "read")
    /\ UNCHANGED <<schema, applied, op, done, result, answer>>

\* CREATE TABLE IF NOT EXISTS schema_migrations and the read of its rows.
ReadDone(r) ==
    /\ pc[r] = "read"
    /\ done' = [done EXCEPT ![r] = applied]
    /\ Goto(r, "work")
    /\ UNCHANGED <<schema, applied, lock, op, result, answer>>

\* The next migration of the loop in Up, and of the loop in Down.
Pending(r) == {v \in Versions \ (done[r] \cup result[r]) :
                 \A w \in 1 .. (v - 1) : w \in done[r] \cup result[r]}
Newest(r) == {v \in done[r] : \A w \in done[r] : w <= v}

UpRuns(v) == v \notin schema /\ 1 .. (v - 1) \subseteq schema
DownRuns(v) == v \in schema /\ \A w \in schema : w <= v

\* One transaction: the section and the row of schema_migrations.
Apply(r) ==
    /\ pc[r] = "work" /\ op[r] = "up"
    /\ \E v \in Pending(r) :
        IF UpRuns(v)
        THEN /\ schema' = schema \cup {v}
             /\ applied' = applied \cup {v}
             /\ result' = [result EXCEPT ![r] = @ \cup {v}]
             /\ UNCHANGED <<pc, answer>>
        ELSE Leave(r, "clash") /\ UNCHANGED <<schema, applied, result>>
    /\ UNCHANGED <<lock, op, done>>

Revert(r) ==
    /\ pc[r] = "work" /\ op[r] = "down"
    /\ \E v \in Newest(r) :
        \/ v \notin HasDown /\ Leave(r, "no down section") /\ UNCHANGED <<schema, applied, result>>
        \/ /\ v \in HasDown
           /\ IF DownRuns(v)
              THEN /\ schema' = schema \ {v}
                   /\ applied' = applied \ {v}
                   /\ result' = [result EXCEPT ![r] = {v}]
                   /\ Leave(r, "ok")
              ELSE Leave(r, "clash") /\ UNCHANGED <<schema, applied, result>>
    /\ UNCHANGED <<lock, op, done>>

\* The loop has nothing (more) to do; Status lists what it read.
LoopEnds(r) ==
    /\ pc[r] = "work"
    /\ \/ op[r] = "up" /\ Pending(r) = {} /\ UNCHANGED result
       \/ op[r] = "down" /\ Newest(r) = {} /\ UNCHANGED result
       \/ op[r] = "status" /\ result' = [result EXCEPT ![r] = done[r]]
    /\ Leave(r, "ok")
    /\ UNCHANGED <<schema, applied, lock, op, done>>

\* A statement fails: its transaction is rolled back and fn returns the error.
Fail(r) ==
    /\ pc[r] \in {"read", "work"}
    /\ Leave(r, "error")
    /\ UNCHANGED <<schema, applied, lock, op, done, result>>

Unlock(r) ==
    /\ pc[r] = "unlock"
    /\ lock' = IF lock = r THEN None ELSE lock
    /\ Goto(r, "ended")
    /\ UNCHANGED <<schema, applied, op, done, result, answer>>

\* The process dies or its session is lost, which releases the lock.
Crash(r) ==
    /\ pc[r] \in {"waiting", "read", "work", "unlock"}
    /\ lock' = IF lock = r THEN None ELSE lock
    /\ Goto(r, "ended")
    /\ answer' = [answer EXCEPT ![r] = "error"]
    /\ UNCHANGED <<schema, applied, op, done, result>>

Next ==
    \E r \in Runs :
        \/ Acquire(r) \/ Locked(r) \/ ReadDone(r) \/ Apply(r) \/ Revert(r)
        \/ LoopEnds(r) \/ Fail(r) \/ Unlock(r) \/ Crash(r)

Spec == Init /\ [][Next]_vars

------------------------------------------------------------------------------
(* Properties *)

\* Whatever runs, in whatever order, and wherever it is killed: the database
\* has the effects that schema_migrations says it has, without a gap, so the
\* next Up can always continue ("Each migration runs in its own transaction").
NoGaps ==
    /\ schema = applied
    /\ \A v \in applied : 1 .. (v - 1) \subseteq applied

\* "A session-level advisory lock makes concurrent runs safe": no run trips over
\* a migration that another run applied or reverted after it read done.
RunsDoNotClash == \A r \in Runs : answer[r] # "clash"

\* The inductive invariant: only the holder of the lock is between its read of
\* schema_migrations and the unlock, and what it has read and applied since is
\* what the table holds.
LockInv ==
    \A r \in Runs :
        /\ pc[r] \in {"read", "work", "unlock"} => lock = r
        /\ pc[r] \in {"new", "waiting", "read"} => result[r] = {}
        /\ pc[r] = "work" /\ op[r] = "up" => done[r] \cup result[r] = applied
        /\ pc[r] = "work" /\ op[r] = "down" => done[r] = applied

MigratorInv == TypeOK /\ NoGaps /\ LockInv /\ RunsDoNotClash

==============================================================================
