--------------------------- MODULE MigratorProofs ---------------------------
(* Proofs about Migrator, for any number of runs and migrations.            *)
EXTENDS Migrator, TLAPS

\* A migration that Up finds pending is the next one of the schema, and it runs.
LEMMA PendingRuns ==
    ASSUME WellFormed, MigratorInv, NEW r \in Runs, pc[r] = "work", op[r] = "up",
           NEW v \in Pending(r)
    PROVE  UpRuns(v) /\ v \in Versions /\ v \notin applied /\ 1 .. (v - 1) \subseteq applied
<1>1. done[r] \cup result[r] = applied /\ schema = applied
    BY DEF MigratorInv, LockInv, NoGaps
<1> QED BY <1>1 DEF Pending, UpRuns, Versions

\* The migration that Down finds newest is the last one of the schema.
LEMMA NewestRuns ==
    ASSUME WellFormed, MigratorInv, NEW r \in Runs, pc[r] = "work", op[r] = "down",
           NEW v \in Newest(r)
    PROVE  DownRuns(v) /\ v \in applied /\ \A w \in applied : w <= v
<1>1. done[r] = applied /\ schema = applied
    BY DEF MigratorInv, LockInv, NoGaps
<1> QED BY <1>1 DEF Newest, DownRuns

\* Steps that write neither the schema nor its bookkeeping.
LEMMA QuietStep ==
    ASSUME WellFormed, MigratorInv, NEW r \in Runs,
           \/ Acquire(r) \/ Locked(r) \/ ReadDone(r) \/ LoopEnds(r)
           \/ Fail(r) \/ Unlock(r) \/ Crash(r)
    PROVE  MigratorInv'
<1>1. TypeOK /\ LockInv /\ RunsDoNotClash /\ None \notin Runs
    BY DEF MigratorInv, WellFormed
<1>2. NoGaps'
    BY DEF MigratorInv, NoGaps, Acquire, Locked, ReadDone, LoopEnds, Fail, Unlock, Crash
<1>3. CASE Acquire(r)
    <2>1. TypeOK'
        BY <1>1, <1>3 DEF TypeOK, Acquire, Goto, Stage
    <2>2. LockInv' /\ RunsDoNotClash'
        BY <1>1, <1>3 DEF TypeOK, LockInv, RunsDoNotClash, Acquire, Goto
    <2> QED BY <1>2, <2>1, <2>2 DEF MigratorInv
<1>4. CASE Locked(r)
    <2>1. TypeOK'
        BY <1>1, <1>4 DEF TypeOK, Locked, Goto, Stage
    <2>2. LockInv' /\ RunsDoNotClash'
        BY <1>1, <1>4 DEF TypeOK, LockInv, RunsDoNotClash, Locked, Goto
    <2> QED BY <1>2, <2>1, <2>2 DEF MigratorInv
<1>5. CASE ReadDone(r)
    <2>1. TypeOK'
        BY <1>1, <1>5 DEF TypeOK, ReadDone, Goto, Stage
    <2>2. LockInv' /\ RunsDoNotClash'
        BY <1>1, <1>5 DEF TypeOK, LockInv, RunsDoNotClash, ReadDone, Goto
    <2> QED BY <1>2, <2>1, <2>2 DEF MigratorInv
<1>6. CASE LoopEnds(r)
    <2>1. TypeOK'
        BY <1>1, <1>6 DEF TypeOK, LoopEnds, Leave, Goto, Stage
    <2>2. LockInv' /\ RunsDoNotClash'
        BY <1>1, <1>6 DEF TypeOK, LockInv, RunsDoNotClash, LoopEnds, Leave, Goto
    <2> QED BY <1>2, <2>1, <2>2 DEF MigratorInv
<1>7. CASE Fail(r)
    <2>1. TypeOK'
        BY <1>1, <1>7 DEF TypeOK, Fail, Leave, Goto, Stage
    <2>2. LockInv' /\ RunsDoNotClash'
        BY <1>1, <1>7 DEF TypeOK, LockInv, RunsDoNotClash, Fail, Leave, Goto
    <2> QED BY <1>2, <2>1, <2>2 DEF MigratorInv
<1>8. CASE Unlock(r)
    <2>1. TypeOK'
        BY <1>1, <1>8 DEF TypeOK, Unlock, Goto, Stage
    <2>2. LockInv' /\ RunsDoNotClash'
        BY <1>1, <1>8 DEF TypeOK, LockInv, RunsDoNotClash, Unlock, Goto
    <2> QED BY <1>2, <2>1, <2>2 DEF MigratorInv
<1>9. CASE Crash(r)
    <2>1. TypeOK'
        BY <1>1, <1>9 DEF TypeOK, Crash, Goto, Stage
    <2>2. LockInv' /\ RunsDoNotClash'
        BY <1>1, <1>9 DEF TypeOK, LockInv, RunsDoNotClash, Crash, Goto
    <2> QED BY <1>2, <2>1, <2>2 DEF MigratorInv
<1> QED BY <1>3, <1>4, <1>5, <1>6, <1>7, <1>8, <1>9

\* Up: the section runs and its row is written with it.
LEMMA ApplyStep ==
    ASSUME WellFormed, MigratorInv, NEW r \in Runs, Apply(r)
    PROVE  MigratorInv'
<1>1. TypeOK /\ NoGaps /\ LockInv /\ RunsDoNotClash
    BY DEF MigratorInv
<1>2. pc[r] = "work" /\ op[r] = "up" /\ UNCHANGED <<lock, op, done>>
    BY DEF Apply
<1>3. PICK v \in Pending(r) :
        /\ schema' = schema \cup {v}
        /\ applied' = applied \cup {v}
        /\ result' = [result EXCEPT ![r] = @ \cup {v}]
        /\ UNCHANGED <<pc, answer>>
    BY <1>2, PendingRuns DEF Apply
<1>4. v \in Versions /\ v \notin applied /\ 1 .. (v - 1) \subseteq applied
    BY <1>2, PendingRuns
<1>5. TypeOK'
    BY <1>1, <1>2, <1>3, <1>4 DEF TypeOK
<1>6. NoGaps'
    <2>1. schema' = applied'
        BY <1>1, <1>3 DEF NoGaps
    <2>2. ASSUME NEW u \in applied' PROVE 1 .. (u - 1) \subseteq applied'
        BY <1>1, <1>3, <1>4, <2>2 DEF NoGaps
    <2> QED BY <2>1, <2>2 DEF NoGaps
<1>7. LockInv'
    <2> SUFFICES ASSUME NEW s \in Runs
                 PROVE  /\ pc[s] \in {"read", "work", "unlock"} => lock = s
                        /\ pc[s] \in {"new", "waiting", "read"} => result'[s] = {}
                        /\ pc[s] = "work" /\ op[s] = "up" => done[s] \cup result'[s] = applied'
                        /\ pc[s] = "work" /\ op[s] = "down" => done[s] = applied'
        BY <1>2, <1>3 DEF LockInv
    <2>1. CASE s = r
        BY <1>1, <1>2, <1>3, <2>1 DEF LockInv, TypeOK
    <2>2. CASE s # r
        BY <1>1, <1>2, <1>3, <2>2 DEF LockInv, TypeOK
    <2> QED BY <2>1, <2>2
<1>8. RunsDoNotClash'
    BY <1>1, <1>3 DEF RunsDoNotClash
<1> QED BY <1>5, <1>6, <1>7, <1>8 DEF MigratorInv

\* Down: the newest migration goes, with its row.
LEMMA RevertStep ==
    ASSUME WellFormed, MigratorInv, NEW r \in Runs, Revert(r)
    PROVE  MigratorInv'
<1>1. TypeOK /\ NoGaps /\ LockInv /\ RunsDoNotClash
    BY DEF MigratorInv
<1>2. pc[r] = "work" /\ op[r] = "down" /\ UNCHANGED <<lock, op, done>>
    BY DEF Revert
<1>3. PICK v \in Newest(r) :
        \/ Leave(r, "no down section") /\ UNCHANGED <<schema, applied, result>>
        \/ /\ schema' = schema \ {v}
           /\ applied' = applied \ {v}
           /\ result' = [result EXCEPT ![r] = {v}]
           /\ Leave(r, "ok")
    BY <1>2, NewestRuns DEF Revert
<1>4. v \in applied /\ \A w \in applied : w <= v
    BY <1>2, NewestRuns
<1>5. applied \subseteq Versions /\ Versions \subseteq Nat /\ v \in Versions
    <2>1. applied \subseteq Versions
        BY <1>1 DEF TypeOK
    <2>2. Versions \subseteq Nat
        BY DEF Versions
    <2> QED BY <1>4, <2>1, <2>2
<1>6. /\ pc' = [pc EXCEPT ![r] = "unlock"]
      /\ answer' \in {[answer EXCEPT ![r] = how] : how \in {"ok", "no down section"}}
    BY <1>3 DEF Leave, Goto
<1>7. TypeOK'
    <2>1. schema' \subseteq Versions /\ applied' \subseteq Versions
        BY <1>1, <1>3 DEF TypeOK
    <2>2. result' \in [Runs -> SUBSET Versions]
        BY <1>1, <1>3, <1>5 DEF TypeOK
    <2>3. pc' \in [Runs -> Stage]
        BY <1>1, <1>6 DEF TypeOK, Stage
    <2>4. answer' \in [Runs -> {None, "ok", "clash", "no down section", "error"}]
        BY <1>1, <1>6 DEF TypeOK
    <2> QED BY <1>1, <1>2, <2>1, <2>2, <2>3, <2>4 DEF TypeOK
<1>8. NoGaps'
    <2>1. CASE UNCHANGED <<schema, applied>>
        BY <1>1, <2>1 DEF NoGaps
    <2>2. CASE schema' = schema \ {v} /\ applied' = applied \ {v}
        <3>1. ASSUME NEW u \in applied' PROVE 1 .. (u - 1) \subseteq applied'
            BY <1>1, <1>4, <1>5, <2>2, <3>1 DEF NoGaps
        <3> QED BY <1>1, <2>2, <3>1 DEF NoGaps
    <2> QED BY <1>3, <2>1, <2>2
<1>9. LockInv'
    <2> SUFFICES ASSUME NEW s \in Runs
                 PROVE  /\ pc'[s] \in {"read", "work", "unlock"} => lock = s
                        /\ pc'[s] \in {"new", "waiting", "read"} => result'[s] = {}
                        /\ pc'[s] = "work" /\ op[s] = "up" => done[s] \cup result'[s] = applied'
                        /\ pc'[s] = "work" /\ op[s] = "down" => done[s] = applied'
        BY <1>2 DEF LockInv
    <2>1. CASE s = r
        BY <1>1, <1>2, <1>6, <2>1 DEF LockInv, TypeOK
    <2>2. CASE s # r
        <3>1. pc'[s] = pc[s] /\ result'[s] = result[s]
            BY <1>1, <1>3, <1>6, <2>2 DEF TypeOK
        <3>2. pc[s] # "work"
            BY <1>1, <1>2, <2>2 DEF LockInv
        <3> QED BY <1>1, <3>1, <3>2 DEF LockInv
    <2> QED BY <2>1, <2>2
<1>10. RunsDoNotClash'
    BY <1>1, <1>6 DEF RunsDoNotClash, TypeOK
<1> QED BY <1>7, <1>8, <1>9, <1>10 DEF MigratorInv

\* Migrations that run side by side keep the invariant, wherever they fail or die.
THEOREM MigratorInvariant == ASSUME WellFormed PROVE Spec => []MigratorInv
<1>1. Init => MigratorInv
    <2> SUFFICES ASSUME Init PROVE MigratorInv
        OBVIOUS
    <2>1. TypeOK
        BY DEF Init, TypeOK, Versions, Stage, WellFormed
    <2>2. NoGaps
        BY DEF Init, NoGaps, WellFormed
    <2>3. LockInv /\ RunsDoNotClash
        <3>1. \A r \in Runs : pc[r] = "new" /\ result[r] = {} /\ answer[r] = None
            BY DEF Init
        <3> QED BY <3>1 DEF LockInv, RunsDoNotClash, WellFormed
    <2> QED BY <2>1, <2>2, <2>3 DEF MigratorInv
<1>2. MigratorInv /\ [Next]_vars => MigratorInv'
    <2> SUFFICES ASSUME MigratorInv, [Next]_vars PROVE MigratorInv'
        OBVIOUS
    <2>1. CASE Next
        BY <2>1, QuietStep, ApplyStep, RevertStep DEF Next
    <2>2. CASE UNCHANGED vars
        BY <2>2 DEF vars, MigratorInv, TypeOK, NoGaps, LockInv, RunsDoNotClash
    <2> QED BY <2>1, <2>2
<1> QED BY <1>1, <1>2, PTL DEF Spec

\* The database has the effects that schema_migrations says it has, without a
\* gap, after any runs, failures and deaths ("Each migration runs in its own
\* transaction").
THEOREM SchemaHasNoGaps == ASSUME WellFormed PROVE Spec => []NoGaps
<1>1. MigratorInv => NoGaps
    BY DEF MigratorInv
<1> QED BY <1>1, MigratorInvariant, PTL

\* The session lock makes concurrent runs safe: none trips over another's work.
THEOREM RunsNeverClash == ASSUME WellFormed PROVE Spec => []RunsDoNotClash
<1>1. MigratorInv => RunsDoNotClash
    BY DEF MigratorInv
<1> QED BY <1>1, MigratorInvariant, PTL

==============================================================================
