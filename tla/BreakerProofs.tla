---------------------------- MODULE BreakerProofs ----------------------------
(* Proofs about Breaker, for any number of providers and goroutines, any     *)
(* threshold and any rotation.                                               *)
EXTENDS Breaker, TLAPS

BreakerInv == TypeOK /\ ProbeOnlyHalfOpen

Stages == {"idle", "waiting", "sending"}

\* The range of a remainder.
LEMMA RemainderRange ==
    ASSUME NEW a \in Nat, NEW b \in Nat \ {0}
    PROVE  a % b \in 0 .. (b - 1)
OBVIOUS

\* The providers are asked in an order of providers (send.go pick).
LEMMA OrderIsProvider ==
    ASSUME NEW rotate \in BOOLEAN, NEW attempts \in Nat, NEW i \in Nat
    PROVE  Order(rotate, attempts, i) \in Providers
<1>1. attempts % N \in Nat
    BY BreakerAssumption
<1>2. (IF rotate THEN attempts % N ELSE 0) + i \in Nat
    BY <1>1
<1> DEFINE n == (IF rotate THEN attempts % N ELSE 0) + i
<1>3. n % N \in 0 .. (N - 1)
    BY <1>2, BreakerAssumption, RemainderRange
<1> QED BY <1>3 DEF Order, Providers

\* Looking at circuits moves an open one to half-open at most (currentLocked).
LEMMA LookStep ==
    ASSUME TypeOK, NEW S, Look(S)
    PROVE  /\ state' \in [Providers -> State]
           /\ \A p \in Providers : state[p] = "half_open" => state'[p] = "half_open"
           /\ \A p \in Providers \cap S : state'[p] = Current(p)
BY DEF TypeOK, Look, Current, State

\* A result ends the probe of its provider and leaves the others alone (record).
LEMMA RecordStep ==
    ASSUME TypeOK, NEW p \in Providers, NEW success \in BOOLEAN, NEW counted \in BOOLEAN,
           Record(p, success, counted)
    PROVE  /\ state' \in [Providers -> State]
           /\ failures' \in [Providers -> 0 .. (Threshold - 1)]
           /\ elapsed' \in [Providers -> BOOLEAN]
           /\ probing' \in [Providers -> BOOLEAN]
           /\ ~probing'[p]
           /\ \A q \in Providers \ {p} : probing'[q] = probing[q] /\ state'[q] = state[q]
<1>1. /\ probing' \in [Providers -> BOOLEAN] /\ ~probing'[p]
      /\ \A q \in Providers \ {p} : probing'[q] = probing[q]
    BY DEF TypeOK, Record, EndsProbe
<1>2. /\ state' \in [Providers -> State] /\ elapsed' \in [Providers -> BOOLEAN]
      /\ \A q \in Providers \ {p} : state'[q] = state[q]
    BY DEF TypeOK, Record, Open, State
<1>3. failures' \in [Providers -> 0 .. (Threshold - 1)]
    <2>1. failures[p] \in 0 .. (Threshold - 1)
        BY DEF TypeOK
    <2>2. 0 \in 0 .. (Threshold - 1)
        BY BreakerAssumption
    <2>3. ~Trips(p) => failures[p] + 1 \in 0 .. (Threshold - 1)
        BY <2>1, BreakerAssumption DEF Trips
    <2>4. PICK f \in 0 .. (Threshold - 1) : failures' = failures \/ failures' = [failures EXCEPT ![p] = f]
        BY <2>2, <2>3 DEF Record
    <2> QED BY <2>4 DEF TypeOK
<1> QED BY <1>1, <1>2, <1>3

\* What becomes of the breakers and requests when a goroutine is granted p.
LEMMA PickStepEffect ==
    ASSUME TypeOK, NEW r \in Requests, NEW rotate \in BOOLEAN, NEW attempts \in 0 .. MaxAttempts,
           Pick(r, rotate, attempts)
    PROVE  \E p \in Providers :
             /\ state' \in [Providers -> State]
             /\ \A q \in Providers : state[q] = "half_open" => state'[q] = "half_open"
             /\ state'[p] = Current(p)
             /\ probing' = [probing EXCEPT ![p] = @ \/ Current(p) = "half_open"]
             /\ req[r] = Idle
             /\ req' = [req EXCEPT ![r] = [stage |-> "waiting", p |-> p,
                                           probe |-> Current(p) = "half_open"]]
             /\ UNCHANGED <<failures, elapsed, cut>>
<1> DEFINE At(i) == Order(rotate, attempts, i)
<1>1. attempts \in Nat
    BY BreakerAssumption
<1>2. PICK k \in 0 .. (N - 1) :
        /\ Look({At(i) : i \in 0 .. k}) /\ Allow(At(k))
        /\ req' = [req EXCEPT ![r] = [stage |-> "waiting", p |-> At(k),
                                      probe |-> Current(At(k)) = "half_open"]]
    BY DEF Pick
<1>3. k \in Nat /\ k \in 0 .. k
    BY BreakerAssumption
<1>4. At(k) \in Providers
    BY <1>1, <1>3, OrderIsProvider
<1>5. At(k) \in {At(i) : i \in 0 .. k}
    BY <1>3
<1> HIDE DEF At
<1>6. /\ state' \in [Providers -> State]
      /\ \A q \in Providers : state[q] = "half_open" => state'[q] = "half_open"
      /\ state'[At(k)] = Current(At(k))
    BY <1>2, <1>4, <1>5, LookStep
<1>7. req[r] = Idle /\ UNCHANGED <<failures, elapsed, cut>>
    BY DEF Pick
<1> QED BY <1>2, <1>4, <1>6, <1>7 DEF Allow

\* Idle is a request of the type.
LEMMA IdleType == Idle \in [stage : Stages, p : Providers, probe : BOOLEAN]
BY BreakerAssumption DEF Idle, Stages, Providers

\* Every step keeps the types and lets probes be outstanding in half-open circuits only.
LEMMA BreakerStep == BreakerInv /\ [Next]_vars => BreakerInv'
<1> SUFFICES ASSUME BreakerInv, [Next]_vars PROVE BreakerInv'
    OBVIOUS
<1> USE DEF BreakerInv
<1>1. TypeOK /\ ProbeOnlyHalfOpen
    OBVIOUS
<1>2. ASSUME NEW r \in Requests, NEW rotate \in BOOLEAN, NEW attempts \in 0 .. MaxAttempts,
             Pick(r, rotate, attempts)
      PROVE  BreakerInv'
    <2>1. PICK p \in Providers :
             /\ state' \in [Providers -> State]
             /\ \A q \in Providers : state[q] = "half_open" => state'[q] = "half_open"
             /\ state'[p] = Current(p)
             /\ probing' = [probing EXCEPT ![p] = @ \/ Current(p) = "half_open"]
             /\ req' = [req EXCEPT ![r] = [stage |-> "waiting", p |-> p,
                                           probe |-> Current(p) = "half_open"]]
             /\ UNCHANGED <<failures, elapsed, cut>>
        BY <1>1, <1>2, PickStepEffect
    <2>2. probing' \in [Providers -> BOOLEAN]
        BY <1>1, <2>1 DEF TypeOK
    <2>3. req' \in [Requests -> [stage : Stages, p : Providers, probe : BOOLEAN]]
        BY <1>1, <2>1 DEF TypeOK, Stages
    <2>4. TypeOK'
        BY <1>1, <2>1, <2>2, <2>3 DEF TypeOK, Stages
    <2>5. ProbeOnlyHalfOpen'
        BY <1>1, <2>1 DEF TypeOK, ProbeOnlyHalfOpen
    <2> QED BY <2>4, <2>5
<1>3. ASSUME NEW S, Look(S), UNCHANGED <<failures, elapsed, probing, req, cut>>
      PROVE  BreakerInv'
    BY <1>1, <1>3, LookStep DEF TypeOK, ProbeOnlyHalfOpen
<1>4. ASSUME NEW r \in Requests, NEW success \in BOOLEAN, NEW counted \in BOOLEAN,
             Record(req[r].p, success, counted), Leave(r)
      PROVE  BreakerInv'
    <2>1. req[r].p \in Providers
        BY <1>1 DEF TypeOK
    <2>2. req' \in [Requests -> [stage : Stages, p : Providers, probe : BOOLEAN]] /\ cut' \in BOOLEAN
        BY <1>1, <1>4, IdleType DEF TypeOK, Leave, Stages
    <2>3. TypeOK'
        BY <1>1, <1>4, <2>1, <2>2, RecordStep DEF TypeOK, Stages
    <2>4. ProbeOnlyHalfOpen'
        <3> SUFFICES ASSUME NEW q \in Providers, probing'[q] PROVE state'[q] = "half_open"
            BY DEF ProbeOnlyHalfOpen
        <3>1. q # req[r].p /\ probing[q] /\ state'[q] = state[q]
            BY <1>1, <1>4, <2>1, RecordStep
        <3> QED BY <1>1, <3>1 DEF ProbeOnlyHalfOpen
    <2> QED BY <2>3, <2>4
<1>5. ASSUME NEW r \in Requests, Send(r) PROVE BreakerInv'
    BY <1>1, <1>5 DEF Send, TypeOK, ProbeOnlyHalfOpen
<1>6. ASSUME NEW r \in Requests, LeaseOver(r) PROVE BreakerInv'
    BY <1>1, <1>6, IdleType DEF LeaseOver, Leave, TypeOK, ProbeOnlyHalfOpen, Stages
<1>7. ASSUME NEW p \in Providers, Elapse(p) PROVE BreakerInv'
    BY <1>1, <1>7 DEF Elapse, TypeOK, ProbeOnlyHalfOpen
<1>8. CASE Shutdown
    BY <1>1, <1>8 DEF Shutdown, TypeOK, ProbeOnlyHalfOpen
<1>9. CASE UNCHANGED vars
    BY <1>1, <1>9 DEF vars, TypeOK, ProbeOnlyHalfOpen
<1>10. ASSUME NEW r \in Requests, PickNone(r) \/ Finish(r) \/ CutOff(r) PROVE BreakerInv'
    BY <1>3, <1>4, <1>10 DEF PickNone, Finish, CutOff
<1>11. ASSUME NEW p \in Providers, Observe(p) PROVE BreakerInv'
    BY <1>3, <1>11 DEF Observe
<1> QED BY <1>2, <1>5, <1>6, <1>7, <1>8, <1>9, <1>10, <1>11 DEF Next, PickStep

\* Types hold and probes are outstanding in half-open circuits only (record).
THEOREM BreakerInvariant == Spec => []BreakerInv
<1>1. ASSUME Init PROVE BreakerInv
    <2>1. 0 \in 0 .. (Threshold - 1)
        BY BreakerAssumption
    <2>2. failures \in [Providers -> 0 .. (Threshold - 1)]
        BY <1>1, <2>1 DEF Init
    <2>3. req \in [Requests -> [stage : Stages, p : Providers, probe : BOOLEAN]]
        BY <1>1, IdleType DEF Init
    <2>4. /\ state \in [Providers -> State] /\ elapsed \in [Providers -> BOOLEAN]
          /\ probing \in [Providers -> BOOLEAN] /\ cut \in BOOLEAN
        BY <1>1 DEF Init, State
    <2>5. ProbeOnlyHalfOpen
        BY <1>1 DEF Init, ProbeOnlyHalfOpen
    <2> QED BY <2>2, <2>3, <2>4, <2>5 DEF BreakerInv, TypeOK, Stages
<1> QED BY <1>1, BreakerStep, PTL DEF Spec

\* No late result leaves a closed or open circuit with a probe outstanding.
THEOREM ProbesAreHalfOpen == Spec => []ProbeOnlyHalfOpen
<1>1. BreakerInv => ProbeOnlyHalfOpen
    BY DEF BreakerInv
<1> QED BY <1>1, BreakerInvariant, PTL

\* Of all the ways out of dispatch, the lapse of a lease in the budget wait is
\* the only one that can lose a probe (send.go:54).
LEMMA StepKeepsProbe ==
    ASSUME BreakerInv, [Next]_vars
    PROVE  [\A p \in Providers : ProbeLost(p)' /\ ~ProbeLost(p) =>
               \E r \in Requests : LeaseOver(r)]_vars
<1> SUFFICES ASSUME Next, NEW p \in Providers, ProbeLost(p)', ~ProbeLost(p),
                    ~\E r \in Requests : LeaseOver(r)
             PROVE  FALSE
    OBVIOUS
<1>1. TypeOK
    BY DEF BreakerInv
<1>2. ASSUME NEW r \in Requests, NEW rotate \in BOOLEAN, NEW attempts \in 0 .. MaxAttempts,
             Pick(r, rotate, attempts)
      PROVE  FALSE
    <2>1. PICK q \in Providers :
             /\ probing' = [probing EXCEPT ![q] = @ \/ Current(q) = "half_open"]
             /\ req[r] = Idle
             /\ req' = [req EXCEPT ![r] = [stage |-> "waiting", p |-> q,
                                           probe |-> Current(q) = "half_open"]]
        BY <1>1, <1>2, PickStepEffect
    <2>2. req'[r].stage = "waiting" /\ req'[r].p = q
        BY <1>1, <2>1 DEF TypeOK
    <2>3. q # p
        BY <2>2 DEF ProbeLost
    <2>4. probing[p] /\ \A t \in Requests \ {r} : req'[t] = req[t]
        BY <1>1, <2>1, <2>3 DEF ProbeLost, TypeOK
    <2>5. req[r].stage = "idle"
        BY <2>1 DEF Idle
    <2> QED BY <2>4, <2>5 DEF ProbeLost
<1>3. ASSUME UNCHANGED <<probing, req>> PROVE FALSE
    BY <1>3 DEF ProbeLost
<1>4. ASSUME NEW r \in Requests, NEW success \in BOOLEAN, NEW counted \in BOOLEAN,
             Record(req[r].p, success, counted), Leave(r)
      PROVE  FALSE
    <2>1. req[r].p \in Providers
        BY <1>1 DEF TypeOK
    <2>2. p # req[r].p /\ probing[p]
        BY <1>1, <1>4, <2>1, RecordStep DEF ProbeLost
    <2>3. \A t \in Requests \ {r} : req'[t] = req[t]
        BY <1>1, <1>4 DEF Leave, TypeOK
    <2> QED BY <2>2, <2>3 DEF ProbeLost
<1>5. ASSUME NEW r \in Requests, Send(r) PROVE FALSE
    <2>1. probing' = probing /\ \A t \in Requests : req'[t].p = req[t].p
        BY <1>1, <1>5 DEF Send, TypeOK
    <2>2. \A t \in Requests : req'[t].stage = "idle" => req[t].stage = "idle"
        BY <1>1, <1>5 DEF Send, TypeOK
    <2> QED BY <2>1, <2>2 DEF ProbeLost
<1> QED BY <1>2, <1>3, <1>4, <1>5 DEF Next, PickStep, PickNone, Finish, CutOff, Observe, Elapse, Shutdown

\* The same, of every behaviour.
THEOREM LeasesLoseProbes == Spec => OnlyLeaseOverLosesProbe
<1>1. BreakerInv /\ [Next]_vars => [\A p \in Providers : ProbeLost(p)' /\ ~ProbeLost(p) =>
                                       \E r \in Requests : LeaseOver(r)]_vars
    BY StepKeepsProbe
<1> QED BY <1>1, BreakerInvariant, PTL DEF Spec, OnlyLeaseOverLosesProbe

==============================================================================
