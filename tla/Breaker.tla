------------------------------ MODULE Breaker ------------------------------
(***************************************************************************)
(* The circuit breakers of one worker (internal/dispatch/circuit.go) under *)
(* the dispatch goroutines that ask them for a provider and report results *)
(* (send.go pick, dispatch, record).  Each breaker operation runs under    *)
(* the breaker's mutex and is atomic; between a grant and its result       *)
(* anything may happen to the breaker.                                     *)
(*                                                                         *)
(* Providers are their positions 0 .. N-1 in priority order.  elapsed[p]   *)
(* says that openFor has passed since openedAt.                            *)
(***************************************************************************)
EXTENDS Naturals, FiniteSets

CONSTANTS
    N,                  \* number of providers
    Requests,           \* dispatch goroutines
    Threshold,          \* CircuitFailureThreshold
    MaxAttempts         \* bound on the attempt counts that select a provider

ASSUME BreakerAssumption ==
    N \in Nat \ {0} /\ Threshold \in Nat \ {0} /\ MaxAttempts \in Nat

VARIABLES
    state, failures, elapsed, probing,  \* the breakers
    req,                                \* what each goroutine does
    cut                                 \* sendCtx was cancelled

vars == <<state, failures, elapsed, probing, req, cut>>

Providers == 0 .. (N - 1)
State == {"closed", "half_open", "open"}
Idle == [stage |-> "idle", p |-> 0, probe |-> FALSE]

\* Mutant: the time of an open circuit is never looked at.
CurrentStays(p) == state[p]

\* currentLocked: an open circuit turns half-open when somebody looks at it.
Current(p) == IF state[p] = "open" /\ elapsed[p] THEN "half_open" ELSE state[p]

Usable(p) == Current(p) = "closed" \/ (Current(p) = "half_open" /\ ~probing[p])

Look(S) == state' = [p \in Providers |-> IF p \in S THEN Current(p) ELSE state[p]]

-----------------------------------------------------------------------------
(* pick: providers are asked in turn, beginning at attempts % n for Express *)
(* and at the first for normal traffic; allow grants or refuses.            *)

Order(rotate, attempts, i) == ((IF rotate THEN attempts % N ELSE 0) + i) % N

Allow(p) == probing' = [probing EXCEPT ![p] = @ \/ Current(p) = "half_open"]

\* The first usable provider of the order gets the request.
Pick(r, rotate, attempts) ==
    LET At(i) == Order(rotate, attempts, i) IN
    /\ req[r] = Idle
    /\ \E k \in 0 .. (N - 1) :
        /\ Usable(At(k)) /\ \A i \in 0 .. (k - 1) : ~Usable(At(i))
        /\ Look({At(i) : i \in 0 .. k})
        /\ Allow(At(k))
        /\ req' = [req EXCEPT ![r] = [stage |-> "waiting", p |-> At(k), probe |-> Current(At(k)) = "half_open"]]
    /\ UNCHANGED <<failures, elapsed, cut>>

\* No provider is usable; the job is deferred.
PickNone(r) ==
    /\ req[r] = Idle
    /\ \A p \in Providers : ~Usable(p)
    /\ Look(Providers)
    /\ UNCHANGED <<failures, elapsed, probing, req, cut>>

\* usable and State look at one breaker: runPool, Snapshot, metrics.
Observe(p) ==
    /\ Look({p}) /\ state' # state
    /\ UNCHANGED <<failures, elapsed, probing, req, cut>>

-----------------------------------------------------------------------------
(* record.                                                                 *)

\* Forgets the probe only when the result counts.
EndsProbeIfCounted(success, counted) == success \/ counted
\* Leaves probing set when a success closes the circuit.
EndsProbeUnlessSuccess(success, counted) == ~success
EndsProbe(success, counted) == TRUE

Trips(p) == failures[p] + 1 >= Threshold

Open(p) == state' = [state EXCEPT ![p] = "open"] /\ elapsed' = [elapsed EXCEPT ![p] = FALSE]

Record(p, success, counted) ==
    /\ probing' = [probing EXCEPT ![p] = @ /\ ~EndsProbe(success, counted)]
    /\ \/ /\ success
          /\ state' = [state EXCEPT ![p] = "closed"] /\ failures' = [failures EXCEPT ![p] = 0]
          /\ UNCHANGED elapsed
       \/ /\ ~success /\ counted /\ probing[p]
          /\ Open(p) /\ UNCHANGED failures
       \/ /\ ~success /\ counted /\ ~probing[p] /\ Trips(p)
          /\ Open(p) /\ failures' = [failures EXCEPT ![p] = 0]
       \/ /\ ~success /\ counted /\ ~probing[p] /\ ~Trips(p)
          /\ failures' = [failures EXCEPT ![p] = @ + 1] /\ UNCHANGED <<state, elapsed>>
       \/ ~success /\ ~counted /\ UNCHANGED <<state, failures, elapsed>>

-----------------------------------------------------------------------------
(* dispatch, after pick.                                                   *)

Leave(r) == req' = [req EXCEPT ![r] = Idle] /\ UNCHANGED cut

Send(r) ==
    /\ req[r].stage = "waiting"
    /\ req' = [req EXCEPT ![r].stage = "sending"]
    /\ UNCHANGED <<state, failures, elapsed, probing, cut>>

\* The lease ran out in the budget wait: deferred, and nothing is recorded.
LeaseOver(r) ==
    /\ req[r].stage = "waiting"
    /\ Leave(r)
    /\ UNCHANGED <<state, failures, elapsed, probing>>

\* The request ends; ProviderFault decides whether a failure counts.
Finish(r) ==
    /\ req[r].stage = "sending"
    /\ \E success, counted \in BOOLEAN :
          (success => ~counted) /\ Record(req[r].p, success, counted)
    /\ Leave(r)

\* Shutdown cuts off the wait or the request.
CutOff(r) ==
    /\ cut /\ req[r].stage \in {"waiting", "sending"}
    /\ Record(req[r].p, FALSE, FALSE)
    /\ Leave(r)

Shutdown ==
    /\ ~cut /\ cut' = TRUE
    /\ UNCHANGED <<state, failures, elapsed, probing, req>>

Elapse(p) ==
    /\ ~elapsed[p] /\ elapsed' = [elapsed EXCEPT ![p] = TRUE]
    /\ UNCHANGED <<state, failures, probing, req, cut>>

-----------------------------------------------------------------------------
Init ==
    /\ state = [p \in Providers |-> "closed"]
    /\ failures = [p \in Providers |-> 0]
    /\ elapsed = [p \in Providers |-> TRUE]
    /\ probing = [p \in Providers |-> FALSE]
    /\ req = [r \in Requests |-> Idle]
    /\ cut = FALSE

PickStep(r) ==
    \/ \E rotate \in BOOLEAN, attempts \in 0 .. MaxAttempts : Pick(r, rotate, attempts)
    \/ PickNone(r)

Next ==
    \/ \E r \in Requests : PickStep(r) \/ Send(r) \/ LeaseOver(r) \/ Finish(r) \/ CutOff(r)
    \/ \E p \in Providers : Observe(p) \/ Elapse(p)
    \/ Shutdown

Spec == Init /\ [][Next]_vars

\* Requests have timeouts and budget waits are bounded, so goroutines end;
\* time passes.  Nothing is assumed of new requests or of their results.
Fairness ==
    /\ \A r \in Requests : WF_vars(Send(r)) /\ WF_vars(Finish(r))
    /\ \A p \in Providers : WF_vars(Elapse(p))

FairSpec == Spec /\ Fairness

-----------------------------------------------------------------------------
(* Properties.                                                             *)

TypeOK ==
    /\ state \in [Providers -> State]
    /\ failures \in [Providers -> 0 .. (Threshold - 1)]
    /\ elapsed \in [Providers -> BOOLEAN]
    /\ probing \in [Providers -> BOOLEAN]
    /\ req \in [Requests -> [stage : {"idle", "waiting", "sending"}, p : Providers, probe : BOOLEAN]]
    /\ cut \in BOOLEAN

\* A probe is outstanding only in a half-open circuit: no late result of an
\* older request leaves a closed or open circuit that refuses requests
\* because of a probe (circuit.go record).
ProbeOnlyHalfOpen == \A p \in Providers : probing[p] => state[p] = "half_open"

\* p refuses requests because of a probe that nobody will report on.
ProbeLost(p) == probing[p] /\ \A r \in Requests : req[r].stage = "idle" \/ req[r].p # p

\* A provider that cannot be used becomes usable again, an open circuit after
\* openFor and a half-open one when its probe returns, unless its probe was
\* lost (circuit.go record, send.go dispatch).
RecoversUnlessProbeLost == \A p \in Providers : ~Usable(p) ~> (Usable(p) \/ ProbeLost(p))

\* The only way to lose a probe is the return of dispatch when the lease ran out
\* in the budget wait: every other path out of dispatch, a cancelled request
\* included, records a result that ends the probe (send.go:54).
OnlyLeaseOverLosesProbe ==
    [][\A p \in Providers : ProbeLost(p)' /\ ~ProbeLost(p) =>
          \E r \in Requests : LeaseOver(r)]_vars

\* A provider that cannot be used becomes usable again: an open circuit after
\* openFor, a half-open one when its probe returns
\* (docs/060-processing/030-retries-and-failover.md:77-78).
NeverStuck == \A p \in Providers : ~Usable(p) ~> Usable(p)

\* Half-open lets exactly one probe through (circuit.go:34).
AtMostOneProbe ==
    \A p \in Providers : Current(p) = "half_open" =>
        Cardinality({r \in Requests : req[r].stage # "idle" /\ req[r].p = p /\ req[r].probe}) <= 1
=============================================================================
