------------------------------ MODULE RateLimit ------------------------------
(* The per-customer rate limits of one API instance: Limiter.Allow of       *)
(* internal/ratelimit/limiter.go, called by concurrent handlers.            *)
(*                                                                          *)
(* A call reads the clock, then takes the mutex: calls may enter in another *)
(* order than their times.  A token bucket is the one of                    *)
(* golang.org/x/time/rate.  Tokens are counted in units of 1/Instances of a *)
(* token, so that an instance's share of a rate is a whole number of units  *)
(* per tick.                                                                *)
EXTENDS Integers, FiniteSets, FiniteSetsExt

CONSTANTS
    Customers,
    Rates,        \* values of a customer's rps, per tick
    Instances,    \* API_INSTANCES
    MinBurst,     \* one batch of maximal size
    Sizes,        \* messages per request
    IdleAfter,    \* ticks after which an unused bucket may be dropped
    Threads,      \* handlers
    MaxTime,      \* bound: the last tick
    None

\* sendBatch refuses more than MaxBatchSize messages before it asks for tokens.
ASSUME RateLimitAssumption ==
    /\ Rates \subseteq Nat \ {0} /\ Instances \in Nat \ {0} /\ MinBurst \in Nat \ {0}
    /\ Sizes \subseteq 1 .. MinBurst /\ IdleAfter \in Nat \ {0} /\ MaxTime \in Nat

VARIABLES
    clock,      \* the time
    thread,     \* thread[p]: the arguments and the time of p's call
    buckets,    \* buckets[c]: the customer's token bucket
    lastSweep,  \* Limiter.lastSweep
    admitted,   \* history, admitted[c]: messages admitted
    setback     \* history, setback[c]: ticks by which late calls set the bucket back

vars == <<clock, thread, buckets, lastSweep, admitted, setback>>

CeilDiv(a, b) == (a + b - 1) \div b

\* The capacity that bucketLocked gives a rate, in units.
Burst(rps) == Instances * Max({CeilDiv(2 * rps, Instances), MinBurst})

TypeOK ==
    /\ clock \in 0 .. MaxTime
    /\ thread \in [Threads -> {None} \cup
                     [customer : Customers, rps : Rates, n : Sizes, now : 0 .. MaxTime]]
    /\ \A c \in Customers : buckets[c] # None =>
         /\ buckets[c].rps \in Rates
         /\ buckets[c].tokens \in 0 .. Burst(buckets[c].rps)
         /\ {buckets[c].last, buckets[c].lastUsed} \subseteq 0 .. MaxTime
    /\ lastSweep \in Int
    /\ admitted \in [Customers -> Nat] /\ setback \in [Customers -> Nat]

\* lastSweep is the zero time: the first sweep is due.
Init ==
    /\ clock = 0
    /\ thread = [p \in Threads |-> None]
    /\ buckets = [c \in Customers |-> None]
    /\ lastSweep = -IdleAfter
    /\ admitted = [c \in Customers |-> 0]
    /\ setback = [c \in Customers |-> 0]

------------------------------------------------------------------------------
(* The token bucket of x/time/rate *)

\* advance: the tokens at time t, which may lie before the last event.
TokensAt(b, t) == Min({Burst(b.rps), b.tokens + Max({t - b.last, 0}) * b.rps})

\* SetLimitAt and SetBurstAt: the tokens so far were earned at the old rate.
SetRate(b, rps, t) == [b EXCEPT !.tokens = TokensAt(b, t), !.last = t, !.rps = rps]

\* AllowN, or ReserveN and CancelAt: the bucket's time becomes t, also when t
\* is earlier than its last event.
Take(b, units, t) ==
    LET tokens == TokensAt(b, t)
    IN [b EXCEPT !.tokens = IF units <= tokens THEN tokens - units ELSE tokens, !.last = t]

------------------------------------------------------------------------------
(* Allow *)

Call(p) ==
    /\ thread[p] = None
    /\ \E c \in Customers, rps \in Rates, n \in Sizes :
        thread' = [thread EXCEPT ![p] = [customer |-> c, rps |-> rps, n |-> n, now |-> clock]]
    /\ UNCHANGED <<clock, buckets, lastSweep, admitted, setback>>


\* sweepLocked at time now drops c's bucket.
Drops(c, now) ==
    /\ now - lastSweep >= IdleAfter
    /\ buckets[c] # None
    /\ now - buckets[c].lastUsed > IdleAfter

\* Mutant: a changed rate gets a bucket of its own.
BucketOfRate(c, rps, now) ==
    IF buckets[c] = None \/ Drops(c, now) \/ buckets[c].rps # rps
    THEN [tokens |-> Burst(rps), last |-> now, lastUsed |-> now, rps |-> rps]
    ELSE buckets[c]

\* bucketLocked, after the sweep.
BucketOf(c, rps, now) ==
    IF buckets[c] = None \/ Drops(c, now)
    THEN [tokens |-> Burst(rps), last |-> now, lastUsed |-> now, rps |-> rps]
    ELSE IF buckets[c].rps # rps THEN SetRate(buckets[c], rps, now) ELSE buckets[c]

Allow(p) ==
    /\ thread[p] # None
    /\ LET c == thread[p].customer
           now == thread[p].now
           b == [BucketOf(c, thread[p].rps, now) EXCEPT !.lastUsed = now]
           units == thread[p].n * Instances
       IN /\ buckets' = [x \in Customers |->
                           CASE x = c -> Take(b, units, now)
                             [] x # c /\ Drops(x, now) -> None
                             [] OTHER -> buckets[x]]
          /\ admitted' = [admitted EXCEPT ![c] = @ + IF units <= TokensAt(b, now)
                                                     THEN thread[p].n ELSE 0]
          /\ setback' = [setback EXCEPT ![c] = @ + IF buckets[c] = None \/ Drops(c, now)
                                                   THEN clock - now
                                                   ELSE Max({buckets[c].last - now, 0})]
          /\ lastSweep' = IF now - lastSweep >= IdleAfter THEN now ELSE lastSweep
    /\ thread' = [thread EXCEPT ![p] = None]
    /\ UNCHANGED clock

Tick ==
    /\ clock < MaxTime
    /\ clock' = clock + 1
    /\ UNCHANGED <<thread, buckets, lastSweep, admitted, setback>>

Next == (\E p \in Threads : Call(p) \/ Allow(p)) \/ Tick

Spec == Init /\ [][Next]_vars

------------------------------------------------------------------------------
(* Properties *)

\* A customer is admitted at most a full bucket and its rate over time, through
\* changes of its limit and through the loss of its bucket to the sweep.  A
\* late call (its time was read before the mutex) sets the bucket's time back,
\* or creates a bucket in the past; that time is earned a second time, and no
\* more than that.
AdmissionBounded ==
    \A c \in Customers :
        admitted[c] * Instances <=
            Max({Burst(r) : r \in Rates}) + Max(Rates) * (clock + setback[c])


==============================================================================
