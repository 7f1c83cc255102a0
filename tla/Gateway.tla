------------------------------ MODULE Gateway ------------------------------
(***************************************************************************)
(* Acceptance, dispatch, completion, delivery reports and the sweeper, on  *)
(* the tables they share: messages, queue and, through Ledger, customers   *)
(* and transactions.                                                       *)
(*                                                                         *)
(* An action is one committed database transaction, one step of a dispatch *)
(* goroutine, or one step of the environment (provider, crash, time).      *)
(*                                                                         *)
(* Time.  The code compares now() with deadlines.  The model keeps, per    *)
(* message, whether each deadline has passed: due (next_attempt_at: the    *)
(* retry delay of a free row, the lease of an owned one), ttl (expires_at) *)
(* and late (the Express SLA).  Any deadline may pass at any time, so      *)
(* every order of deadlines is covered.  A worker's own estimate of the    *)
(* database time (job.dbNow) starts when the claim's answer arrives, so it *)
(* runs behind: what it takes for passed has passed, and what it takes for *)
(* not passed may have passed.                                             *)
(***************************************************************************)
EXTENDS Ledger

CONSTANTS
    Workers, NoWorker,          \* lease owners, and NULL
    Providers, NoProvider,      \* providers, and NULL
    Express,                    \* the messages of type express
    MaxAttempts,                \* Policy.MaxAttempts
    MaxLeases                   \* bound on lease_version

ASSUME GatewayAssumption ==
    /\ NoWorker \notin Workers /\ NoProvider \notin Providers
    /\ Express \subseteq Messages
    /\ MaxAttempts \in Nat \ {0}
    /\ MaxLeases \in Nat

VARIABLES
    \* messages; a message without a row has status "none"
    status, attempts,
    sentAt, completedAt,        \* whether the timestamp is set
    breached,                   \* sla_breached
    provider, providerRef,      \* providerRef: the provider that issued it
    \* queue
    queued,                     \* the messages that have a row
    owner, version, due,
    \* deadlines that have passed
    ttl, late,
    \* worker memory
    jobs,                       \* claimed, in a dispatch goroutine
    outcomes,                   \* handed to the completer
    \* external: the pairs <<message, provider>> a provider has accepted
    taken

messageVars == <<status, attempts, sentAt, completedAt, breached, provider, providerRef>>
queueVars == <<queued, owner, version, due>>
clockVars == <<ttl, late>>
workerVars == <<jobs, outcomes>>
vars == <<ledgerVars, messageVars, queueVars, clockVars, workerVars, taken>>

Terminal == {"delivered", "undelivered", "failed", "expired"}
Status == {"none", "accepted", "sent"} \cup Terminal
Refundable == {"failed", "expired"}

\* Stages of dispatch.  "answered" and "rejected": the provider has accepted
\* or permanently refused the request and its answer is on the way.
Stage == {"claimed", "picked", "sending", "answered", "rejected"}
Job == [worker : Workers, msg : Messages, version : Nat, snap : Nat,
        stage : Stage, provider : Providers \cup {NoProvider}]

Kind == {"sent", "retry", "deferred", "failed", "expired"}
Outcome == [worker : Workers, msg : Messages, version : Nat, snap : Nat, kind : Kind,
            provider : Providers \cup {NoProvider}, attempted : BOOLEAN, now : BOOLEAN]

-----------------------------------------------------------------------------
(* Acceptance and customers.                                               *)

\* A message ID is new, and a client_ref that exists is not inserted again.
FreshAnyStatus(c, m) == Owner[m] = c
Fresh(c, m) == Owner[m] = c /\ status[m] = "none"

\* message.Service.insert: rows, debits, queue rows and the balance, or none.
Accept(c, S) ==
    /\ S # {} /\ \A m \in S : Fresh(c, m)
    /\ Debit(c, S)
    /\ status' = [m \in Messages |-> IF m \in S THEN "accepted" ELSE status[m]]
    /\ queued' = queued \cup S
    /\ due' = [m \in Messages |-> m \in S \/ due[m]]
    /\ UNCHANGED <<attempts, sentAt, completedAt, breached, provider, providerRef,
                   owner, version, clockVars, workerVars, taken>>

CreateCustomer(c) ==
    Create(c) /\ UNCHANGED <<messageVars, queueVars, clockVars, workerVars, taken>>

AddCredits(c, r, a) ==
    ChargeCustomer(c, r, a) /\ UNCHANGED <<messageVars, queueVars, clockVars, workerVars, taken>>

\* Values of the columns of rows that do not exist.
Cleared(f, S, v) == [m \in Messages |-> IF m \in S THEN v ELSE f[m]]

ClearQueueRows(S) ==
    /\ queued' = queued \ S
    /\ owner' = Cleared(owner, S, NoWorker)
    /\ version' = Cleared(version, S, 0)
    /\ due' = Cleared(due, S, FALSE)

\* customer.Delete cascades to messages and queue; workers keep what they hold.
DeleteCustomer(c) ==
    LET S == Of(c, Messages) IN
    /\ Delete(c)
    /\ status' = Cleared(status, S, "none")
    /\ attempts' = Cleared(attempts, S, 0)
    /\ sentAt' = Cleared(sentAt, S, FALSE)
    /\ completedAt' = Cleared(completedAt, S, FALSE)
    /\ breached' = Cleared(breached, S, FALSE)
    /\ provider' = Cleared(provider, S, NoProvider)
    /\ providerRef' = Cleared(providerRef, S, NoProvider)
    /\ ClearQueueRows(S)
    /\ UNCHANGED <<clockVars, workerVars, taken>>

-----------------------------------------------------------------------------
(* Dispatch.                                                               *)

NextVersionUnchanged(m) == version[m]
NextVersion(m) == version[m] + 1

NewJob(w, m) == [worker |-> w, msg |-> m, version |-> NextVersion(m),
                 snap |-> attempts[m], stage |-> "claimed", provider |-> NoProvider]

ReadyIgnoringLease(m) == status[m] = "accepted"
Ready(m) == due[m] /\ status[m] = "accepted"

\* Worker.claim: S is what LIMIT and SKIP LOCKED leave of the ready rows.
Claim(w, S) ==
    /\ S # {}
    /\ \A m \in S : m \in queued /\ Ready(m) /\ version[m] < MaxLeases
    /\ owner' = Cleared(owner, S, w)
    /\ version' = [m \in Messages |-> IF m \in S THEN NextVersion(m) ELSE version[m]]
    /\ due' = Cleared(due, S, FALSE)
    /\ jobs' = jobs \cup {NewJob(w, m) : m \in S}
    /\ UNCHANGED <<ledgerVars, messageVars, queued, clockVars, outcomes, taken>>

\* The goroutine ends with an outcome, submitted to the completer.
Finish(j, kind, attempted, now) ==
    /\ jobs' = jobs \ {j}
    /\ outcomes' = outcomes \cup
          {[worker |-> j.worker, msg |-> j.msg, version |-> j.version, snap |-> j.snap,
            kind |-> kind, provider |-> IF attempted THEN j.provider ELSE NoProvider,
            attempted |-> attempted, now |-> now]}
    /\ UNCHANGED <<ledgerVars, messageVars, queueVars, clockVars, taken>>

Advance(j, stage, p) ==
    /\ jobs' = (jobs \ {j}) \cup {[j EXCEPT !.stage = stage, !.provider = p]}
    /\ UNCHANGED <<ledgerVars, messageVars, queueVars, clockVars, outcomes>>

\* !ExpiresAt.After(dbNow)
DispatchExpired(j) ==
    j.stage = "claimed" /\ ttl[j.msg] /\ Finish(j, "expired", FALSE, FALSE)

\* pick found every circuit open, or its probe taken (Breaker).
DispatchNoProvider(j) ==
    j.stage = "claimed" /\ Finish(j, "deferred", FALSE, FALSE)

DispatchPick(j, p) ==
    j.stage = "claimed" /\ Advance(j, "picked", p) /\ UNCHANGED taken

\* The lease ran out while the goroutine waited for the rate budget.
LeaseOver(j) == j.msg \notin queued \/ version[j.msg] # j.version \/ due[j.msg]

DispatchLeaseOver(j) ==
    j.stage = "picked" /\ LeaseOver(j) /\ Finish(j, "deferred", FALSE, TRUE)

DispatchSend(j) ==
    j.stage = "picked" /\ Advance(j, "sending", j.provider) /\ UNCHANGED taken

\* External: the provider's side of POST /send.
ProviderAccepts(j) ==
    /\ j.stage = "sending" /\ Advance(j, "answered", j.provider)
    /\ taken' = taken \cup {<<j.msg, j.provider>>}

ProviderRejects(j) ==
    j.stage = "sending" /\ Advance(j, "rejected", j.provider) /\ UNCHANGED taken

DispatchSent(j) == j.stage = "answered" /\ Finish(j, "sent", TRUE, FALSE)

LastAttempt(j) == j.snap + 1 >= MaxAttempts

\* se.Permanent, or the last attempt failed.
DispatchFailed(j) ==
    /\ \/ j.stage = "rejected"
       \/ j.stage \in {"sending", "answered", "rejected"} /\ LastAttempt(j)
    /\ Finish(j, "failed", TRUE, FALSE)

\* A retryable failure, or an answer that was lost.  Whether the backoff
\* reaches beyond the TTL depends on the jitter.
DispatchRetry(j) ==
    /\ j.stage \in {"sending", "answered", "rejected"} /\ ~LastAttempt(j)
    /\ \E kind \in {"retry", "expired"} : Finish(j, kind, TRUE, FALSE)

\* Shutdown cuts off the budget wait or the request, or the worker's claim
\* never learned of the rows it leased: the lease is left to expire.
DispatchCutOff(j) ==
    /\ jobs' = jobs \ {j}
    /\ UNCHANGED <<ledgerVars, messageVars, queueVars, clockVars, outcomes, taken>>

-----------------------------------------------------------------------------
(* completer.commit: outcomes B of worker w in one transaction.            *)

\* lockOwned: outcomes whose claim still is the row's owner and generation.
LockOwned(w, B) ==
    {o \in B : o.msg \in queued /\ owner[o.msg] = w /\ version[o.msg] = o.version}

MsgsOf(O, kinds) == {o.msg : o \in {x \in O : x.kind \in kinds}}

\* The rows each UPDATE changes.
RecordSent(O) == {m \in MsgsOf(O, {"sent"}) : status[m] \notin Refundable /\ ~sentAt[m]}
RecordRetry(O) == {m \in MsgsOf(O, {"retry"}) : status[m] = "accepted"}
RecordTerminalAnyStatus(O) == MsgsOf(O, Refundable)
RecordTerminal(O) == {m \in MsgsOf(O, Refundable) : status[m] = "accepted"}

\* A status that a delivery report made terminal is kept.
BecomesSent(m) == status[m] = "accepted"

\* sla_breached of the rows recorded as sent and of those ended.
Breaches(m, sent, terminal) == m \in Express /\ (m \in terminal \/ (m \in sent /\ late[m]))

\* attempts = snap guards the increment of sent and retry, not of terminal.
CountsAttempt(o, changed) ==
    /\ o.msg \in changed
    /\ \/ o.kind \in {"sent", "retry"} /\ o.snap = attempts[o.msg]
       \/ o.kind \in Refundable /\ o.attempted

OutcomeFor(O, m) == CHOOSE o \in O : o.msg = m

CommitMessages(O) ==
    LET sent == RecordSent(O)
        retry == RecordRetry(O)
        terminal == RecordTerminal(O)
        changed == sent \cup retry \cup terminal
        fresh == {m \in sent : BecomesSent(m)}
        tried == fresh \cup retry \cup {m \in terminal : OutcomeFor(O, m).attempted}
    IN
    /\ status' = [m \in Messages |->
          IF m \in fresh THEN "sent"
          ELSE IF m \in terminal THEN OutcomeFor(O, m).kind ELSE status[m]]
    /\ attempts' = [m \in Messages |->
          IF \E o \in O : o.msg = m /\ CountsAttempt(o, changed)
          THEN attempts[m] + 1 ELSE attempts[m]]
    /\ sentAt' = [m \in Messages |-> sentAt[m] \/ m \in sent]
    /\ completedAt' = [m \in Messages |-> completedAt[m] \/ m \in terminal]
    /\ breached' = [m \in Messages |-> breached[m] \/ Breaches(m, sent, terminal)]
    /\ provider' = [m \in Messages |->
          IF m \in tried THEN OutcomeFor(O, m).provider ELSE provider[m]]
    /\ providerRef' = [m \in Messages |->
          IF m \in fresh THEN OutcomeFor(O, m).provider ELSE providerRef[m]]

\* Finished rows are deleted, rows of retries and deferrals released.
CommitQueue(O) ==
    LET released == RecordRetry(O) \cup MsgsOf(O, {"deferred"})
        removed == {o.msg : o \in O} \ released
        atOnce == {o.msg : o \in {x \in O : x.now}}
    IN
    /\ queued' = queued \ removed
    /\ owner' = Cleared(owner, removed \cup released, NoWorker)
    /\ version' = Cleared(version, removed, 0)
    /\ due' = [m \in Messages |-> m \in released \cap atOnce
                                  \/ (m \notin removed \cup released /\ due[m])]

Commit(w, B) ==
    LET O == LockOwned(w, B) IN
    /\ CommitMessages(O)
    /\ CommitQueue(O)
    /\ ApplyRefunds(RecordTerminal(O))
    /\ UNCHANGED <<customers, deleted, charges, debits, clockVars, jobs, taken>>

\* flush: the transaction committed and the completer knows it ...
FlushCommitted(w, B) == B # {} /\ Commit(w, B) /\ outcomes' = outcomes \ B

\* ... or the acknowledgement was lost and the same batch will be retried ...
FlushUnacknowledged(w, B) == B # {} /\ Commit(w, B) /\ UNCHANGED outcomes

\* ... or every try failed and the outcomes are dropped.
FlushDropped(w, B) ==
    /\ B # {} /\ outcomes' = outcomes \ B
    /\ UNCHANGED <<ledgerVars, messageVars, queueVars, clockVars, jobs, taken>>

OutcomesOf(w) == {o \in outcomes : o.worker = w}

Crash(w) ==
    /\ jobs' = {j \in jobs : j.worker # w}
    /\ outcomes' = outcomes \ OutcomesOf(w)
    /\ <<jobs, outcomes>>' # <<jobs, outcomes>>
    /\ UNCHANGED <<ledgerVars, messageVars, queueVars, clockVars, taken>>

-----------------------------------------------------------------------------
(* dlr.Apply: R holds the first report of each message of the batch.  A    *)
(* provider may report any status for what it accepted, at any time, more  *)
(* than once or never.                                                     *)
Report == [msg : Messages, provider : Providers, status : {"delivered", "undelivered"}]

ReportableAnyStatus == {"accepted", "sent", "failed", "expired"}
Reportable == {"accepted", "sent"}

PossibleReports == {r \in Report : <<r.msg, r.provider>> \in taken}

ApplyReports(R) ==
    LET known == {r \in R : status[r.msg] \in Reportable}
        applied == {r.msg : r \in known}
        ReportFor(m) == CHOOSE r \in known : r.msg = m
        Coalesce(f, m) == IF m \in applied /\ f[m] = NoProvider
                          THEN ReportFor(m).provider ELSE f[m]
    IN
    /\ applied # {}
    /\ \A r, s \in R : r.msg = s.msg => r = s
    /\ status' = [m \in Messages |-> IF m \in applied THEN ReportFor(m).status ELSE status[m]]
    /\ completedAt' = [m \in Messages |-> completedAt[m] \/ m \in applied]
    /\ provider' = [m \in Messages |-> Coalesce(provider, m)]
    /\ providerRef' = [m \in Messages |-> Coalesce(providerRef, m)]
    /\ UNCHANGED <<ledgerVars, attempts, sentAt, breached, queueVars, clockVars, workerVars, taken>>

-----------------------------------------------------------------------------
(* Sweeper tasks; S is what LIMIT and SKIP LOCKED leave.                   *)

InFlight(m) == owner[m] # NoWorker /\ ~due[m]

Expirable(m) == ttl[m] /\ ~InFlight(m)

SweepExpire(S) ==
    LET expired == {m \in S : status[m] = "accepted"} IN
    /\ expired # {}
    /\ \A m \in S : m \in queued /\ Expirable(m)
    /\ status' = Cleared(status, expired, "expired")
    /\ completedAt' = Cleared(completedAt, expired, TRUE)
    /\ breached' = Cleared(breached, expired \cap Express, TRUE)
    /\ ApplyRefunds(expired)
    /\ ClearQueueRows(expired)
    /\ UNCHANGED <<customers, deleted, charges, debits, attempts, sentAt, provider, providerRef,
                   clockVars, workerVars, taken>>

SweepFlagSLA(S) ==
    /\ S # {}
    /\ \A m \in S : m \in queued \cap Express /\ status[m] = "accepted" /\ ~breached[m] /\ late[m]
    /\ breached' = Cleared(breached, S, TRUE)
    /\ UNCHANGED <<ledgerVars, status, attempts, sentAt, completedAt, provider, providerRef,
                   queueVars, clockVars, workerVars, taken>>

OrphanUnlessOwned(m) == status[m] # "accepted" /\ owner[m] = NoWorker
Orphan(m) == status[m] # "accepted" /\ ~InFlight(m)

SweepOrphans(S) ==
    /\ S # {}
    /\ \A m \in S : m \in queued /\ Orphan(m)
    /\ ClearQueueRows(S)
    /\ UNCHANGED <<ledgerVars, messageVars, clockVars, workerVars, taken>>

-----------------------------------------------------------------------------
(* Deadlines pass; after the queue row is gone nothing reads them.         *)

Elapse(m) ==
    /\ m \in queued /\ ~due[m] /\ due' = [due EXCEPT ![m] = TRUE]
    /\ UNCHANGED <<ledgerVars, messageVars, queued, owner, version, clockVars, workerVars, taken>>

PassTTL(m) ==
    /\ m \in queued /\ ~ttl[m] /\ ttl' = [ttl EXCEPT ![m] = TRUE]
    /\ UNCHANGED <<ledgerVars, messageVars, queueVars, late, workerVars, taken>>

PassSLA(m) ==
    /\ m \in queued \cap Express /\ ~late[m] /\ late' = [late EXCEPT ![m] = TRUE]
    /\ UNCHANGED <<ledgerVars, messageVars, queueVars, ttl, workerVars, taken>>

-----------------------------------------------------------------------------
Init ==
    /\ LedgerInit
    /\ status = [m \in Messages |-> "none"]
    /\ attempts = [m \in Messages |-> 0]
    /\ sentAt = [m \in Messages |-> FALSE]
    /\ completedAt = [m \in Messages |-> FALSE]
    /\ breached = [m \in Messages |-> FALSE]
    /\ provider = [m \in Messages |-> NoProvider]
    /\ providerRef = [m \in Messages |-> NoProvider]
    /\ queued = {}
    /\ owner = [m \in Messages |-> NoWorker]
    /\ version = [m \in Messages |-> 0]
    /\ due = [m \in Messages |-> FALSE]
    /\ ttl = [m \in Messages |-> FALSE]
    /\ late = [m \in Messages |-> FALSE]
    /\ jobs = {} /\ outcomes = {} /\ taken = {}

CustomerStep ==
    \E c \in Customers :
        \/ CreateCustomer(c)
        \/ DeleteCustomer(c)
        \/ \E r \in ChargeRefs, a \in Amounts : AddCredits(c, r, a)
        \/ \E S \in SUBSET Of(c, Messages) : Accept(c, S)

DispatchStep(j) ==
    \/ DispatchExpired(j)
    \/ DispatchNoProvider(j)
    \/ \E p \in Providers : DispatchPick(j, p)
    \/ DispatchLeaseOver(j)
    \/ DispatchSend(j)
    \/ DispatchSent(j)
    \/ DispatchFailed(j)
    \/ DispatchRetry(j)
    \/ DispatchCutOff(j)

ProviderStep(j) == ProviderAccepts(j) \/ ProviderRejects(j)

FlushStep(w) ==
    \E B \in SUBSET OutcomesOf(w) :
        FlushCommitted(w, B) \/ FlushUnacknowledged(w, B) \/ FlushDropped(w, B)

SweepStep ==
    \E S \in SUBSET queued : SweepExpire(S) \/ SweepFlagSLA(S) \/ SweepOrphans(S)

TimeStep == \E m \in Messages : Elapse(m) \/ PassTTL(m) \/ PassSLA(m)

Next ==
    \/ CustomerStep
    \/ \E w \in Workers : (\E S \in SUBSET queued : Claim(w, S)) \/ FlushStep(w) \/ Crash(w)
    \/ \E j \in jobs : DispatchStep(j) \/ ProviderStep(j)
    \/ \E R \in SUBSET PossibleReports : ApplyReports(R)
    \/ SweepStep
    \/ TimeStep

Spec == Init /\ [][Next]_vars

\* Time passes, and every worker process runs Sweep on a timer for ever: a
\* sweeper task that has rows to act on acts on them.  Nothing is assumed of
\* dispatch: workers may stop, crash or lose every outcome.
Fairness ==
    \A m \in Messages :
        /\ WF_vars(Elapse(m)) /\ WF_vars(PassTTL(m)) /\ WF_vars(PassSLA(m))
        /\ WF_vars(\E S \in SUBSET queued : m \in S /\ SweepExpire(S))
        /\ WF_vars(\E S \in SUBSET queued : m \in S /\ SweepFlagSLA(S))
        /\ WF_vars(\E S \in SUBSET queued : m \in S /\ SweepOrphans(S))

FairSpec == Spec /\ Fairness

-----------------------------------------------------------------------------
(* Properties.                                                             *)

TypeOK ==
    /\ LedgerTypeOK
    /\ status \in [Messages -> Status]
    /\ attempts \in [Messages -> Nat]
    /\ sentAt \in [Messages -> BOOLEAN]
    /\ completedAt \in [Messages -> BOOLEAN]
    /\ breached \in [Messages -> BOOLEAN]
    /\ provider \in [Messages -> Providers \cup {NoProvider}]
    /\ providerRef \in [Messages -> Providers \cup {NoProvider}]
    /\ queued \subseteq Messages
    /\ owner \in [Messages -> Workers \cup {NoWorker}]
    /\ version \in [Messages -> Nat]
    /\ due \in [Messages -> BOOLEAN]
    /\ ttl \in [Messages -> BOOLEAN]
    /\ late \in [Messages -> BOOLEAN]
    /\ jobs \subseteq Job
    /\ outcomes \subseteq Outcome
    /\ taken \subseteq Messages \X Providers

\* A message has a refund exactly when it is failed or expired, whatever the
\* completers, the sweeper and delivery reports do to it at the same time
\* (invariant.go, refund_iff_failed_or_expired).
RefundIffFailedOrExpired ==
    \A m \in Messages : m \in refunds <=> status[m] \in Refundable

\* Every message has its debit and every accepted one its queue row; a row
\* outlives the accepted status only when a delivery report ended it
\* (invariant.go, one_debit_per_message, accepted_messages_are_queued).
QueueMatchesMessages ==
    /\ debits = {m \in Messages : status[m] # "none"}
    /\ \A m \in Messages : status[m] = "accepted" => m \in queued
    /\ \A m \in queued : status[m] \in {"accepted", "delivered", "undelivered"}

\* sent_at and completed_at agree with the status; a message recorded as sent
\* has left the queue and can only be delivered or undelivered, so it is never
\* refunded (invariant.go, timestamps_consistent).
TimestampsConsistent ==
    \A m \in Messages :
        /\ status[m] = "sent" => sentAt[m]
        /\ status[m] \in Terminal <=> completedAt[m]
        /\ sentAt[m] => status[m] \in {"sent", "delivered", "undelivered"} /\ m \notin queued

\* A claim still holds its lease: the row has its owner and generation.
Holds(r) == r.msg \in queued /\ owner[r.msg] = r.worker /\ version[r.msg] = r.version

\* At most one claim holds a message's lease, and as long as it does the
\* attempt count it was given is the one in the database: no other actor
\* counts an attempt under it (claim.go, completer.go lockOwned).
OneHolderWithCurrentSnapshot ==
    /\ \A r \in jobs \cup outcomes : Holds(r) => r.snap = attempts[r.msg]
    /\ \A r, s \in jobs : Holds(r) /\ Holds(s) /\ r.msg = s.msg => r = s
    /\ \A r, s \in outcomes : Holds(r) /\ Holds(s) /\ r.msg = s.msg => r = s
    /\ \A r \in jobs, s \in outcomes : ~(Holds(r) /\ Holds(s) /\ r.msg = s.msg)

\* attempts never exceeds the policy's maximum, and a lease counts at most one
\* attempt however often its outcome is committed (completer.go commitSent:
\* "a retried commit never counts twice").
AttemptsBounded ==
    \A m \in Messages :
        /\ attempts[m] <= MaxAttempts
        /\ m \in queued => attempts[m] <= version[m] /\ attempts[m] < MaxAttempts

\* An Express message that failed, expired or was recorded as sent after the
\* SLA is marked as a breach, and a normal message never is
\* (docs/030-domain/040-express-messages.md, SLA tracking).
BreachRecorded ==
    \A m \in Messages :
        /\ m \in Express /\ (status[m] \in Refundable \/ (sentAt[m] /\ late[m])) => breached[m]
        /\ breached[m] => m \in Express

\* A status only moves along the lifecycle: terminal statuses are final, sent
\* ends only by a delivery report, and a row disappears only with its customer.
StatusMoves ==
    [][\A m \in Messages : status'[m] # status[m] =>
          \/ status[m] = "none" /\ status'[m] = "accepted"
          \/ status[m] = "accepted" /\ status'[m] \in {"sent"} \cup Terminal
          \/ status[m] = "sent" /\ status'[m] \in {"delivered", "undelivered"}
          \/ status'[m] = "none" /\ Owner[m] \notin customers']_vars

\* Nobody takes a message away from a live lease: while a lease runs, its row
\* keeps its owner until the owner's own outcome is committed or the customer
\* is deleted (sweeper tasks.go, claim.go).
LiveLeaseIsRespected ==
    [][\A m \in queued : InFlight(m) =>
          \/ m \in queued' /\ owner'[m] = owner[m] /\ version'[m] = version[m]
          \/ \E o \in outcomes : Holds(o) /\ o.msg = m
          \/ Owner[m] \notin customers']_vars


\* A message that left the accepted status leaves the queue (invariant.go,
\* finished_messages_leave_the_queue).
FinishedLeaveTheQueue ==
    \A m \in Messages : (m \in queued /\ status[m] # "accepted") ~> m \notin queued

-----------------------------------------------------------------------------
(***************************************************************************)
(* What the safety properties rest on: the fence.  A claim's generation is *)
(* never ahead of its row's; a claim that holds the lease has the current  *)
(* attempt count, is alone, and its attempt is not counted yet.  A message *)
(* that somebody still works on is never accepted anew.                    *)
(***************************************************************************)
ClaimInv(r) ==
    /\ status[r.msg] = "none" => Owner[r.msg] \in deleted
    /\ r.msg \in queued => r.version <= version[r.msg]
    /\ r.snap < MaxAttempts
    /\ Holds(r) => r.snap = attempts[r.msg] /\ attempts[r.msg] < version[r.msg]

LeaseInv ==
    /\ deleted \cap customers = {}
    /\ \A j \in jobs : ClaimInv(j) /\ (j.stage # "claimed" => j.provider \in Providers)
    /\ \A o \in outcomes : ClaimInv(o) /\ (o.kind = "retry" => o.snap + 1 < MaxAttempts)
    /\ \A m \in Messages : status[m] = "none" => attempts[m] = 0

\* The inductive invariant: fencing makes every commit exact, whatever was
\* lost, repeated, delayed or reclaimed before it (completer.go lockOwned).
GatewayInv ==
    /\ TypeOK
    /\ QueueMatchesMessages
    /\ RefundIffFailedOrExpired
    /\ TimestampsConsistent
    /\ AttemptsBounded
    /\ BreachRecorded
    /\ OneHolderWithCurrentSnapshot
    /\ LeaseInv

-----------------------------------------------------------------------------
(* Statements of the documentation that the code does not keep.            *)

\* A message recorded as sent names a provider that accepted it
\* (docs/030-domain/010-message-lifecycle.md:57: the completer's later sent
\* update records provider, provider_ref and sent_at also after an early
\* delivery report).
SentNamesItsProvider ==
    \A m \in Messages : sentAt[m] => <<m, provider[m]>> \in taken

\* A delivered message is not given to a provider again
\* (docs/060-processing/010-queue-and-workers.md:53).
DeliveredIsNotSentAgain ==
    [][\A j \in jobs : DispatchSend(j) => status[j.msg] # "delivered"]_vars
=============================================================================
