------------------------------ MODULE Batcher ------------------------------
(***************************************************************************)
(* Delivery report intake: the provider's deliver loop, which posts a      *)
(* report until it is acknowledged (internal/fakeprovider/dlr.go), the     *)
(* handlers waiting in Submit, and the goroutine Run that commits batches  *)
(* (internal/dlr/batcher.go).  A submission <<d, n>> is the n-th post of   *)
(* delivery d.                                                             *)
(***************************************************************************)
EXTENDS Integers, Sequences, FiniteSets

CONSTANTS
    Deliveries,         \* reports the providers have to deliver
    Msg, Reported,      \* Msg[d], Reported[d]: the message and the status
    RetryLimit,         \* posts per delivery
    MaxPosts,           \* bound: posts of all deliveries
    Size                \* DLR_BATCH_SIZE, also the channel's capacity

ASSUME BatcherAssumption ==
    /\ Reported \in [Deliveries -> {"delivered", "undelivered"}]
    /\ RetryLimit \in Nat /\ MaxPosts \in Nat /\ Size \in Nat \ {0}

VARIABLES
    db,                 \* status of each message in the database
    tries, acked,       \* posts made, and whether one was answered 200
    sub,                \* where each submission is in Submit
    result,             \* the submission's result channel
    in, batch,          \* the batcher's channel and Run's slice
    run, verdict,       \* where Run is, and what Apply returned
    ctxDone, stopped, done

subVars == <<tries, acked, sub>>
runVars == <<result, in, batch, run, verdict>>
stopVars == <<ctxDone, stopped, done>>
vars == <<db, subVars, runVars, stopVars>>

Messages == {Msg[d] : d \in Deliveries}
Submissions == Deliveries \X (1 .. RetryLimit)
Outcome == {"applied", "duplicate", "ignored_terminal", "unknown"}
Ended == Outcome \cup {"error", "stopped", "timeout"}

-----------------------------------------------------------------------------
(* Provider and Submit.                                                    *)

\* deliver: post, and post again when no 200 came back, for whatever reason.
Post(d) ==
    /\ ~acked[d] /\ tries[d] < RetryLimit
    /\ Cardinality({s \in Submissions : sub[s] # "none"}) < MaxPosts
    /\ tries' = [tries EXCEPT ![d] = @ + 1]
    /\ sub' = [sub EXCEPT ![<<d, tries[d] + 1>>] = "arrived"]
    /\ UNCHANGED <<db, acked, runVars, stopVars>>

\* The handler answers 200 for every outcome, and the answer arrives.
Acknowledge(s) ==
    /\ sub[s] \in Outcome /\ s[2] = tries[s[1]] /\ ~acked[s[1]]
    /\ acked' = [acked EXCEPT ![s[1]] = TRUE]
    /\ UNCHANGED <<db, tries, sub, runVars, stopVars>>

Move(s, to) ==
    /\ sub' = [sub EXCEPT ![s] = to]
    /\ UNCHANGED <<db, tries, acked, result, batch, run, verdict, stopVars>>

Arrive(s) ==
    sub[s] = "arrived" /\ Move(s, IF stopped THEN "stopped" ELSE "sending") /\ UNCHANGED in

HasRoom == Len(in) < Size

Send(s) == sub[s] = "sending" /\ HasRoom /\ in' = Append(in, s) /\ Move(s, "waiting")

SendStopped(s) == sub[s] = "sending" /\ stopped /\ Move(s, "stopped") /\ UNCHANGED in

Receive(s) ==
    sub[s] = "waiting" /\ result[s] # "none" /\ Move(s, result[s]) /\ UNCHANGED in

\* Submit does not watch done.
SeeDoneNever(s) == FALSE /\ Move(s, "stopped") /\ UNCHANGED in
\* Run has returned: take the result of the final batch, if there is one.
SeeDone(s) ==
    /\ sub[s] = "waiting" /\ done
    /\ Move(s, IF result[s] # "none" THEN result[s] ELSE "stopped") /\ UNCHANGED in

\* submitTimeout, or the provider went away.
Timeout(s) == sub[s] \in {"sending", "waiting"} /\ Move(s, "timeout") /\ UNCHANGED in

-----------------------------------------------------------------------------
(* Apply, as far as its answer is concerned.                               *)

Open == {"accepted", "sent"}

First(i) == \A k \in 1 .. (i - 1) : Msg[batch[k][1]] # Msg[batch[i][1]]

Applied == [m \in Messages |->
    IF db[m] \in Open /\ \E i \in DOMAIN batch : Msg[batch[i][1]] = m
    THEN Reported[batch[CHOOSE i \in DOMAIN batch : Msg[batch[i][1]] = m /\ First(i)][1]]
    ELSE db[m]]

ClassifyAnyAsApplied(i) ==
    LET d == batch[i][1] IN
    CASE db[Msg[d]] \in Open -> "applied"
      [] db[Msg[d]] = "none" -> "unknown"
      [] db[Msg[d]] = Reported[d] -> "duplicate"
      [] OTHER -> "ignored_terminal"

Classify(i) ==
    LET d == batch[i][1] IN
    CASE db[Msg[d]] \in Open /\ First(i) -> "applied"
      [] db[Msg[d]] \in Open -> "duplicate"
      [] db[Msg[d]] = "none" -> "unknown"
      [] db[Msg[d]] = Reported[d] -> "duplicate"
      [] OTHER -> "ignored_terminal"

\* What the batch is told: outcomes, or the error of a failed transaction.
VerdictsDespiteError(ok) == [i \in DOMAIN batch |-> Classify(i)]
Verdicts(ok) == [i \in DOMAIN batch |-> IF ok THEN Classify(i) ELSE "error"]

\* The transaction commits, fails, or commits without Run learning of it.
Apply ==
    /\ run \in {"commit", "final"} /\ verdict = <<>>
    /\ \E committed, ok \in BOOLEAN :
          /\ ok => committed
          /\ db' = IF committed THEN Applied ELSE db
          /\ verdict' = Verdicts(ok)
    /\ UNCHANGED <<subVars, result, in, batch, run, stopVars>>

Reset == <<>>

\* commit hands out the results; the channels have room for one each.
Answer ==
    /\ run \in {"commit", "final"} /\ verdict # <<>>
    /\ result' = [s \in Submissions |->
          IF \E i \in DOMAIN batch : batch[i] = s
          THEN verdict[CHOOSE i \in DOMAIN batch : batch[i] = s] ELSE result[s]]
    /\ batch' = Reset /\ verdict' = <<>>
    /\ run' = IF run = "final" THEN "returned" ELSE "loop"
    /\ done' = (run = "final")
    /\ UNCHANGED <<db, subVars, in, ctxDone, stopped>>

-----------------------------------------------------------------------------
(* Run.                                                                    *)

Full(n) == n >= Size

Collect ==
    /\ run = "loop" /\ in # <<>>
    /\ batch' = Append(batch, Head(in)) /\ in' = Tail(in)
    /\ run' = IF Full(Len(batch) + 1) THEN "commit" ELSE "loop"
    /\ UNCHANGED <<db, subVars, result, verdict, stopVars>>

\* The timer runs from the first report of a batch to its flush.
Timer ==
    /\ run = "loop" /\ batch # <<>> /\ run' = "commit"
    /\ UNCHANGED <<db, subVars, result, in, batch, verdict, stopVars>>

SeeShutdown ==
    /\ run = "loop" /\ ctxDone
    /\ stopped' = TRUE /\ run' = "drain"
    /\ UNCHANGED <<db, subVars, result, in, batch, verdict, ctxDone, done>>

Drain ==
    /\ run = "drain" /\ in # <<>>
    /\ batch' = Append(batch, Head(in)) /\ in' = Tail(in)
    /\ UNCHANGED <<db, subVars, result, run, verdict, stopVars>>

\* Waits for another report although the channel is empty.
DrainedUnlessEmpty == in = <<>> /\ batch # <<>>
Drained == in = <<>>

DrainEnd ==
    /\ run = "drain" /\ Drained
    /\ run' = IF batch = <<>> THEN "returned" ELSE "final"
    /\ done' = (batch = <<>>)
    /\ UNCHANGED <<db, subVars, result, in, batch, verdict, ctxDone, stopped>>

Shutdown == ~ctxDone /\ ctxDone' = TRUE /\ UNCHANGED <<db, subVars, runVars, stopped, done>>

-----------------------------------------------------------------------------
Init ==
    /\ db \in [Messages -> {"sent", "failed", "none"}]    \* "accepted" fares as "sent"
    /\ tries = [d \in Deliveries |-> 0] /\ acked = [d \in Deliveries |-> FALSE]
    /\ sub = [s \in Submissions |-> "none"] /\ result = [s \in Submissions |-> "none"]
    /\ in = <<>> /\ batch = <<>> /\ run = "loop" /\ verdict = <<>>
    /\ ctxDone = FALSE /\ stopped = FALSE /\ done = FALSE

SubmitStep(s) == Arrive(s) \/ Send(s) \/ SendStopped(s) \/ Receive(s) \/ SeeDone(s)
RunStep == Collect \/ Timer \/ SeeShutdown \/ Drain \/ DrainEnd \/ Apply \/ Answer

Next ==
    \/ \E d \in Deliveries : Post(d)
    \/ \E s \in Submissions : Acknowledge(s) \/ SubmitStep(s) \/ Timeout(s)
    \/ RunStep \/ Shutdown

Spec == Init /\ [][Next]_vars

\* Goroutines run and the commit has a timeout.  The 5 s limit of a callback
\* is not needed for progress, so nothing is assumed of it.
Fairness ==
    /\ \A s \in Submissions : WF_vars(SubmitStep(s))
    /\ WF_vars(RunStep)

FairSpec == Spec /\ Fairness

-----------------------------------------------------------------------------
(* Properties.                                                             *)

TypeOK ==
    /\ db \in [Messages -> {"none", "failed", "delivered", "undelivered"} \cup Open]
    /\ tries \in [Deliveries -> 0 .. RetryLimit] /\ acked \in [Deliveries -> BOOLEAN]
    /\ sub \in [Submissions -> {"none", "arrived", "sending", "waiting"} \cup Ended]
    /\ result \in [Submissions -> {"none", "error"} \cup Outcome]
    /\ in \in Seq(Submissions) /\ Len(in) <= Size
    /\ batch \in Seq(Submissions)
    /\ run = "loop" => Len(batch) < Size
    /\ run = "commit" => Len(batch) <= Size
    /\ verdict # <<>> => verdict \in [DOMAIN batch -> {"error"} \cup Outcome]
    /\ run \in {"loop", "commit", "drain", "final", "returned"}
    /\ ctxDone \in BOOLEAN /\ stopped \in BOOLEAN /\ done \in BOOLEAN

\* A provider that got its 200 has nothing left to deliver: the message no
\* longer waits for a report, whatever was lost, repeated or timed out
\* (batcher.go Submit, handler.go ServeHTTP "once the report is durable").
AckIsDurable == \A d \in Deliveries : acked[d] => db[Msg[d]] \notin Open

\* Of all posts about a message at most one is answered as applied
\* (apply.go Apply, "the first one wins").
AppliedOnce ==
    \A s, t \in Submissions :
        sub[s] = "applied" /\ sub[t] = "applied" /\ Msg[s[1]] = Msg[t[1]] => s = t

\* Run never blocks on a result channel: each submission is in one batch
\* once, so its channel is empty when its result is sent (batcher.go commit).
ResultsNeverBlock ==
    verdict # <<>> =>
        /\ \A i \in DOMAIN batch : result[batch[i]] = "none"
        /\ \A i, j \in DOMAIN batch : batch[i] = batch[j] => i = j

\* Every callback returns, also one whose report entered the channel after
\* the final batch, and without help from its timeout (batcher.go Submit).
EverySubmitReturns == \A s \in Submissions : sub[s] \in {"arrived", "sending", "waiting"} ~> sub[s] \in Ended

\* Shutdown ends Run although callbacks may still be sending (batcher.go Run).
RunReturns == ctxDone ~> done

\* Duplicate means the message already had the reported status
\* (apply.go:37).
DuplicateHasThatStatus ==
    \A s \in Submissions : sub[s] = "duplicate" => db[Msg[s[1]]] = Reported[s[1]]
=============================================================================
