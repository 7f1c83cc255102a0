------------------------------- MODULE Worker -------------------------------
(* The life of a worker: Worker.Run (internal/dispatch/worker.go), the      *)
(* goroutines of its pools, the completer's loop (completer.go) and the     *)
(* drain context that bounds them after shutdown (internal/lifecycle).      *)
(*                                                                          *)
(* A job is one claimed message.  Its goroutine dispatches it and submits   *)
(* the outcome to a channel that the completer reads into batches.  A batch *)
(* is committed when it is full, when the flush timer fires, or when the    *)
(* worker stops.  A Go select with several ready cases takes any of them.   *)
EXTENDS Integers, Sequences, FiniteSets, SequencesExt

CONSTANTS
    Jobs,        \* messages the pools may claim
    Pools,       \* the loops that claim: express and normal
    Listener,    \* the loop that listens for notifications and claims nothing
    BatchSize    \* CompleterBatchSize

ASSUME WorkerAssumption ==
    /\ BatchSize \in Nat \ {0}
    /\ Listener \notin Pools

ChanCap == 2 * BatchSize
MaxTries == 3                       \* flush: attempt <= 3
Loops == Pools \cup {Listener}

VARIABLES
    main,       \* where Run is: "serving", "loops", "drain", "stopping", "stopped"
    loops,      \* the loops that have not returned
    job,        \* job[j]: its goroutine
    ctxDone,    \* the worker was told to stop
    sendDone,   \* sendCtx is cancelled
    timedOut,   \* history: by the drain timer
    in,         \* the completer's channel
    quit,       \* closed by stop
    comp,       \* where the completer is: in a select, flushing, or done
    batch,      \* the batch it collects
    timer,      \* is the flush timer armed?
    tries,      \* tries of the flush in progress
    committed,  \* jobs whose outcome was committed
    dropped     \* jobs whose batch was given up

vars == <<main, loops, job, ctxDone, sendDone, timedOut, in, quit, comp, batch,
          timer, tries, committed, dropped>>
runVars == <<main, loops, ctxDone, sendDone, timedOut, quit>>
compVars == <<comp, batch, timer, tries, committed, dropped>>

TypeOK ==
    /\ main \in {"serving", "loops", "drain", "stopping", "stopped"}
    /\ loops \subseteq Loops
    /\ job \in [Jobs -> {"queued", "dispatch", "submit", "ended"}]
    /\ {ctxDone, sendDone, timedOut, quit, timer} \subseteq BOOLEAN
    /\ ToSet(in) \subseteq Jobs /\ Len(in) <= ChanCap
    /\ comp \in {"select", "quit", "done", "flush", "quitflush", "last"}
    /\ ToSet(batch) \subseteq Jobs /\ Len(batch) <= BatchSize
    /\ tries \in 0 .. (MaxTries - 1)
    /\ committed \subseteq Jobs /\ dropped \subseteq Jobs

Init ==
    /\ main = "serving"
    /\ loops = Loops
    /\ job = [j \in Jobs |-> "queued"]
    /\ ctxDone = FALSE /\ sendDone = FALSE /\ timedOut = FALSE
    /\ in = <<>>
    /\ quit = FALSE
    /\ comp = "select"
    /\ batch = <<>>
    /\ timer = FALSE
    /\ tries = 0
    /\ committed = {} /\ dropped = {}

------------------------------------------------------------------------------
(* The pools and their goroutines *)

\* A claim returns jobs; each gets a goroutine.  A claim that was under way at
\* the shutdown may still return some.
Claim(j) ==
    /\ job[j] = "queued"
    /\ loops \cap Pools # {}
    /\ job' = [job EXCEPT ![j] = "dispatch"]
    /\ UNCHANGED <<runVars, in, compVars>>

LoopReturns(l) ==
    /\ l \in loops
    /\ ctxDone
    /\ loops' = loops \ {l}
    /\ UNCHANGED <<main, job, ctxDone, sendDone, timedOut, in, quit, compVars>>

\* dispatch returns an outcome.
Dispatched(j) ==
    /\ job[j] = "dispatch"
    /\ job' = [job EXCEPT ![j] = "submit"]
    /\ UNCHANGED <<runVars, in, compVars>>

\* dispatch returns without one: its context was cancelled.  Mutant: a send is
\* not cut off.
DispatchCutNever(j) == FALSE /\ UNCHANGED vars
DispatchCut(j) ==
    /\ job[j] = "dispatch"
    /\ sendDone
    /\ job' = [job EXCEPT ![j] = "ended"]
    /\ UNCHANGED <<runVars, in, compVars>>

SubmitCut(j) ==
    /\ job[j] = "submit"
    /\ sendDone
    /\ job' = [job EXCEPT ![j] = "ended"]
    /\ UNCHANGED <<runVars, in, compVars>>

Submit(j) ==
    /\ job[j] = "submit"
    /\ Len(in) < ChanCap
    /\ in' = Append(in, j)
    /\ job' = [job EXCEPT ![j] = "ended"]
    /\ UNCHANGED <<runVars, compVars>>

------------------------------------------------------------------------------
(* The completer *)

\* Mutant: the timer is armed by the second outcome of a batch.
ArmsLate == Len(batch) = 1
\* run: "if len(batch) == 0 { timer.Reset }".
Arms == batch = <<>>

\* The batch grows by the head of the channel and is flushed when full.
Full(b) == Len(b) >= BatchSize

Receive ==
    /\ comp = "select"
    /\ in # <<>>
    /\ in' = Tail(in)
    /\ batch' = Append(batch, Head(in))
    /\ comp' = IF Full(batch') THEN "flush" ELSE "select"
    /\ timer' = ((timer \/ Arms) /\ ~Full(batch'))    \* flush stops the timer
    /\ UNCHANGED <<runVars, job, tries, committed, dropped>>

TimerFires ==
    /\ comp = "select"
    /\ timer
    /\ timer' = FALSE
    /\ comp' = IF batch = <<>> THEN "select" ELSE "flush"
    /\ UNCHANGED <<runVars, job, in, batch, tries, committed, dropped>>

SeesQuit ==
    /\ comp = "select"
    /\ quit
    /\ comp' = "quit"
    /\ UNCHANGED <<runVars, job, in, batch, timer, tries, committed, dropped>>

SeesCancel ==
    /\ comp = "select"
    /\ sendDone
    /\ comp' = "done"
    /\ timer' = FALSE
    /\ UNCHANGED <<runVars, job, in, batch, tries, committed, dropped>>

\* The inner loop after quit: take what is there, then flush and return.
\* Mutant: the inner loop returns without looking at the channel.
DrainSkipped ==
    /\ comp = "quit"
    /\ comp' = "last"
    /\ timer' = FALSE
    /\ UNCHANGED <<runVars, job, in, batch, tries, committed, dropped>>

Drain ==
    /\ comp = "quit"
    /\ \/ /\ in # <<>>
          /\ in' = Tail(in)
          /\ batch' = Append(batch, Head(in))
          /\ comp' = IF Full(batch') THEN "quitflush" ELSE "quit"
       \/ /\ in = <<>>
          /\ comp' = IF batch = <<>> THEN "done" ELSE "last"
          /\ UNCHANGED <<in, batch>>
    /\ timer' = (timer /\ comp' = "quit")
    /\ UNCHANGED <<runVars, job, tries, committed, dropped>>

\* After a flush: back to the loop it was called from, or return.
Flushing == {"flush", "quitflush", "last"}

Flushed ==
    /\ batch' = <<>>
    /\ tries' = 0
    /\ comp' = CASE comp = "flush" -> "select"
                 [] comp = "quitflush" -> "quit"
                 [] comp = "last" -> "done"

FlushSucceeds ==
    /\ comp \in Flushing
    /\ committed' = committed \cup ToSet(batch)
    /\ Flushed
    /\ UNCHANGED <<runVars, job, in, timer, dropped>>

\* A try fails; the pause before the next one ends early when the context is
\* cancelled, and the batch is dropped then or after the last try.
FlushFails ==
    /\ comp \in Flushing
    /\ \/ /\ tries < MaxTries - 1
          /\ ~sendDone
          /\ tries' = tries + 1
          /\ UNCHANGED <<comp, batch, dropped>>
       \/ /\ tries = MaxTries - 1 \/ sendDone
          /\ dropped' = dropped \cup ToSet(batch)
          /\ Flushed
    /\ UNCHANGED <<runVars, job, in, timer, committed>>

------------------------------------------------------------------------------
(* Run *)

Shutdown ==
    /\ ~ctxDone
    /\ ctxDone' = TRUE
    /\ UNCHANGED <<main, loops, job, sendDone, timedOut, in, quit, compVars>>

\* DrainContext: the timer runs from the cancellation of the parent.
DrainTimeout ==
    /\ ctxDone
    /\ ~sendDone
    /\ main # "stopped"
    /\ sendDone' = TRUE
    /\ timedOut' = TRUE
    /\ UNCHANGED <<main, loops, job, ctxDone, in, quit, compVars>>

SeesShutdown ==
    /\ main = "serving"
    /\ ctxDone
    /\ main' = "loops"
    /\ UNCHANGED <<loops, job, ctxDone, sendDone, timedOut, in, quit, compVars>>

\* pools.Wait, <-listenerDone.  Mutant: Run does not wait for them.
LoopsDoneUnchecked ==
    /\ main = "loops"
    /\ main' = "drain"
    /\ UNCHANGED <<loops, job, ctxDone, sendDone, timedOut, in, quit, compVars>>

LoopsDone ==
    /\ main = "loops"
    /\ loops = {}
    /\ main' = "drain"
    /\ UNCHANGED <<loops, job, ctxDone, sendDone, timedOut, in, quit, compVars>>

InFlight == {j \in Jobs : job[j] \in {"dispatch", "submit"}}

\* <-drained, on either path of the select, and completer.stop().
Drained ==
    /\ main = "drain"
    /\ InFlight = {}
    /\ quit' = TRUE
    /\ main' = "stopping"
    /\ UNCHANGED <<loops, job, ctxDone, sendDone, timedOut, in, compVars>>

\* <-completerDone; the deferred cancelSends.
Return ==
    /\ main = "stopping"
    /\ comp = "done"
    /\ main' = "stopped"
    /\ sendDone' = TRUE
    /\ UNCHANGED <<loops, job, ctxDone, timedOut, in, quit, compVars>>

Stopped == main = "stopped" /\ UNCHANGED vars

Next ==
    \/ \E j \in Jobs :
        Claim(j) \/ Dispatched(j) \/ DispatchCut(j) \/ Submit(j) \/ SubmitCut(j)
    \/ \E l \in Loops : LoopReturns(l)
    \/ Receive \/ TimerFires \/ SeesQuit \/ SeesCancel \/ Drain
    \/ FlushSucceeds \/ FlushFails
    \/ Shutdown \/ DrainTimeout \/ SeesShutdown \/ LoopsDone \/ Drained \/ Return
    \/ Stopped

Spec == Init /\ [][Next]_vars

\* Goroutines are scheduled and timers fire.  A dispatch is only known to
\* return once its context is cancelled; a flush ends, well or not.
FairSpec ==
    /\ Spec
    /\ \A j \in Jobs : WF_vars(DispatchCut(j))
                       /\ WF_vars(Submit(j) \/ SubmitCut(j))
    /\ \A l \in Loops : WF_vars(LoopReturns(l))
    /\ WF_vars(Receive \/ TimerFires \/ SeesQuit \/ SeesCancel \/ Drain)
    /\ WF_vars(FlushSucceeds \/ FlushFails)
    /\ WF_vars(DrainTimeout)
    /\ WF_vars(SeesShutdown \/ LoopsDone \/ Drained \/ Return)

------------------------------------------------------------------------------
(* Properties *)

\* A worker that stops in time loses nothing: unless the drain timeout struck,
\* every claimed job's outcome was committed, or its batch was given up by
\* flush after all its tries (Run's "commits their outcomes").
StopLosesNothing ==
    main = "stopped" /\ ~timedOut =>
        \A j \in Jobs : job[j] # "queued" => j \in committed \cup dropped

\* Nobody works behind a stopped worker: once the completer has been told to
\* stop, no loop claims, no goroutine runs and none can submit any more.
StopIsFinal == quit => loops = {} /\ InFlight = {}

\* A worker told to stop stops, however long sends hang and whatever the
\* database does: nobody waits for a channel that nobody reads.
RunReturns == ctxDone ~> main = "stopped"

\* Without a shutdown too, every submitted outcome is committed or dropped.
OutcomesSettle ==
    \A j \in Jobs : j \in ToSet(in) ~> j \in committed \cup dropped \/ sendDone

==============================================================================
