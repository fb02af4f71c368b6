--------------------------- MODULE AutomationRuns ---------------------------
(***************************************************************************)
(* The runs of one automation of workflow-service (automation.service.ts): *)
(* onRecordEvent, run, step, finish and retryRun.                          *)
(*                                                                         *)
(* The bus delivers each record event at least once and stops at           *)
(* MaxDeliver; a message may be delivered again while its handler works.   *)
(* Every await is a step. Any call may fail, and may fail after the other  *)
(* side did its work.                                                      *)
(***************************************************************************)
EXTENDS Naturals

CONSTANTS
    Events,        \* record events that trigger the automation
    NoEvent,       \* the event of an idle handler
    Handlers,      \* subscriber deliveries and admin requests in progress
    NumSteps,      \* actions of the automation
    CreateSteps,   \* those that create a record, with a source key
    MaxDeliver,    \* max_deliver of the subscription (20 in the code)
    MaxAttempts,   \* bound: attempts of one run
    MaxFaults      \* bound: failed calls, crashes and timeouts

ASSUME RunsAssumption ==
    /\ {NumSteps, MaxDeliver, MaxFaults} \subseteq Nat /\ MaxAttempts \in Nat \ {0}
    /\ CreateSteps \subseteq 1..NumSteps
    /\ NoEvent \notin Events

Steps == 1..NumSteps
Idle == [pc |-> "idle", event |-> NoEvent, step |-> 0]

VARIABLES
    message,    \* the record event's message: deliveries so far and whether it may come (again)
    run,        \* the AutomationRun of each event: status and attempts
    handler,    \* what each handler does
    effects,    \* how often each step of each run took effect
    executions, \* how often each run got past its condition
    faults

vars == <<message, run, handler, effects, executions, faults>>

NoRun == [status |-> "none", attempts |-> 0]

Init ==
    /\ message = [e \in Events |-> [st |-> "ready", tries |-> 0]]
    /\ run = [e \in Events |-> NoRun]
    /\ handler = [h \in Handlers |-> Idle]
    /\ effects = [e \in Events |-> [i \in Steps |-> 0]]
    /\ executions = [e \in Events |-> 0]
    /\ faults = 0

Fault == faults < MaxFaults /\ faults' = faults + 1
EventOf(h) == handler[h].event
Goto(h, pc) == handler' = [handler EXCEPT ![h].pc = pc]
GotoStep(h, pc, i) == handler' = [handler EXCEPT ![h].pc = pc, ![h].step = i]
Return(h) == handler' = [handler EXCEPT ![h] = Idle]
SetStatus(e, status) == run' = [run EXCEPT ![e].status = status]

\* The handler of a message returned or threw: ack, or nak and deliver again.
\* A retry by an admin has no message.
Answer(h, pc, st) ==
    /\ Return(h)
    /\ message' = IF handler[h].pc \in pc /\ message[EventOf(h)].st = "sent"
                  THEN [message EXCEPT ![EventOf(h)].st = st] ELSE message

-----------------------------------------------------------------------------
(* The subscription *)

\* Mutant: one delivery more than max_deliver.
DeliverOnceMore(h, e) ==
    /\ handler[h] = Idle
    /\ message[e].st = "ready"
    /\ message[e].tries <= MaxDeliver
    /\ message' = [message EXCEPT ![e] = [st |-> "sent", tries |-> @.tries + 1]]
    /\ handler' = [handler EXCEPT ![h] = [pc |-> "start", event |-> e, step |-> 0]]
    /\ UNCHANGED <<run, effects, executions, faults>>

Deliver(h, e) ==
    /\ handler[h] = Idle
    /\ message[e].st = "ready"
    /\ message[e].tries < MaxDeliver
    /\ message' = [message EXCEPT ![e] = [st |-> "sent", tries |-> @.tries + 1]]
    /\ handler' = [handler EXCEPT ![h] = [pc |-> "start", event |-> e, step |-> 0]]
    /\ UNCHANGED <<run, effects, executions, faults>>

\* ack_wait ends while the handler still works.
AckWaitEnds(e) ==
    /\ message[e].st = "sent"
    /\ Fault
    /\ message' = [message EXCEPT ![e].st = "ready"]
    /\ UNCHANGED <<run, handler, effects, executions>>

\* onRecordEvent up to Runs.create: no such automation in the configuration, or
\* the record cannot be read (any error counts as "not found").
NothingToRun(h) ==
    /\ handler[h].pc = "start"
    /\ Answer(h, {"start"}, "acked")
    /\ UNCHANGED <<run, effects, executions, faults>>

\* Mutant: the run is upserted, so a redelivered event runs again.
CreateRunUpsert(h) ==
    /\ handler[h].pc = "start"
    /\ run' = [run EXCEPT ![EventOf(h)] = [status |-> "running", attempts |-> 1]]
    /\ Goto(h, "prepare")
    /\ UNCHANGED <<message, effects, executions, faults>>

\* run(): the unique run key makes the first delivery the only one that runs.
CreateRun(h) ==
    /\ handler[h].pc = "start"
    /\ IF run[EventOf(h)].status = "none"
       THEN /\ run' = [run EXCEPT ![EventOf(h)] = [status |-> "running", attempts |-> 1]]
            /\ Goto(h, "prepare")
            /\ UNCHANGED message
       ELSE Answer(h, {"start"}, "acked") /\ UNCHANGED run
    /\ UNCHANGED <<effects, executions, faults>>

-----------------------------------------------------------------------------
(* run() after the run record is there *)

\* conditionEnv, the condition, the depth limit and the configuration.
Prepare(h) ==
    /\ handler[h].pc \in {"prepare", "rePrepare"}
    /\ \/ /\ GotoStep(h, IF handler[h].pc = "prepare" THEN "step" ELSE "reStep", 1)
          /\ executions' = [executions EXCEPT ![EventOf(h)] = @ + 1]
          /\ UNCHANGED <<run, message>>
       \/ /\ SetStatus(EventOf(h), "skipped")
          /\ Answer(h, {"prepare"}, "acked")
          /\ UNCHANGED executions
    /\ UNCHANGED <<effects, faults>>

\* Mutant: records are created without a source key.
EffectNoKey(h, i) == effects' = [effects EXCEPT ![EventOf(h)][i] = @ + 1]

\* What a step does at the other side. A record with this source key is found
\* and returned instead of created again.
Effect(h, i) ==
    effects' = [effects EXCEPT ![EventOf(h)][i] =
                   IF i \in CreateSteps /\ @ > 0 THEN @ ELSE @ + 1]

Finish(h, status) ==
    /\ SetStatus(EventOf(h), status)
    /\ IF status = "failed"
       THEN Goto(h, IF handler[h].pc = "step" THEN "announce" ELSE "reAnnounce")
            /\ UNCHANGED message
       ELSE Answer(h, {"step"}, "acked")

\* Mutant: the run ends with the step before the last.
StepWorksShort(h) ==
    /\ handler[h].pc \in {"step", "reStep"}
    /\ handler[h].step < NumSteps
    /\ Effect(h, handler[h].step)
    /\ IF handler[h].step + 1 < NumSteps
       THEN GotoStep(h, handler[h].pc, handler[h].step + 1) /\ UNCHANGED <<run, message>>
       ELSE Finish(h, "ok")
    /\ UNCHANGED <<executions, faults>>

StepWorks(h) ==
    /\ handler[h].pc \in {"step", "reStep"}
    /\ handler[h].step <= NumSteps
    /\ Effect(h, handler[h].step)
    /\ GotoStep(h, handler[h].pc, handler[h].step + 1)
    /\ UNCHANGED <<message, run, executions, faults>>

\* The step fails, with or without its effect; the run stops there.
StepFails(h) ==
    /\ handler[h].pc \in {"step", "reStep"}
    /\ handler[h].step <= NumSteps
    /\ Fault
    /\ Effect(h, handler[h].step) \/ UNCHANGED effects
    /\ Finish(h, "failed")
    /\ UNCHANGED <<executions>>

AllStepsDone(h) ==
    /\ handler[h].pc \in {"step", "reStep"}
    /\ handler[h].step > NumSteps
    /\ Finish(h, "ok")
    /\ UNCHANGED <<effects, executions, faults>>

\* finish() records the AutomationFailed event in a transaction of its own.
Announce(h) ==
    /\ handler[h].pc \in {"announce", "reAnnounce"}
    /\ Answer(h, {"announce"}, "acked")
    /\ UNCHANGED <<run, effects, executions, faults>>

-----------------------------------------------------------------------------
(* retryRun: an admin runs a failed automation again *)

\* Mutant: any run that is not done is run again.
RetryRunAny(h, e) ==
    /\ handler[h] = Idle
    /\ run[e].status \in {"failed", "running"}
    /\ run[e].attempts < MaxAttempts
    /\ run' = [run EXCEPT ![e] = [status |-> "running", attempts |-> @.attempts + 1]]
    /\ handler' = [handler EXCEPT ![h] = [pc |-> "reRead", event |-> e, step |-> 0]]
    /\ UNCHANGED <<message, effects, executions, faults>>

RetryRun(h, e) ==
    /\ handler[h] = Idle
    /\ run[e].status = "failed"
    /\ run[e].attempts < MaxAttempts
    /\ run' = [run EXCEPT ![e] = [status |-> "running", attempts |-> @.attempts + 1]]
    /\ handler' = [handler EXCEPT ![h] = [pc |-> "reRead", event |-> e, step |-> 0]]
    /\ UNCHANGED <<message, effects, executions, faults>>

\* The record and the configuration are read; the automation may be gone.
RetryReads(h) ==
    /\ handler[h].pc = "reRead"
    /\ \/ Goto(h, "rePrepare") /\ UNCHANGED run
       \/ SetStatus(EventOf(h), "failed") /\ Return(h)
    /\ UNCHANGED <<message, effects, executions, faults>>

-----------------------------------------------------------------------------
(* Failures *)

\* A call outside a step throws, or the process stops: the message comes back,
\* and the run keeps the status it has.
Throws(h) ==
    /\ handler[h] # Idle
    /\ Fault
    /\ Answer(h, {"start", "prepare", "step", "announce"}, "ready")
    /\ UNCHANGED <<run, effects, executions>>

Works(h) == CreateRun(h) \/ Prepare(h) \/ StepWorks(h) \/ AllStepsDone(h) \/ Announce(h)
            \/ RetryReads(h)

Next ==
    \/ \E e \in Events : AckWaitEnds(e)
    \/ \E h \in Handlers :
          \/ NothingToRun(h) \/ Works(h) \/ StepFails(h) \/ Throws(h)
          \/ \E e \in Events : Deliver(h, e) \/ RetryRun(h, e)

Spec == Init /\ [][Next]_vars

\* The process runs and the bus delivers; an admin retries only if they like.
FairSpec ==
    /\ Spec
    /\ \A h \in Handlers : WF_vars(Works(h))
    /\ WF_vars(\E h \in Handlers, e \in Events : Deliver(h, e))

-----------------------------------------------------------------------------
(* Properties *)

Busy == {"prepare", "rePrepare", "step", "reStep"}

\* Messages, runs, handlers and counters keep their types.
TypeOK ==
    /\ message \in [Events -> [st : {"ready", "sent", "acked"}, tries : 0..MaxDeliver]]
    /\ run \in [Events -> [status : {"none", "running", "ok", "failed", "skipped"},
                           attempts : 0..MaxAttempts]]
    /\ handler \in [Handlers -> [pc : {"idle", "start", "announce", "reAnnounce", "reRead"}
                                      \union Busy,
                                 event : Events \union {NoEvent},
                                 step : 0..(NumSteps + 1)]]
    /\ effects \in [Events -> [Steps -> Nat]]
    /\ executions \in [Events -> Nat]
    /\ faults \in 0..MaxFaults

\* However often an event is delivered, its steps run once for the event and once
\* for each time an admin ran the failed run again (the unique run key and the
\* status guard of retryRun).
RunOncePerAttempt == \A e \in Events : executions[e] <= run[e].attempts

\* Two handlers never execute the steps of one run at the same time: redelivery
\* while the first handler works, and two admins retrying, included.
OneExecutor == \A h, k \in Handlers :
    handler[h].pc \in Busy /\ handler[k].pc \in Busy /\ EventOf(h) = EventOf(k) => h = k

\* A record an automation creates exists once per run, whatever is retried or
\* answered too late (docs/step-4-workflows-rules.md, "Automations").
CreatedOnce == \A e \in Events : \A i \in CreateSteps : effects[e][i] <= 1

\* A run logged as "ok" did each of its steps.
OkMeansDone == \A e \in Events : run[e].status = "ok" => \A i \in Steps : effects[e][i] > 0

\* However events are redelivered, handlers fail and admins retry: a run is gone through
\* once per attempt, by one handler, creates its records once, and is logged as "ok" only
\* when it did everything.
RunsAreSafe == RunOncePerAttempt /\ OneExecutor /\ CreatedOnce /\ OkMeansDone

\* A result is never taken back: "ok" and "skipped" stay, and a failed run only
\* runs again as a new attempt.
ResultsStay == [][\A e \in Events :
    /\ run[e].status \in {"ok", "skipped"} => run'[e] = run[e]
    /\ run[e].status = "failed" /\ run'[e] # run[e]
         => run'[e] = [status |-> "running", attempts |-> run[e].attempts + 1]]_vars

\* Every run ends with a result an admin can see ("Every run is logged with its
\* result, and an admin can see failures and re-run them").
EveryRunEnds == \A e \in Events : (run[e].status = "running") ~> (run[e].status # "running")
=============================================================================
