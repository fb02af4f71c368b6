----------------------------- MODULE Schedules -----------------------------
(***************************************************************************)
(* One scheduled automation of one company: its job in the shared jobs     *)
(* collection (jobs.ts), the scheduler of each replica that leases and     *)
(* executes it (scheduler.ts), runSchedule over the records of the entity  *)
(* and syncSchedules, which every publish event starts on some replica,    *)
(* whatever others still run (automation.service.ts).                      *)
(*                                                                         *)
(* Time is a small natural number; a run of the automation for one record  *)
(* is one step, once per run key (AutomationRuns).                         *)
(***************************************************************************)
EXTENDS Naturals

CONSTANTS
    Replicas,       \* scheduler replicas
    Syncers,        \* runs of syncSchedules that may overlap
    NumRecords,     \* records of the entity
    Period,         \* distance of two scheduled times
    Backoff,        \* wait of retryLater
    StartsOn,       \* the automation is scheduled at first
    MaxTime,        \* bound: the clock
    MaxPublishes,   \* bound: configurations published
    MaxFailures,    \* bound: executions that throw
    MaxStops        \* bound: leases that end early, crashes, events delivered again

ASSUME ScheduleAssumption ==
    /\ {NumRecords, Backoff, MaxTime, MaxPublishes, MaxFailures, MaxStops} \subseteq Nat
    /\ Period \in Nat \ {0} /\ StartsOn \in BOOLEAN

Records == 1..NumRecords
Times == 0..(MaxTime + Period + Backoff)
NoJob == [id |-> 0, due |-> 0, slot |-> 0, leased |-> FALSE]
IdleWorker == [pc |-> "idle", job |-> NoJob, at |-> 0]
IdleSync == [pc |-> "idle", on |-> FALSE, found |-> FALSE, due |-> 0]

VARIABLES
    now,
    on,        \* the published configuration schedules the automation
    unsynced,  \* publish events whose syncSchedules has not started
    sync,      \* each syncSchedules: what it read, and the time it would book
    job,       \* the job; slot is the scheduled time it stands for
    lastId,    \* ids given to jobs
    claimer,   \* what each replica has claimed and does
    keyed,     \* run keys: <<due time the run was keyed with, record>>
    worked,    \* how often each record was run for each scheduled time
    counts,    \* publishes, failures and faults so far
    removedLate \* history: the job was removed although the automation is scheduled, by
               \* one that had read otherwise, and was not put since

scheduleVars ==
    <<now, on, unsynced, sync, job, lastId, claimer, keyed, worked, counts, removedLate>>

\* The next scheduled time strictly after t.
NextRun(t) == (t \div Period) * Period + Period

SchedulesInit ==
    /\ now = 0
    /\ on = StartsOn
    /\ unsynced = 0
    /\ sync = [s \in Syncers |-> IdleSync]
    /\ job = IF StartsOn THEN [id |-> 1, due |-> NextRun(0), slot |-> NextRun(0), leased |-> FALSE]
             ELSE NoJob
    /\ lastId = IF StartsOn THEN 1 ELSE 0
    /\ claimer = [w \in Replicas |-> IdleWorker]
    /\ keyed = {}
    /\ worked = [s \in Times |-> [r \in Records |-> 0]]
    /\ counts = [publishes |-> 0, failures |-> 0, faults |-> 0]
    /\ removedLate = FALSE

Counted(field, max) ==
    counts[field] < max /\ counts' = [counts EXCEPT ![field] = @ + 1]

Tick ==
    /\ now < MaxTime
    /\ now' = now + 1
    /\ UNCHANGED <<on, unsynced, sync, job, lastId, claimer, keyed, worked, counts, removedLate>>

-----------------------------------------------------------------------------
(* JobStore *)

\* put: an upsert; a job that exists keeps its id and loses its lease.
PutJob(due) ==
    /\ job' = [id |-> IF job = NoJob THEN lastId + 1 ELSE job.id,
               due |-> due, slot |-> due, leased |-> FALSE]
    /\ lastId' = IF job = NoJob THEN lastId + 1 ELSE lastId
    /\ removedLate' = FALSE

\* remove, removeMany: by key, whatever job is there now.
DropJob ==
    /\ job' = NoJob
    /\ removedLate' = (removedLate \/ (on /\ job # NoJob))
    /\ UNCHANGED lastId

\* retryLater: by id, so a job created anew is left alone.
RetryLater(j) ==
    /\ job' = IF job.id = j.id THEN [job EXCEPT !.due = now + Backoff, !.leased = FALSE] ELSE job
    /\ UNCHANGED lastId

-----------------------------------------------------------------------------
(* Scheduler *)

\* claim: a due job without a lease.
Claim(w) ==
    /\ claimer[w] = IdleWorker
    /\ job # NoJob /\ job.due <= now /\ ~job.leased
    /\ job' = [job EXCEPT !.leased = TRUE]
    /\ claimer' = [claimer EXCEPT ![w] = [pc |-> "read", job |-> job', at |-> 1]]
    /\ UNCHANGED <<now, on, unsynced, sync, lastId, keyed, worked, counts, removedLate>>

\* LEASE_MS passed: the worker is slow, or it stopped.
JobLeaseEnds ==
    /\ job.leased
    /\ Counted("faults", MaxStops)
    /\ job' = [job EXCEPT !.leased = FALSE]
    /\ UNCHANGED <<now, on, unsynced, sync, lastId, claimer, keyed, worked, removedLate>>

\* runSchedule: no such automation any more, or its records one by one.
ReadConfig(w) ==
    /\ claimer[w].pc = "read"
    /\ claimer' = [claimer EXCEPT ![w].pc = IF on THEN "run" ELSE "remove"]
    /\ UNCHANGED <<now, on, unsynced, sync, job, lastId, keyed, worked, counts, removedLate>>

\* Mutant: the run key holds the time of the run instead of the slot.
RunKeyNow(w) == <<now, claimer[w].at>>

RunKey(w) == <<claimer[w].job.due, claimer[w].at>>

\* Mutant: the loop does not stop at the last page.
RunRecordOn(w) ==
    /\ claimer[w].pc = "run"
    /\ keyed' = keyed \union {RunKey(w)}
    /\ worked' = IF RunKey(w) \in keyed THEN worked
               ELSE [worked EXCEPT ![claimer[w].job.slot][claimer[w].at] = @ + 1]
    /\ claimer' = [claimer EXCEPT ![w].at = @ + 1]
    /\ UNCHANGED <<now, on, unsynced, sync, job, lastId, counts, removedLate>>

RunRecord(w) ==
    /\ claimer[w].pc = "run"
    /\ claimer[w].at <= NumRecords
    /\ keyed' = keyed \union {RunKey(w)}
    /\ worked' = IF RunKey(w) \in keyed THEN worked
               ELSE [worked EXCEPT ![claimer[w].job.slot][claimer[w].at] = @ + 1]
    /\ claimer' = [claimer EXCEPT ![w].at = @ + 1]
    /\ UNCHANGED <<now, on, unsynced, sync, job, lastId, counts, removedLate>>

\* All records were run: the next one is booked.
BookNext(w) ==
    /\ claimer[w].pc = "run"
    /\ claimer[w].at > NumRecords
    /\ PutJob(NextRun(now))
    /\ claimer' = [claimer EXCEPT ![w] = IdleWorker]
    /\ UNCHANGED <<now, on, unsynced, sync, keyed, worked, counts>>

RemoveJob(w) ==
    /\ claimer[w].pc = "remove"
    /\ DropJob
    /\ claimer' = [claimer EXCEPT ![w] = IdleWorker]
    /\ UNCHANGED <<now, on, unsynced, sync, keyed, worked, counts>>

\* A call of the execution throws, a page of records for example.
ExecutionThrows(w) ==
    /\ claimer[w] # IdleWorker
    /\ Counted("failures", MaxFailures)
    /\ RetryLater(claimer[w].job)
    /\ claimer' = [claimer EXCEPT ![w] = IdleWorker]
    /\ UNCHANGED <<now, on, unsynced, sync, keyed, worked, removedLate>>

Stops(w) ==
    /\ claimer[w] # IdleWorker
    /\ Counted("faults", MaxStops)
    /\ claimer' = [claimer EXCEPT ![w] = IdleWorker]
    /\ job' = IF job.id = claimer[w].job.id THEN [job EXCEPT !.leased = FALSE] ELSE job
    /\ UNCHANGED <<now, on, unsynced, sync, lastId, keyed, worked, removedLate>>

-----------------------------------------------------------------------------
(* Publishing and syncSchedules *)

Publish ==
    /\ Counted("publishes", MaxPublishes)
    /\ on' = ~on
    /\ unsynced' = unsynced + 1
    /\ UNCHANGED <<now, sync, job, lastId, claimer, keyed, worked, removedLate>>

\* A publish event comes: the configuration is read first.
SyncRead(s) ==
    /\ unsynced > 0 /\ sync[s] = IdleSync
    /\ unsynced' = unsynced - 1
    /\ sync' = [sync EXCEPT ![s] = [IdleSync EXCEPT !.pc = "list", !.on = on]]
    /\ UNCHANGED <<now, on, job, lastId, claimer, keyed, worked, counts, removedLate>>

\* Then the list of jobs and the clock.
SyncList(s) ==
    /\ sync[s].pc = "list"
    /\ sync' = [sync EXCEPT ![s] = [pc |-> "write", on |-> sync[s].on,
                                    found |-> job # NoJob, due |-> NextRun(now)]]
    /\ UNCHANGED <<now, on, unsynced, job, lastId, claimer, keyed, worked, counts, removedLate>>

\* Mutant: a missing job is not created.
SyncWriteNoPut(s) ==
    /\ sync[s].pc = "write"
    /\ IF ~sync[s].on /\ sync[s].found THEN DropJob ELSE UNCHANGED <<job, lastId, removedLate>>
    /\ sync' = [sync EXCEPT ![s] = IdleSync]
    /\ UNCHANGED <<now, on, unsynced, claimer, keyed, worked, counts>>

\* A missing job is put, one that is not wanted is removed, the rest is left alone.
SyncWrite(s) ==
    /\ sync[s].pc = "write"
    /\ \/ sync[s].on /\ ~sync[s].found /\ PutJob(sync[s].due)
       \/ ~sync[s].on /\ sync[s].found /\ DropJob
       \/ sync[s].on = sync[s].found /\ UNCHANGED <<job, lastId, removedLate>>
    /\ sync' = [sync EXCEPT ![s] = IdleSync]
    /\ UNCHANGED <<now, on, unsynced, claimer, keyed, worked, counts>>

\* The event is delivered again: a call of the handler threw or its process stopped, or
\* it is only slow.
SyncAgain(s) ==
    /\ sync[s] # IdleSync
    /\ Counted("faults", MaxStops)
    /\ unsynced' = unsynced + 1
    /\ sync' = [sync EXCEPT ![s] = IdleSync] \/ UNCHANGED sync
    /\ UNCHANGED <<now, on, job, lastId, claimer, keyed, worked, removedLate>>

-----------------------------------------------------------------------------
ScheduleWorks(w) == ReadConfig(w) \/ RunRecord(w) \/ BookNext(w) \/ RemoveJob(w)

SchedulesNext ==
    \/ Tick \/ JobLeaseEnds \/ Publish
    \/ \E s \in Syncers : SyncRead(s) \/ SyncList(s) \/ SyncWrite(s) \/ SyncAgain(s)
    \/ \E w \in Replicas : Claim(w) \/ ScheduleWorks(w) \/ ExecutionThrows(w) \/ Stops(w)

SchedulesSpec == SchedulesInit /\ [][SchedulesNext]_scheduleVars

-----------------------------------------------------------------------------
(* Properties *)

Job == [id : Nat, due : Times, slot : Times, leased : BOOLEAN]

\* The clock, the job, the workers and the counters keep their types.
SchedulesTypeOK ==
    /\ now \in 0..MaxTime
    /\ on \in BOOLEAN
    /\ unsynced \in 0..(MaxPublishes + MaxStops)
    /\ sync \in [Syncers -> [pc : {"idle", "list", "write"}, on : BOOLEAN, found : BOOLEAN,
                             due : Times]]
    /\ job \in Job
    /\ lastId \in Nat
    /\ claimer \in [Replicas -> [pc : {"idle", "read", "run", "remove"}, job : Job,
                                 at : 0..(NumRecords + 1)]]
    /\ keyed \subseteq Times \X Records
    /\ worked \in [Times -> [Records -> Nat]]
    /\ counts \in [publishes : 0..MaxPublishes, failures : 0..MaxFailures, faults : 0..MaxStops]
    /\ removedLate \in BOOLEAN

\* The automation runs at most once for a record and a scheduled time: the run key
\* holds the slot and "makes a retried delivery a no-op" (models.ts). Leases that
\* end early, two replicas on one job, crashes and publishes included; an
\* execution that threw is not (retryLater moves the due time the key is made of).
OncePerSlot == counts.failures = 0 => \A s \in Times : \A r \in Records : worked[s][r] <= 1

AllAtRest ==
    /\ unsynced = 0 /\ \A s \in Syncers : sync[s] = IdleSync
    /\ \A w \in Replicas : claimer[w] = IdleWorker

\* When nothing is under way, a scheduled automation has a job that comes due within a
\* period (or the wait of a retry): syncSchedules "keeps one job per scheduled
\* automation of the company in line with the published config", whatever overlaps
\* except one thing: a worker, or the sync of an older publish, that read it switched
\* off removes the job by its key although it is switched on again.
ScheduleKept == AllAtRest /\ on /\ ~removedLate =>
    job # NoJob /\ (job.due <= now + Period \/ job.due <= now + Backoff)

\* What a schedule promises.
SchedulesAreKept == OncePerSlot /\ ScheduleKept
=============================================================================
