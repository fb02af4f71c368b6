----------------------------- MODULE StatusCopy -----------------------------
(* The copy of a workflow state that the record keeps in `status`.  The      *)
(* instance holds the state; every change leaves statusSync, the copy owed,  *)
(* and a status_sync job.  The request that made the change pushes the copy, *)
(* and scheduler workers push it again until a push succeeds.  The call to   *)
(* records-service can be lost before or after it was applied, or be applied *)
(* after its caller gave up.                                                 *)
EXTENDS Integers

CONSTANTS
  States,        \* workflow states
  InitialState,
  Moves,         \* pairs <<from, to>>: changes an action or a decision makes
  Pushers,       \* slots for calls of pushStatus in progress
  MaxActs,       \* bound: changes of the instance
  MaxFailures    \* bound: lost or late calls, failures and crashes

ASSUME CopyAssumption ==
  /\ InitialState \in States /\ Moves \subseteq States \X States
  /\ MaxActs \in Nat /\ MaxFailures \in Nat

VARIABLES
  state,     \* inst.state
  sync,      \* inst.statusSync
  job,       \* the change that last put the status_sync job, 0 without a job
  record,    \* record.status
  push,      \* Pushers |-> local variables of pushStatus
  late,      \* calls given up by their caller that may still be applied
  acts,      \* changes so far
  failures,  \* failures so far
  past,      \* history: the changes the instance made
  overtaken  \* history: a change came before the last copy had settled

copyVars == <<state, sync, job, record, push, late, acts, failures, past,
          overtaken>>

NoSync == [from |-> "none", to |-> "none"]
Sync   == [from : States, to : States]
Idle   == [pc |-> "idle", mine |-> NoSync, worker |-> FALSE, claimed |-> 0]
Pusher == [pc : {"idle", "read", "post", "check", "clear", "remove"},
           mine : Sync \cup {NoSync}, worker : BOOLEAN, claimed : 0..MaxActs]

CopyInit ==
  /\ state = InitialState
  /\ sync = NoSync
  /\ job = 0
  /\ record = InitialState
  /\ push = [p \in Pushers |-> Idle]
  /\ late = {}
  /\ acts = 0
  /\ failures = 0
  /\ past = {}
  /\ overtaken = FALSE

Settled == sync = NoSync /\ late = {} /\ \A p \in Pushers : push[p] = Idle
Goto(p, pc) == push' = [push EXCEPT ![p].pc = pc]
Fails == failures < MaxFailures /\ failures' = failures + 1

-----------------------------------------------------------------------------
\* Mutant: the retry job is not written with the change.
ActWithoutJob(p, to) ==
  /\ push[p] = Idle
  /\ acts < MaxActs
  /\ <<state, to>> \in Moves
  /\ acts' = acts + 1
  /\ state' = to
  /\ sync' = [from |-> state, to |-> to]
  /\ push' = [push EXCEPT ![p] = [Idle EXCEPT !.pc = "read"]]
  /\ past' = past \cup {<<state, to>>}
  /\ overtaken' = (overtaken \/ ~Settled)
  /\ UNCHANGED <<record, late, failures, job>>

\* Mutant: the states an action may start from are not checked.
ActFromAnywhere(p, to) ==
  /\ push[p] = Idle
  /\ acts < MaxActs
  /\ acts' = acts + 1
  /\ state' = to
  /\ sync' = [from |-> state, to |-> to]
  /\ job' = acts + 1
  /\ push' = [push EXCEPT ![p] = [Idle EXCEPT !.pc = "read"]]
  /\ past' = past \cup {<<state, to>>}
  /\ overtaken' = (overtaken \/ ~Settled)
  /\ UNCHANGED <<record, late, failures>>

\* A committed action, rejection or last approval; its request pushes next.
Act(p, to) ==
  /\ push[p] = Idle
  /\ acts < MaxActs
  /\ <<state, to>> \in Moves
  /\ acts' = acts + 1
  /\ state' = to
  /\ sync' = [from |-> state, to |-> to]
  /\ job' = acts + 1
  /\ push' = [push EXCEPT ![p] = [Idle EXCEPT !.pc = "read"]]
  /\ past' = past \cup {<<state, to>>}
  /\ overtaken' = (overtaken \/ ~Settled)
  /\ UNCHANGED <<record, late, failures>>

\* The scheduler claims the job; a worker whose lease ran out goes on as well.
WorkerStart(p) ==
  /\ push[p] = Idle
  /\ job # 0
  /\ push' = [push EXCEPT ![p] = [Idle EXCEPT !.pc = "read", !.worker = TRUE,
                                              !.claimed = job]]
  /\ UNCHANGED <<state, sync, job, record, late, acts, failures, past,
                 overtaken>>

\* pushStatus returned true: a worker finishes its job, if nothing moved it.
Done(p) ==
  /\ push' = [push EXCEPT ![p] = Idle]
  /\ job' = IF push[p].worker /\ job = push[p].claimed THEN 0 ELSE job

\* Mutant: a failed push finishes the job.
GiveUpDone(p) ==
  /\ push' = [push EXCEPT ![p] = Idle]
  /\ job' = IF push[p].worker /\ job = push[p].claimed THEN 0 ELSE job

\* pushStatus returned false or threw: a worker moves its job to a later time.
GiveUp(p) == push' = [push EXCEPT ![p] = Idle] /\ UNCHANGED job

ReadSync(p) ==
  /\ push[p].pc = "read"
  /\ IF sync = NoSync THEN Done(p)
     ELSE /\ push' = [push EXCEPT ![p].pc = "post", ![p].mine = sync]
          /\ UNCHANGED job
  /\ UNCHANGED <<state, sync, record, late, acts, failures, past,
                 overtaken>>

\* Mutant: setStatus does not compare the status with `from`.
SetStatusAlways(s) == record' = s.to

\* records-service setStatus: refused unless the record is still at `from`.
SetStatus(s) == record = s.from /\ record' = s.to

\* The call and its answer arrive.
PostOk(p) ==
  /\ push[p].pc = "post"
  /\ SetStatus(push[p].mine)
  /\ Goto(p, "clear")
  /\ UNCHANGED <<state, sync, job, late, acts, failures, past,
                 overtaken>>

\* 409: the record is not at `from`; the caller looks where it is.
PostRefused(p) ==
  /\ push[p].pc = "post"
  /\ record # push[p].mine.from
  /\ Goto(p, "check")
  /\ UNCHANGED <<state, sync, job, record, late, acts, failures, past,
                 overtaken>>

\* The call is lost, or its answer is, or it comes after the caller gave up.
PostFails(p) ==
  /\ push[p].pc = "post"
  /\ Fails
  /\ GiveUp(p)
  /\ \/ UNCHANGED <<record, late>>
     \/ SetStatus(push[p].mine) /\ UNCHANGED late
     \/ late' = late \cup {push[p].mine} /\ UNCHANGED record
  /\ UNCHANGED <<state, sync, acts, past, overtaken>>

LateCall(s) ==
  /\ s \in late
  /\ late' = late \ {s}
  /\ SetStatus(s) \/ (record # s.from /\ UNCHANGED record)
  /\ UNCHANGED <<state, sync, job, push, acts, failures, past,
                 overtaken>>

\* alreadyThere: an earlier push was applied although its answer was lost.
CheckRecord(p) ==
  /\ push[p].pc = "check"
  /\ IF record = push[p].mine.to THEN Goto(p, "clear") /\ UNCHANGED job
     ELSE GiveUp(p)
  /\ UNCHANGED <<state, sync, record, late, acts, failures, past,
                 overtaken>>

\* The debt is cleared unless it has another target by now.
Clear(p) ==
  /\ push[p].pc = "clear"
  /\ sync' = IF sync.to = push[p].mine.to THEN NoSync ELSE sync
  /\ Goto(p, "remove")
  /\ UNCHANGED <<state, job, record, late, acts, failures, past,
                 overtaken>>

\* jobs.remove('status_sync'), whoever put the job.
RemoveJob(p) ==
  /\ push[p].pc = "remove"
  /\ job' = 0
  /\ push' = [push EXCEPT ![p] = Idle]
  /\ UNCHANGED <<state, sync, record, late, acts, failures, past,
                 overtaken>>

\* A crash, or a database call that fails, ends a push anywhere.
Crash(p) ==
  /\ push[p] # Idle
  /\ Fails
  /\ push' = [push EXCEPT ![p] = Idle]
  /\ UNCHANGED <<state, sync, job, record, late, acts, past, overtaken>>

Push(p) ==
  \/ ReadSync(p) \/ PostOk(p) \/ PostRefused(p) \/ CheckRecord(p)
  \/ Clear(p) \/ RemoveJob(p)

CopyNext ==
  \/ \E p \in Pushers :
       \/ \E to \in States : Act(p, to)
       \/ WorkerStart(p) \/ Push(p) \/ PostFails(p) \/ Crash(p)
  \/ \E s \in late : LateCall(s)

\* The scheduler polls every 15 s and a request runs on: both make progress.
CopyFairness == \A p \in Pushers : WF_copyVars(Push(p)) /\ WF_copyVars(WorkerStart(p))

CopySpec == CopyInit /\ [][CopyNext]_copyVars /\ CopyFairness

-----------------------------------------------------------------------------
(* Properties                                                                *)

\* The variables and the local state of every push stay in their types.
CopyTypeOK ==
  /\ state \in States /\ record \in States
  /\ sync \in Sync \cup {NoSync}
  /\ job \in 0..MaxActs /\ acts \in 0..MaxActs
  /\ failures \in 0..MaxFailures
  /\ push \in [Pushers -> Pusher]
  /\ late \subseteq Sync
  /\ past \subseteq Moves

\* A copy that is still owed is on its way or has a job that retries it, unless
\* a later change overtook it.
DebtKept ==
  sync # NoSync /\ ~overtaken => job # 0 \/ \E p \in Pushers : push[p] # Idle

\* Lost, late, repeated and overlapping pushes never take the record through a
\* change the instance did not make.
RecordFollowsHistory == [][record' # record => <<record, record'>> \in past]_copyVars

\* "The copy is written right after each change and retried by the scheduler if
\* that call fails": the record is at the state of the instance again and again.
CopyConverges == []<>(record = state)

\* The same while people only act on a record whose last copy has settled: lost,
\* late and repeated calls and crashes alone do not leave the record behind.
SettledCopyConverges == []<>(record = state \/ overtaken)
=============================================================================
