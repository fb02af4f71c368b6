----------------------------- MODULE Approvals -----------------------------
(* The approval engine of workflow-service: one workflow instance, the tasks *)
(* of its approval levels, their timer jobs, and the requests and scheduler  *)
(* workers that act on them at the same time.                                *)
(*                                                                           *)
(* A handler reads shared state, awaits, and writes in one transaction that  *)
(* is guarded by the instance version.  Each read that another handler can   *)
(* overtake is a step of its own; a transaction is one step.  The copy of    *)
(* the state kept by the record (statusSync, pushStatus) is in StatusCopy.   *)
EXTENDS Integers

CONSTANTS
  Users,         \* people
  Requester,     \* inst.requesterId
  States,        \* keys of wf.states
  InitialState,  \* wf.initialState, the state of a new instance
  Actions,       \* keys of wf.actions
  ActionDef,     \* action |-> [from, to, approval, approved, rejected, actors]
  NumLevels,     \* approval levels of the published workflow, in order
  Mode,          \* level |-> "any" or "all"
  Resolve,       \* level |-> the sets of users its approvers may resolve to
  Escalation,    \* level |-> the sets its escalateTo may resolve to
  EscalateTo,    \* levels that name somebody to escalate to
  Reminds,       \* levels with remindAfterHours
  Escalates,     \* levels with escalateAfterHours
  Removable,     \* levels an administrator may remove from the workflow
  Delegate,      \* pairs <<u, d>>: d stands in for u
  Requests,      \* slots for requests and scheduler workers in progress
  MaxVersion,    \* bound: committed changes of the instance
  MaxBatches     \* bound: calls of startLevel

Levels  == 1..NumLevels
TaskId  == (1..MaxBatches) \X Users     \* one task per startLevel call and user
System  == "system"
Nobody  == "nobody"

ASSUME LevelsAssumption == NumLevels \in Nat
ASSUME BoundsAssumption == MaxVersion \in Nat /\ MaxBatches \in Nat
ASSUME UsersAssumption ==
  /\ Requester \in Users
  /\ System \notin Users /\ Nobody \notin Users
  /\ Delegate \subseteq Users \X Users
ASSUME WorkflowAssumption ==
  /\ InitialState \in States
  /\ ActionDef \in [Actions -> [from : SUBSET States, to : States,
                                approval : BOOLEAN, approved : States,
                                rejected : States,
                                actors : SUBSET (Users \cup {System})]]
ASSUME LevelAssumption ==
  /\ Mode \in [Levels -> {"any", "all"}]
  /\ Resolve \in [Levels -> SUBSET SUBSET Users]
  /\ Escalation \in [Levels -> SUBSET SUBSET Users]
  /\ EscalateTo \subseteq Levels /\ Reminds \subseteq Levels
  /\ Escalates \subseteq Levels /\ Removable \subseteq Levels

VARIABLES
  state,      \* inst.state
  approval,   \* inst.approval, NoRun when null
  version,    \* inst.version
  lastEntry,  \* the newest entry of inst.history
  published,  \* levels the published workflow still defines
  tasks,      \* TaskId |-> ApprovalTask
  batches,    \* calls of startLevel so far
  jobs,       \* TaskId |-> the due time of its 'task' job, "none" without one
  req         \* Requests |-> local variables of the handler in the slot

vars == <<state, approval, version, lastEntry, published, tasks, batches,
          jobs, req>>

-----------------------------------------------------------------------------
(* An approval run is named by the version that started it (startedAt).      *)

NoRun == [startedAt |-> 0, action |-> "none", levels |-> {}, current |-> 0]
Run   == [startedAt : 1..MaxVersion, action : Actions,
          levels : SUBSET Levels, current : Levels]

NoTask == [level |-> 0, run |-> 0, status |-> "none", timed |-> FALSE,
           reminded |-> FALSE, by |-> Nobody]
Task   == [level : Levels, run : 1..MaxVersion,
           status : {"pending", "approved", "rejected", "cancelled",
                     "escalated"},
           timed : BOOLEAN,       \* escalateAt is set
           reminded : BOOLEAN,
           by : Users \cup {System, Nobody}]                \* decidedBy

\* dueAt: remindAt, escalateAt, or a back-off after one of them had passed.
Due == {"none", "remind", "escalate", "remindRetry", "escalateRetry"}
Backoff(due) ==
  IF due \in {"escalate", "escalateRetry"} THEN "escalateRetry"
  ELSE "remindRetry"

Entry == [by : Users \cup {System},
          action : Actions \cup {"none", "approve", "reject", "escalate"},
          from : States, to : States]

Snapshot == [version : Nat, state : States, approval : Run \cup {NoRun}]

Pc == {"idle", "actRead", "actCommit", "decideRead", "decideCommit",
       "timerRead", "timerPick", "remind", "escalateTo", "skip", "stay",
       "finish"}

Request == [pc : Pc, user : Users \cup {System, Nobody},
            action : Actions \cup {"none"},
            task : TaskId \cup {<<>>}, decision : {"none", "approve", "reject"},
            cfg : SUBSET Levels, seen : Snapshot, due : Due, timed : BOOLEAN,
            reminds : BOOLEAN, targets : SUBSET Users]

Running     == approval # NoRun
Pending     == {t \in TaskId : tasks[t].status = "pending"}
PendingAt(l) == {t \in Pending : tasks[t].level = l}
IsFirst(l, S) == l \in S /\ \A m \in S : l <= m

Here == [version |-> version, state |-> state, approval |-> approval]

NoRequest == [pc |-> "idle", user |-> Nobody, action |-> "none", task |-> <<>>,
              decision |-> "none", cfg |-> {},
              seen |-> [version |-> 0, state |-> InitialState,
                        approval |-> NoRun],
              due |-> "none", timed |-> FALSE, reminds |-> FALSE,
              targets |-> {}]

Init ==
  /\ state = InitialState
  /\ approval = NoRun
  /\ version = 0
  /\ lastEntry = [by |-> Requester, action |-> "none",
                  from |-> InitialState, to |-> InitialState]
  /\ published = Levels
  /\ tasks = [t \in TaskId |-> NoTask]
  /\ batches = 0
  /\ jobs = [t \in TaskId |-> "none"]
  /\ req = [r \in Requests |-> NoRequest]

-----------------------------------------------------------------------------
(* What transactions are made of.                                            *)

\* Mutant: an empty set of approvers is not refused.
ApproversMaybeNone(l) == {S \ {Requester} : S \in Resolve[l]}

\* approversFor: the resolved users without the requester.
Approvers(l) == {S \ {Requester} : S \in Resolve[l]} \ {{}}

\* Mutant: the version guard is missing.
CommitUnguarded(r, newState, newApproval, by, action) ==
  /\ version < MaxVersion
  /\ version' = version + 1
  /\ state' = newState
  /\ approval' = newApproval
  /\ lastEntry' = [by |-> by, action |-> action,
                   from |-> req[r].seen.state, to |-> newState]
  /\ req' = [req EXCEPT ![r] = NoRequest]

\* The guarded update of the instance, and the end of the request.
Commit(r, newState, newApproval, by, action) ==
  /\ req[r].seen.version = version
  /\ version < MaxVersion
  /\ version' = version + 1
  /\ state' = newState
  /\ approval' = newApproval
  /\ lastEntry' = [by |-> by, action |-> action,
                   from |-> req[r].seen.state, to |-> newState]
  /\ req' = [req EXCEPT ![r] = NoRequest]

\* Mutant: the update of the tasks does not filter on status.
ClosedAgain(tk, S, status, by) ==
  [t \in TaskId |-> IF t \in S THEN [tk[t] EXCEPT !.status = status, !.by = by]
                    ELSE tk[t]]

\* Open tasks that leave "pending"; their jobs go with them.
Closed(tk, S, status, by) ==
  [t \in TaskId |-> IF t \in S /\ tk[t].status = "pending"
                    THEN [tk[t] EXCEPT !.status = status, !.by = by]
                    ELSE tk[t]]
Without(S) == [t \in TaskId |-> IF t \in S THEN "none" ELSE jobs[t]]

\* startLevel: a task and a timer per assignee.
IsNew(t, who) == t[1] = batches + 1 /\ t[2] \in who
\* Mutant: the task names the position after its level.
NewTaskNextLevel(l, run, escalates) ==
  [level |-> l + 1, run |-> run, status |-> "pending",
   timed |-> escalates /\ l \in Escalates, reminded |-> FALSE, by |-> Nobody]
NewTask(l, run, escalates) ==
  [level |-> l, run |-> run, status |-> "pending",
   timed |-> escalates /\ l \in Escalates, reminded |-> FALSE, by |-> Nobody]
FirstDue(l, escalates) ==
  IF l \in Reminds THEN "remind"
  ELSE IF escalates /\ l \in Escalates THEN "escalate" ELSE "none"
StartLevel(tk, jb, l, who, run, escalates) ==
  /\ batches < MaxBatches
  /\ batches' = batches + 1
  /\ tasks' = [t \in TaskId |-> IF IsNew(t, who)
                                THEN NewTask(l, run, escalates) ELSE tk[t]]
  /\ jobs' = [t \in TaskId |-> IF IsNew(t, who)
                               THEN FirstDue(l, escalates) ELSE jb[t]]
StartNothing(tk, jb) == tasks' = tk /\ jobs' = jb /\ UNCHANGED batches

Goto(r, pc) == req' = [req EXCEPT ![r].pc = pc]

-----------------------------------------------------------------------------
(* act: run a workflow action                                                *)

\* The record and the configuration are read once, before the retries.
ActStart(r, u, a) ==
  /\ req[r].pc = "idle"
  /\ u \in ActionDef[a].actors
  /\ req' = [req EXCEPT ![r] = [NoRequest EXCEPT
                !.pc = "actRead", !.user = u, !.action = a, !.cfg = published]]
  /\ UNCHANGED <<state, approval, version, lastEntry, published, tasks,
                 batches, jobs>>

ActRead(r) ==
  LET def == ActionDef[req[r].action] IN
  /\ req[r].pc = "actRead"
  /\ state \in def.from
  /\ ~(Running /\ def.approval)
  /\ req' = [req EXCEPT ![r].pc = "actCommit", ![r].seen = Here]
  /\ UNCHANGED <<state, approval, version, lastEntry, published, tasks,
                 batches, jobs>>

\* Mutant: leaving an approval forgets its tasks.
ActWithdrawsNone(r) == {}

\* "Leaving an approval": open tasks are withdrawn.
ActWithdraws(r) == IF req[r].seen.approval # NoRun THEN Pending ELSE {}

\* No approval, or none of its levels applies to this record.
ActMove(r) ==
  LET def == ActionDef[req[r].action]
      out == ActWithdraws(r)
  IN
  /\ req[r].pc = "actCommit"
  /\ Commit(r, IF def.approval THEN def.approved ELSE def.to, NoRun,
            req[r].user, req[r].action)
  /\ StartNothing(Closed(tasks, out, "cancelled", Nobody), Without(out))
  /\ UNCHANGED published

\* Conditions select the levels that apply; the first of them starts.
ActSubmit(r) ==
  LET def == ActionDef[req[r].action] IN
  /\ req[r].pc = "actCommit"
  /\ def.approval
  /\ \E L \in SUBSET req[r].cfg, l \in Levels :
       /\ IsFirst(l, L)
       /\ \E who \in Approvers(l) :
            /\ Commit(r, def.to,
                      [startedAt |-> version + 1, action |-> req[r].action,
                       levels |-> L, current |-> l],
                      req[r].user, req[r].action)
            /\ StartLevel(Closed(tasks, ActWithdraws(r), "cancelled", Nobody),
                          Without(ActWithdraws(r)), l, who, version + 1, TRUE)
  /\ UNCHANGED published

-----------------------------------------------------------------------------
(* decide: approve or reject a task                                          *)

\* Mutant: a delegate may be the requester.
DecideReadTaskAnyone(r, u, t, d) ==
  /\ req[r].pc = "idle"
  /\ t \in Pending
  /\ u = t[2] \/ <<t[2], u>> \in Delegate
  /\ req' = [req EXCEPT ![r] = [NoRequest EXCEPT
                !.pc = "decideRead", !.user = u, !.task = t, !.decision = d]]
  /\ UNCHANGED <<state, approval, version, lastEntry, published, tasks,
                 batches, jobs>>

\* The task is read, and its assignee or their delegate may go on.
DecideReadTask(r, u, t, d) ==
  /\ req[r].pc = "idle"
  /\ t \in Pending
  /\ u = t[2] \/ <<t[2], u>> \in Delegate
  /\ u # Requester
  /\ req' = [req EXCEPT ![r] = [NoRequest EXCEPT
                !.pc = "decideRead", !.user = u, !.task = t, !.decision = d]]
  /\ UNCHANGED <<state, approval, version, lastEntry, published, tasks,
                 batches, jobs>>

\* The instance is read after the task, and the configuration after it.
DecideReadInstance(r) ==
  /\ req[r].pc = "decideRead"
  /\ Running
  /\ req' = [req EXCEPT ![r].pc = "decideCommit", ![r].seen = Here,
                        ![r].cfg = published]
  /\ UNCHANGED <<state, approval, version, lastEntry, published, tasks,
                 batches, jobs>>

Reject(r) ==
  LET run == req[r].seen.approval
      t   == req[r].task
  IN
  /\ req[r].pc = "decideCommit"
  /\ req[r].decision = "reject"
  /\ Commit(r, ActionDef[run.action].rejected, NoRun, req[r].user, "reject")
  /\ StartNothing(Closed(Closed(tasks, {t}, "rejected", req[r].user),
                         Pending \ {t}, "cancelled", Nobody),
                  Without(Pending \cup {t}))
  /\ UNCHANGED published

\* Mutants: the count misses `_id: { $ne: task._id }`, or is not made.
OthersAndSelf(r) == PendingAt(tasks[req[r].task].level)
OthersNone(r) == {}

\* othersPending counts the level of the task, whatever level is running.
Others(r) == PendingAt(tasks[req[r].task].level) \ {req[r].task}
LevelDone(r) ==
  \/ Mode[tasks[req[r].task].level] = "any"
  \/ Others(r) = {}
\* Mutant: every other level is a next one.
NextLevelsOther(run, cfg) == {l \in run.levels \cap cfg : l # run.current}

NextLevels(run, cfg) == {l \in run.levels \cap cfg : run.current < l}

ApprovePart(r) ==
  LET t == req[r].task IN
  /\ req[r].pc = "decideCommit"
  /\ req[r].decision = "approve"
  /\ ~LevelDone(r)
  /\ Commit(r, state, approval, req[r].user, "approve")
  /\ StartNothing(Closed(tasks, {t}, "approved", req[r].user), Without({t}))
  /\ UNCHANGED published

ApproveNext(r) ==
  LET run  == req[r].seen.approval
      t    == req[r].task
  IN
  /\ req[r].pc = "decideCommit"
  /\ req[r].decision = "approve"
  /\ LevelDone(r)
  /\ \E l \in Levels :
       /\ IsFirst(l, NextLevels(run, req[r].cfg))
       /\ \E who \in Approvers(l) :
            /\ Commit(r, state, [run EXCEPT !.current = l], req[r].user,
                      "approve")
            /\ StartLevel(Closed(Closed(tasks, {t}, "approved", req[r].user),
                                 Others(r), "cancelled", Nobody),
                          Without(Others(r) \cup {t}), l, who, run.startedAt,
                          TRUE)
  /\ UNCHANGED published

ApproveLast(r) ==
  LET run == req[r].seen.approval
      t   == req[r].task
  IN
  /\ req[r].pc = "decideCommit"
  /\ req[r].decision = "approve"
  /\ LevelDone(r)
  /\ NextLevels(run, req[r].cfg) = {}
  /\ Commit(r, ActionDef[run.action].approved, NoRun, req[r].user, "approve")
  /\ StartNothing(Closed(Closed(tasks, {t}, "approved", req[r].user),
                         Pending \ {t}, "cancelled", Nobody),
                  Without(Pending \cup {t}))
  /\ UNCHANGED published

-----------------------------------------------------------------------------
(* A scheduler worker runs the timer job of a task                           *)

\* Any replica takes a due job; a lease that ran out does not stop its holder,
\* so two workers may hold the same job.  A task no longer open is finished.
TimerStart(r, t) ==
  /\ req[r].pc = "idle"
  /\ jobs[t] # "none"
  /\ req' = [req EXCEPT ![r] = [NoRequest EXCEPT
                !.pc = IF t \in Pending THEN "timerRead" ELSE "finish",
                !.user = System, !.task = t, !.due = jobs[t],
                !.timed = tasks[t].timed,
                !.reminds = tasks[t].level \in Reminds /\ ~tasks[t].reminded]]
  /\ UNCHANGED <<state, approval, version, lastEntry, published, tasks,
                 batches, jobs>>

\* What is due: the escalation (always for its own job, or when the worker
\* comes late), a reminder not sent yet, or nothing.
TimerReadInstance(r) ==
  /\ req[r].pc = "timerRead"
  /\ \/ ~Running /\ Goto(r, "finish")
     \/ /\ Running
        /\ \E pc \in {"timerPick", "remind", "finish"} :
             /\ pc = "timerPick" => req[r].timed
             /\ pc # "timerPick" => ~(req[r].timed /\ Backoff(req[r].due) = "escalateRetry")
             /\ pc = "remind" <=> (req[r].reminds /\ pc # "timerPick")
             /\ req' = [req EXCEPT ![r].pc = pc, ![r].seen = Here,
                                   ![r].cfg = published]
  /\ UNCHANGED <<state, approval, version, lastEntry, published, tasks,
                 batches, jobs>>

Remind(r) ==
  LET t == req[r].task IN
  /\ req[r].pc = "remind"
  /\ tasks' = [tasks EXCEPT ![t].reminded = TRUE]
  /\ jobs' = [jobs EXCEPT ![t] = IF req[r].timed THEN "escalate" ELSE "none"]
  /\ Goto(r, "finish")
  /\ UNCHANGED <<state, approval, version, lastEntry, published, batches>>

\* escalate, with a level that names others: those not waiting on it already.
\* With nobody to take over, the task stays with its approver.
EscalateTargets(r) ==
  LET t == req[r].task
      l == tasks[t].level
  IN
  /\ req[r].pc = "timerPick"
  /\ l \in req[r].cfg \cap EscalateTo
  /\ \E S \in Escalation[l] :
       LET targets == S \ ({Requester} \cup {p[2] : p \in PendingAt(l)}) IN
       req' = [req EXCEPT ![r].targets = targets,
                          ![r].pc = IF targets = {} THEN "stay"
                                    ELSE "escalateTo"]
  /\ UNCHANGED <<state, approval, version, lastEntry, published, tasks,
                 batches, jobs>>

\* escalate, with nobody named: skip the level when a later one exists.
EscalateWithoutTargets(r) ==
  /\ req[r].pc = "timerPick"
  /\ tasks[req[r].task].level \notin req[r].cfg \cap EscalateTo
  /\ Goto(r, IF \E l \in req[r].seen.approval.levels :
                  req[r].seen.approval.current < l
             THEN "skip" ELSE "stay")
  /\ UNCHANGED <<state, approval, version, lastEntry, published, tasks,
                 batches, jobs>>

\* A system change: it re-reads the instance right before its guarded update,
\* so only `seen` of the history entry is old, and it goes on to finish.
CommitFresh(r, newApproval) ==
  /\ version < MaxVersion
  /\ version' = version + 1
  /\ approval' = newApproval
  /\ lastEntry' = [by |-> System, action |-> "escalate",
                   from |-> req[r].seen.state, to |-> req[r].seen.state]
  /\ Goto(r, "finish")
  /\ UNCHANGED <<state, published>>

EscalateToOthers(r) ==
  LET t == req[r].task
      l == tasks[t].level
  IN
  /\ req[r].pc = "escalateTo"
  /\ CommitFresh(r, approval)
  /\ StartLevel(Closed(tasks, {t}, "escalated", System), Without({t}),
                l, req[r].targets, tasks[t].run, FALSE)

SkipLevel(r) ==
  LET l == tasks[req[r].task].level IN
  /\ req[r].pc = "skip"
  /\ Running /\ approval.current = l
  /\ \E m \in Levels :
       /\ IsFirst(m, NextLevels(approval, req[r].cfg))
       /\ \E who \in Approvers(m) :
            /\ CommitFresh(r, [approval EXCEPT !.current = m])
            /\ StartLevel(Closed(tasks, PendingAt(l), "escalated", System),
                          Without(PendingAt(l)), m, who, approval.startedAt,
                          TRUE)

\* The level moved on, no later level is left, or its approvers could not be
\* found: `.catch(() => undefined)` also covers a call that failed.
SkipNothing(r) ==
  /\ req[r].pc = "skip"
  /\ Goto(r, "finish")
  /\ UNCHANGED <<state, approval, version, lastEntry, published, tasks,
                 batches, jobs>>

\* Mutant: the last level is skipped too, which approves the request.
StayApproves(r) ==
  /\ req[r].pc = "stay"
  /\ Running
  /\ version < MaxVersion
  /\ version' = version + 1
  /\ state' = ActionDef[approval.action].approved
  /\ approval' = NoRun
  /\ lastEntry' = [by |-> System, action |-> "escalate", from |-> state,
                   to |-> state']
  /\ StartNothing(Closed(tasks, Pending, "escalated", System), Without(Pending))
  /\ Goto(r, "finish")
  /\ UNCHANGED published

\* Last level: another reminder, and the timer stops.
Stay(r) ==
  LET t == req[r].task IN
  /\ req[r].pc = "stay"
  /\ tasks' = [tasks EXCEPT ![t].timed = FALSE, ![t].reminded = TRUE]
  /\ jobs' = [jobs EXCEPT ![t] = "none"]
  /\ Goto(r, "finish")
  /\ UNCHANGED <<state, approval, version, lastEntry, published, batches>>

\* finish: the job goes, unless it was moved while it ran.
Finish(r) ==
  LET t == req[r].task IN
  /\ req[r].pc = "finish"
  /\ jobs' = [jobs EXCEPT ![t] = IF @ = req[r].due THEN "none" ELSE @]
  /\ req' = [req EXCEPT ![r] = NoRequest]
  /\ UNCHANGED <<state, approval, version, lastEntry, published, tasks,
                 batches>>

-----------------------------------------------------------------------------
(* Conflicts, failures and configuration changes                             *)

\* VersionConflict: act reads the instance again, decide starts again.
Retry(r) ==
  /\ \/ req[r].pc = "actCommit" /\ Goto(r, "actRead")
     \/ /\ req[r].pc = "decideCommit"
        /\ IF req[r].task \in Pending THEN Goto(r, "decideRead")
           ELSE req' = [req EXCEPT ![r] = NoRequest]
  /\ req[r].seen.version # version
  /\ UNCHANGED <<state, approval, version, lastEntry, published, tasks,
                 batches, jobs>>

\* A refusal, a failed call, the fifth conflict or a crash ends a handler
\* before its transaction, or a worker after it.  The job of a worker stays;
\* after a failure the worker moves it to a later time.
Abandon(r) ==
  /\ req[r].pc # "idle"
  /\ req' = [req EXCEPT ![r] = NoRequest]
  /\ \/ UNCHANGED jobs
     \/ /\ req[r].user = System /\ req[r].task # <<>>
        /\ jobs' = [t \in TaskId |->
                      IF t = req[r].task /\ jobs[t] # "none"
                      THEN Backoff(req[r].due) ELSE jobs[t]]
  /\ UNCHANGED <<state, approval, version, lastEntry, published, tasks,
                 batches>>

\* The administrator publishes the workflow without some removable levels.
PublishConfig ==
  /\ published' \in {Levels \ S : S \in SUBSET Removable}
  /\ published' # published
  /\ UNCHANGED <<state, approval, version, lastEntry, tasks, batches, jobs,
                 req>>

Act(r) ==
  \/ \E u \in Users \cup {System}, a \in Actions : ActStart(r, u, a)
  \/ ActRead(r) \/ ActMove(r) \/ ActSubmit(r)
Decide(r) ==
  \/ \E u \in Users, t \in TaskId, d \in {"approve", "reject"} :
       DecideReadTask(r, u, t, d)
  \/ DecideReadInstance(r)
  \/ Reject(r) \/ ApprovePart(r) \/ ApproveNext(r) \/ ApproveLast(r)
Timer(r) ==
  \/ \E t \in TaskId : TimerStart(r, t)
  \/ TimerReadInstance(r) \/ Remind(r)
  \/ EscalateTargets(r) \/ EscalateWithoutTargets(r)
  \/ EscalateToOthers(r) \/ SkipLevel(r) \/ SkipNothing(r) \/ Stay(r)
  \/ Finish(r)

Next ==
  \/ \E r \in Requests :
       Act(r) \/ Decide(r) \/ Timer(r) \/ Retry(r) \/ Abandon(r)
  \/ PublishConfig

Spec == Init /\ [][Next]_vars
-----------------------------------------------------------------------------
(* Properties                                                                *)

\* The variables and the local state of every handler stay in their types.
TypeOK ==
  /\ state \in States
  /\ approval \in Run \cup {NoRun}
  /\ version \in 0..MaxVersion
  /\ lastEntry \in Entry
  /\ published \subseteq Levels
  /\ tasks \in [TaskId -> Task \cup {NoTask}]
  /\ batches \in 0..MaxBatches
  /\ jobs \in [TaskId -> Due]
  /\ req \in [Requests -> Request]

\* A running approval can always be decided by somebody: its level has an open
\* task, whatever decisions, escalations and withdrawals overtake each other.
RunningHasApprover == Running => PendingAt(approval.current) # {}

\* "Leaving an approval: open tasks are withdrawn": without an approval no task
\* is open.  Nobody is asked for a decision that can no longer be taken.
NoTaskWithoutApproval == ~Running => Pending = {}

\* No task waits for the requester, and the requester never decides one, even
\* as somebody's delegate or as a person it was escalated to.
NoSelfApproval ==
  \A t \in TaskId : tasks[t].status # "none" =>
    t[2] # Requester /\ tasks[t].by # Requester

\* Every change of the instance writes a history entry that starts at the
\* state the instance had and ends at the one it gets, although the entry is
\* made of a snapshot read earlier.
HistoryIsAChain ==
  [][version' # version => lastEntry'.from = state /\ lastEntry'.to = state'
    ]_vars

AnswersStep ==
  \A t \in TaskId : tasks[t].status \notin {"none", "pending"} =>
    tasks'[t].status = tasks[t].status /\ tasks'[t].by = tasks[t].by

\* A task decided, withdrawn or escalated stays so: a late decision, closing or
\* escalation that overlaps it does not rewrite who answered and how.
AnswersAreFinal == [][AnswersStep]_vars

\* "The last level is never skipped, because that would approve the request":
\* a timer never starts, ends or replaces an approval; it can only move the
\* same run to a later level.
TimersOnlyAdvance ==
  [][lastEntry'.action = "escalate" /\ version' # version =>
       /\ state' = state
       /\ (approval' = approval
           \/ /\ Running
              /\ approval' = [approval EXCEPT !.current = approval'.current]
              /\ approval.current < approval'.current)]_vars

LevelsStep ==
  Running /\ approval'.startedAt = approval.startedAt =>
    approval.current <= approval'.current

\* Levels run one after another: an approval only moves to a later level of the
\* same run, or ends.  A stale decision cannot bring an earlier level back.
LevelsInOrder == [][LevelsStep]_vars

\* The answers of a level: one approval, or with mode "all" an approval by
\* everybody who was asked and whose task was not escalated.
Answered(l, run, tk) ==
  LET asked == {t \in TaskId : tk[t].level = l /\ tk[t].run = run} IN
  /\ \E t \in asked : tk[t].status = "approved"
  /\ Mode[l] = "all" =>
       \A t \in asked : tk[t].status \in {"approved", "escalated"}

\* "Two approvers acting at the same moment cannot both complete a level":
\* an approval moves on by a decision only when its level was answered.
LevelsAreAnswered ==
  [][Running /\ approval' # approval /\ lastEntry'.action = "approve" =>
       Answered(approval.current, approval.startedAt, tasks')]_vars

\* The same for decisions on an open task of the level in progress: however
\* handlers overlap, and whatever was skipped or escalated, their counts of open
\* tasks are right.  It leaves out a decision on a task that another one has
\* closed, and the tasks of a level that such a decision has passed over.
LevelsAreAnsweredInTime ==
  [][\A r \in Requests :
       /\ Running /\ approval' # approval /\ lastEntry'.action = "approve"
       /\ req[r].pc = "decideCommit" /\ req[r].task \in Pending
       /\ tasks[req[r].task].level = approval.current
       /\ tasks[req[r].task].run = approval.startedAt
       /\ req'[r] = NoRequest
       => Answered(approval.current, approval.startedAt, tasks')]_vars
=============================================================================
