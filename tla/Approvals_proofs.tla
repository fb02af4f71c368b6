-------------------------- MODULE Approvals_proofs --------------------------
(* Theorems about Approvals for every workflow, every number of requests and *)
(* every bound.                                                              *)
EXTENDS Approvals, TLAPS

\* What a handler in progress may rely on.
RequestsOK ==
  \A r \in Requests :
    /\ req[r].pc \in {"actRead", "actCommit"} =>
         /\ req[r].user \in Users \cup {System}
         /\ req[r].action \in Actions
    /\ req[r].pc \in {"decideRead", "decideCommit"} =>
         req[r].user \in Users
    /\ req[r].pc \in {"decideRead", "decideCommit", "timerRead", "timerPick",
                      "remind", "escalateTo", "skip", "stay"} =>
         /\ req[r].task \in TaskId
         /\ tasks[req[r].task] \in Task
    /\ req[r].pc = "finish" => req[r].task \in TaskId
    /\ req[r].pc = "decideCommit" => req[r].seen.approval \in Run
    /\ req[r].pc = "escalateTo" => req[r].targets # {}

TypeInv == TypeOK /\ RequestsOK

-----------------------------------------------------------------------------
(* Lemmas about the operators                                                *)

TaskMap == [TaskId -> Task \cup {NoTask}]
DueMap  == [TaskId -> Due]

\* Closing tasks keeps their types, and no task disappears.
LEMMA ClosedType ==
  ASSUME NEW tk \in TaskMap, NEW S,
         NEW status \in {"approved", "rejected", "cancelled", "escalated"},
         NEW by \in Users \cup {System, Nobody}
  PROVE  /\ Closed(tk, S, status, by) \in TaskMap
         /\ \A t \in TaskId : tk[t] \in Task
                              => Closed(tk, S, status, by)[t] \in Task
<1>1. ASSUME NEW t \in TaskId
      PROVE  /\ Closed(tk, S, status, by)[t] \in Task \cup {NoTask}
             /\ tk[t] \in Task => Closed(tk, S, status, by)[t] \in Task
  <2>1. CASE t \in S /\ tk[t].status = "pending"
    <3>1. tk[t] \in Task BY <2>1 DEF TaskMap, NoTask
    <3>2. Closed(tk, S, status, by)[t]
            = [tk[t] EXCEPT !.status = status, !.by = by]
      BY <2>1 DEF Closed
    <3> QED BY <3>1, <3>2 DEF Task
  <2>2. CASE ~(t \in S /\ tk[t].status = "pending")
    BY <2>2 DEF Closed, TaskMap
  <2> QED BY <2>1, <2>2
<1> QED BY <1>1 DEF Closed, TaskMap

\* Removing jobs keeps the types of the others.
LEMMA WithoutType ==
  ASSUME NEW S, jobs \in DueMap PROVE Without(S) \in DueMap
BY DEF Without, DueMap, Due

\* A started level keeps the types, and no task disappears.
LEMMA StartLevelType ==
  ASSUME NEW tk \in TaskMap, NEW jb \in DueMap, NEW l \in Levels, NEW who,
         NEW run \in 1..MaxVersion, NEW escalates \in BOOLEAN,
         batches \in 0..MaxBatches,
         StartLevel(tk, jb, l, who, run, escalates)
  PROVE  /\ tasks' \in TaskMap
         /\ jobs' \in DueMap
         /\ batches' \in 0..MaxBatches
         /\ \A t \in TaskId : tk[t] \in Task => tasks'[t] \in Task
<1>1. NewTask(l, run, escalates) \in Task
  BY DEF NewTask, Task
<1>2. FirstDue(l, escalates) \in Due
  BY DEF FirstDue, Due
<1>3. batches' \in 0..MaxBatches
  BY BoundsAssumption DEF StartLevel
<1> QED BY <1>1, <1>2, <1>3 DEF StartLevel, TaskMap, DueMap

\* Nothing started: the same for the other branch of a transaction.
LEMMA StartNothingType ==
  ASSUME NEW tk \in TaskMap, NEW jb \in DueMap, batches \in 0..MaxBatches,
         StartNothing(tk, jb)
  PROVE  /\ tasks' \in TaskMap
         /\ jobs' \in DueMap
         /\ batches' \in 0..MaxBatches
         /\ \A t \in TaskId : tk[t] \in Task => tasks'[t] \in Task
BY DEF StartNothing

\* Approvers are a non-empty set of users.
LEMMA ApproversType ==
  ASSUME NEW l \in Levels, NEW who \in Approvers(l)
  PROVE  who \subseteq Users /\ who # {} /\ Requester \notin who
BY LevelAssumption DEF Approvers

\* A request that ends leaves the others as they were.
LEMMA IdleRequest ==
  ASSUME NEW r \in Requests, TypeInv, req' = [req EXCEPT ![r] = NoRequest],
         \A t \in TaskId : tasks[t] \in Task => tasks'[t] \in Task
  PROVE  req' \in [Requests -> Request] /\ RequestsOK'
<1>1. NoRequest \in Request
  BY WorkflowAssumption DEF NoRequest, Request, Pc, Due, Snapshot
<1> QED BY <1>1 DEF TypeInv, TypeOK, RequestsOK, NoRequest

-----------------------------------------------------------------------------
(* Type correctness                                                          *)

\* Steps that only move a request: what is to be shown about that request.
LEMMA MovedRequest ==
  ASSUME NEW r \in Requests, NEW q \in Request, TypeInv,
         req' = [req EXCEPT ![r] = q],
         UNCHANGED <<state, approval, version, lastEntry, tasks, batches>>,
         published' \subseteq Levels, jobs' \in [TaskId -> Due],
         q.pc \in {"actRead", "actCommit"} =>
           q.user \in Users \cup {System} /\ q.action \in Actions,
         q.pc \in {"decideRead", "decideCommit"} => q.user \in Users,
         q.pc \in {"decideRead", "decideCommit", "timerRead", "timerPick",
                   "remind", "escalateTo", "skip", "stay"} =>
           q.task \in TaskId /\ tasks[q.task] \in Task,
         q.pc = "finish" => q.task \in TaskId,
         q.pc = "decideCommit" => q.seen.approval \in Run,
         q.pc = "escalateTo" => q.targets # {}
  PROVE  TypeInv'
<1>1. req' \in [Requests -> Request]
  BY DEF TypeInv, TypeOK
<1>2. TypeOK'
  BY <1>1 DEF TypeInv, TypeOK
<1>3. \A s \in Requests : req'[s] = IF s = r THEN q ELSE req[s]
  BY DEF TypeInv, TypeOK
<1>4. RequestsOK'
  BY <1>3 DEF TypeInv, RequestsOK
<1> QED BY <1>2, <1>4 DEF TypeInv

\* A guarded transaction: its tasks, jobs and request are well typed again.
LEMMA CommittedTypes ==
  ASSUME NEW r \in Requests, TypeInv,
         NEW newState \in States, NEW newApproval \in Run \cup {NoRun},
         NEW by \in Users \cup {System},
         NEW action \in Actions \cup {"approve", "reject"},
         Commit(r, newState, newApproval, by, action),
         tasks' \in TaskMap, jobs' \in DueMap, batches' \in 0..MaxBatches,
         \A t \in TaskId : tasks[t] \in Task => tasks'[t] \in Task,
         UNCHANGED published
  PROVE  TypeInv'
<1>1. req' \in [Requests -> Request] /\ RequestsOK'
  BY IdleRequest DEF Commit
<1>2. version' \in 0..MaxVersion
  BY BoundsAssumption DEF Commit, TypeInv, TypeOK
<1>3. lastEntry' \in Entry
  BY DEF Commit, Entry, TypeInv, TypeOK, Request, Snapshot
<1> QED BY <1>1, <1>2, <1>3 DEF TypeInv, TypeOK, TaskMap, DueMap, Commit

LEMMA ActTypes ==
  ASSUME NEW r \in Requests, TypeInv, Act(r)
  PROVE  TypeInv'
<1> USE DEF TypeInv
<1>1. ASSUME NEW u \in Users \cup {System}, NEW a \in Actions,
             ActStart(r, u, a)
      PROVE  TypeInv'
  <2> DEFINE q == [NoRequest EXCEPT !.pc = "actRead", !.user = u, !.action = a,
                                    !.cfg = published]
  <2>1. q \in Request /\ q.pc = "actRead" /\ q.user = u /\ q.action = a
    BY WorkflowAssumption DEF TypeOK, Request, NoRequest, Snapshot, Pc, Due
  <2>2. req' = [req EXCEPT ![r] = q]
    BY <1>1 DEF ActStart
  <2> QED BY <1>1, <2>1, <2>2, MovedRequest DEF ActStart, TypeOK
<1>2. ASSUME ActRead(r) PROVE TypeInv'
  <2> DEFINE q == [req[r] EXCEPT !.pc = "actCommit", !.seen = Here]
  <2>1. Here \in Snapshot
    BY DEF TypeOK, Here, Snapshot
  <2>2. req[r] \in Request
    BY DEF TypeOK
  <2>3. q \in Request
    BY <2>1, <2>2 DEF Request, Pc
  <2>4. q.pc = "actCommit" /\ q.user = req[r].user /\ q.action = req[r].action
    BY <2>2 DEF Request
  <2>5. req' = [req EXCEPT ![r] = q]
    BY <1>2 DEF ActRead, TypeOK
  <2> HIDE DEF q
  <2> QED BY <1>2, <2>3, <2>4, <2>5, MovedRequest
          DEF ActRead, TypeOK, RequestsOK
<1>3. ASSUME ActMove(r) PROVE TypeInv'
  <2> DEFINE out == ActWithdraws(r)
             def == ActionDef[req[r].action]
             to  == IF def.approval THEN def.approved ELSE def.to
  <2>1. req[r].action \in Actions /\ req[r].user \in Users \cup {System}
    BY <1>3 DEF ActMove, RequestsOK
  <2>2. to \in States
    BY <2>1, WorkflowAssumption
  <2>3. /\ Closed(tasks, out, "cancelled", Nobody) \in TaskMap
        /\ \A t \in TaskId : tasks[t] \in Task
             => Closed(tasks, out, "cancelled", Nobody)[t] \in Task
    BY ClosedType DEF TypeOK, TaskMap
  <2>4. Without(out) \in DueMap
    BY WithoutType DEF TypeOK, DueMap
  <2>5. /\ tasks' \in TaskMap /\ jobs' \in DueMap /\ batches' \in 0..MaxBatches
        /\ \A t \in TaskId : tasks[t] \in Task => tasks'[t] \in Task
    BY <1>3, <2>3, <2>4 DEF ActMove, StartNothing, TypeOK
  <2>6. Commit(r, to, NoRun, req[r].user, req[r].action)
        /\ UNCHANGED published
    BY <1>3 DEF ActMove
  <2> QED BY <2>1, <2>2, <2>5, <2>6, CommittedTypes
<1>4. ASSUME ActSubmit(r) PROVE TypeInv'
  <2> DEFINE out == ActWithdraws(r)
             tk  == Closed(tasks, out, "cancelled", Nobody)
  <2>1. req[r].action \in Actions /\ req[r].user \in Users \cup {System}
    BY <1>4 DEF ActSubmit, RequestsOK
  <2>2. ActionDef[req[r].action].to \in States
    BY <2>1, WorkflowAssumption
  <2>3. PICK L \in SUBSET req[r].cfg, l \in Levels, who \in SUBSET Users :
          /\ who \in Approvers(l)
          /\ Commit(r, ActionDef[req[r].action].to,
                    [startedAt |-> version + 1, action |-> req[r].action,
                     levels |-> L, current |-> l],
                    req[r].user, req[r].action)
          /\ StartLevel(tk, Without(out), l, who, version + 1, TRUE)
    BY <1>4, ApproversType DEF ActSubmit
  <2>4. version + 1 \in 1..MaxVersion /\ req[r].cfg \subseteq Levels
    BY <2>3, BoundsAssumption DEF Commit, TypeOK, Request
  <2>5. [startedAt |-> version + 1, action |-> req[r].action,
         levels |-> L, current |-> l] \in Run
    BY <2>1, <2>4 DEF Run
  <2>6. tk \in TaskMap
        /\ \A t \in TaskId : tasks[t] \in Task => tk[t] \in Task
    BY ClosedType DEF TypeOK, TaskMap
  <2>7. Without(out) \in DueMap
    BY WithoutType DEF TypeOK, DueMap
  <2>8. /\ tasks' \in TaskMap /\ jobs' \in DueMap /\ batches' \in 0..MaxBatches
        /\ \A t \in TaskId : tasks[t] \in Task => tasks'[t] \in Task
    BY <2>3, <2>4, <2>6, <2>7, StartLevelType DEF TypeOK
  <2>9. UNCHANGED published
    BY <1>4 DEF ActSubmit
  <2> QED BY <2>1, <2>2, <2>3, <2>5, <2>8, <2>9, CommittedTypes
<1> QED BY <1>1, <1>2, <1>3, <1>4 DEF Act

\* The tasks of a decision or a closing keep their types.
LEMMA ClosedTasks ==
  ASSUME TypeInv, NEW S, NEW S2, NEW by \in Users \cup {System, Nobody},
         NEW status \in {"approved", "rejected", "cancelled", "escalated"}
  PROVE  LET tk == Closed(Closed(tasks, S, status, by), S2, "cancelled", Nobody)
         IN  /\ tk \in TaskMap
             /\ \A t \in TaskId : tasks[t] \in Task => tk[t] \in Task
<1> DEFINE tk1 == Closed(tasks, S, status, by)
           tk2 == Closed(tk1, S2, "cancelled", Nobody)
<1>1. /\ tk1 \in TaskMap
      /\ \A t \in TaskId : tasks[t] \in Task => tk1[t] \in Task
  BY ClosedType DEF TypeInv, TypeOK, TaskMap
<1> HIDE DEF tk1
<1>2. /\ tk2 \in TaskMap
      /\ \A t \in TaskId : tk1[t] \in Task => tk2[t] \in Task
  BY <1>1, ClosedType
<1> USE DEF tk1
<1> QED BY <1>1, <1>2

LEMMA DecideTypes ==
  ASSUME NEW r \in Requests, TypeInv, Decide(r)
  PROVE  TypeInv'
<1> USE DEF TypeInv
<1> DEFINE t   == req[r].task
           run == req[r].seen.approval
<1>1. ASSUME NEW u \in Users, NEW k \in TaskId, NEW d \in {"approve", "reject"},
             DecideReadTask(r, u, k, d)
      PROVE  TypeInv'
  <2> DEFINE q == [NoRequest EXCEPT !.pc = "decideRead", !.user = u, !.task = k,
                                    !.decision = d]
  <2>1. q \in Request /\ q.pc = "decideRead" /\ q.user = u /\ q.task = k
    BY WorkflowAssumption DEF TypeOK, Request, NoRequest, Snapshot, Pc, Due
  <2>2. req' = [req EXCEPT ![r] = q]
    BY <1>1 DEF DecideReadTask
  <2>3. tasks[k] \in Task
    BY <1>1 DEF DecideReadTask, Pending, TypeOK, NoTask
  <2> HIDE DEF q
  <2> QED BY <1>1, <2>1, <2>2, <2>3, MovedRequest DEF DecideReadTask, TypeOK
<1>2. ASSUME DecideReadInstance(r) PROVE TypeInv'
  <2> DEFINE q == [req[r] EXCEPT !.pc = "decideCommit", !.seen = Here,
                                 !.cfg = published]
  <2>1. Here \in Snapshot /\ Here.approval = approval
    BY DEF TypeOK, Here, Snapshot
  <2>2. req[r] \in Request
    BY DEF TypeOK
  <2>3. q \in Request
    BY <2>1, <2>2 DEF Request, Pc, TypeOK
  <2>4. q.pc = "decideCommit" /\ q.user = req[r].user /\ q.task = req[r].task
        /\ q.seen.approval \in Run
    BY <1>2, <2>1, <2>2 DEF Request, DecideReadInstance, Running, TypeOK
  <2>5. req' = [req EXCEPT ![r] = q]
    BY <1>2 DEF DecideReadInstance, TypeOK
  <2> HIDE DEF q
  <2> QED BY <1>2, <2>3, <2>4, <2>5, MovedRequest
          DEF DecideReadInstance, TypeOK, RequestsOK
<1>3. req[r].pc = "decideCommit" =>
        /\ t \in TaskId /\ tasks[t] \in Task
        /\ run \in Run /\ run.startedAt \in 1..MaxVersion
        /\ ActionDef[run.action].approved \in States
        /\ ActionDef[run.action].rejected \in States
        /\ req[r].user \in Users
  BY WorkflowAssumption DEF RequestsOK, Run
<1>4. ASSUME Reject(r) PROVE TypeInv'
  <2> DEFINE tk == Closed(Closed(tasks, {t}, "rejected", req[r].user),
                          Pending \ {t}, "cancelled", Nobody)
  <2>1. req[r].user \in Users /\ ActionDef[run.action].rejected \in States
    BY <1>3, <1>4 DEF Reject
  <2>2. tk \in TaskMap /\ \A k \in TaskId : tasks[k] \in Task => tk[k] \in Task
    BY <2>1, ClosedTasks
  <2>3. Without(Pending \cup {t}) \in DueMap
    BY WithoutType DEF TypeOK, DueMap
  <2>4. StartNothing(tk, Without(Pending \cup {t}))
    BY <1>4 DEF Reject
  <2> HIDE DEF tk
  <2>5. /\ tasks' \in TaskMap /\ jobs' \in DueMap /\ batches' \in 0..MaxBatches
        /\ \A k \in TaskId : tasks[k] \in Task => tasks'[k] \in Task
    BY <2>2, <2>3, <2>4, StartNothingType DEF TypeOK
  <2>6. Commit(r, ActionDef[run.action].rejected, NoRun, req[r].user, "reject")
        /\ UNCHANGED published
    BY <1>4 DEF Reject
  <2> QED BY <2>1, <2>5, <2>6, CommittedTypes
<1>5. ASSUME ApprovePart(r) PROVE TypeInv'
  <2> DEFINE tk == Closed(tasks, {t}, "approved", req[r].user)
  <2>1. req[r].user \in Users
    BY <1>3, <1>5 DEF ApprovePart
  <2>2. tk \in TaskMap /\ \A k \in TaskId : tasks[k] \in Task => tk[k] \in Task
    BY <2>1, ClosedType DEF TypeOK, TaskMap
  <2>3. Without({t}) \in DueMap
    BY WithoutType DEF TypeOK, DueMap
  <2>4. StartNothing(tk, Without({t}))
    BY <1>5 DEF ApprovePart
  <2> HIDE DEF tk
  <2>5. /\ tasks' \in TaskMap /\ jobs' \in DueMap /\ batches' \in 0..MaxBatches
        /\ \A k \in TaskId : tasks[k] \in Task => tasks'[k] \in Task
    BY <2>2, <2>3, <2>4, StartNothingType DEF TypeOK
  <2>6. Commit(r, state, approval, req[r].user, "approve")
        /\ UNCHANGED published
    BY <1>5 DEF ApprovePart
  <2>7. state \in States /\ approval \in Run \cup {NoRun}
    BY DEF TypeOK
  <2> QED BY <2>1, <2>5, <2>6, <2>7, CommittedTypes
<1>6. ASSUME ApproveNext(r) PROVE TypeInv'
  <2> DEFINE tk == Closed(Closed(tasks, {t}, "approved", req[r].user),
                          Others(r), "cancelled", Nobody)
  <2>1. req[r].user \in Users /\ run \in Run /\ run.startedAt \in 1..MaxVersion
    BY <1>3, <1>6 DEF ApproveNext
  <2>2. tk \in TaskMap /\ \A k \in TaskId : tasks[k] \in Task => tk[k] \in Task
    BY <2>1, ClosedTasks
  <2>3. Without(Others(r) \cup {t}) \in DueMap
    BY WithoutType DEF TypeOK, DueMap
  <2>4. PICK l \in Levels, who \in SUBSET Users :
          /\ Commit(r, state, [run EXCEPT !.current = l], req[r].user, "approve")
          /\ StartLevel(tk, Without(Others(r) \cup {t}), l, who, run.startedAt,
                        TRUE)
    BY <1>6, ApproversType DEF ApproveNext
  <2> HIDE DEF tk
  <2>5. /\ tasks' \in TaskMap /\ jobs' \in DueMap /\ batches' \in 0..MaxBatches
        /\ \A k \in TaskId : tasks[k] \in Task => tasks'[k] \in Task
    BY <2>1, <2>2, <2>3, <2>4, StartLevelType DEF TypeOK
  <2>6. [run EXCEPT !.current = l] \in Run
    BY <2>1 DEF Run
  <2>7. state \in States /\ UNCHANGED published
    BY <1>6 DEF TypeOK, ApproveNext
  <2> QED BY <2>1, <2>4, <2>5, <2>6, <2>7, CommittedTypes
<1>7. ASSUME ApproveLast(r) PROVE TypeInv'
  <2> DEFINE tk == Closed(Closed(tasks, {t}, "approved", req[r].user),
                          Pending \ {t}, "cancelled", Nobody)
  <2>1. req[r].user \in Users /\ ActionDef[run.action].approved \in States
    BY <1>3, <1>7 DEF ApproveLast
  <2>2. tk \in TaskMap /\ \A k \in TaskId : tasks[k] \in Task => tk[k] \in Task
    BY <2>1, ClosedTasks
  <2>3. Without(Pending \cup {t}) \in DueMap
    BY WithoutType DEF TypeOK, DueMap
  <2>4. StartNothing(tk, Without(Pending \cup {t}))
    BY <1>7 DEF ApproveLast
  <2> HIDE DEF tk
  <2>5. /\ tasks' \in TaskMap /\ jobs' \in DueMap /\ batches' \in 0..MaxBatches
        /\ \A k \in TaskId : tasks[k] \in Task => tasks'[k] \in Task
    BY <2>2, <2>3, <2>4, StartNothingType DEF TypeOK
  <2>6. Commit(r, ActionDef[run.action].approved, NoRun, req[r].user, "approve")
        /\ UNCHANGED published
    BY <1>7 DEF ApproveLast
  <2> QED BY <2>1, <2>5, <2>6, CommittedTypes
<1> QED BY <1>1, <1>2, <1>4, <1>5, <1>6, <1>7 DEF Decide

\* A worker that goes on keeps its task.
LEMMA GotoMoves ==
  ASSUME NEW r \in Requests, NEW pc \in Pc, TypeInv, Goto(r, pc),
         req[r].task \in TaskId, tasks[req[r].task] \in Task,
         pc \in {"skip", "stay", "finish"}
  PROVE  /\ req' \in [Requests -> Request]
         /\ (\A t \in TaskId : tasks[t] \in Task => tasks'[t] \in Task)
               => RequestsOK'
<1> DEFINE q == [req[r] EXCEPT !.pc = pc]
<1>1. req[r] \in Request
  BY DEF TypeInv, TypeOK
<1>2. q \in Request /\ q.pc = pc /\ q.task = req[r].task
  BY <1>1 DEF Request
<1>3. req' = [req EXCEPT ![r] = q]
  BY DEF Goto, TypeInv, TypeOK
<1> HIDE DEF q
<1>4. req' \in [Requests -> Request]
  BY <1>2, <1>3 DEF TypeInv, TypeOK
<1>5. \A s \in Requests : req'[s] = IF s = r THEN q ELSE req[s]
  BY <1>3 DEF TypeInv, TypeOK
<1>6. ASSUME \A t \in TaskId : tasks[t] \in Task => tasks'[t] \in Task
      PROVE  RequestsOK'
  BY <1>2, <1>5, <1>6 DEF TypeInv, RequestsOK
<1> QED BY <1>4, <1>6

\* A system change: with its tasks and jobs well typed, everything is.
LEMMA FreshTypes ==
  ASSUME NEW r \in Requests, TypeInv, NEW newApproval \in Run \cup {NoRun},
         CommitFresh(r, newApproval),
         req[r].task \in TaskId, tasks[req[r].task] \in Task,
         tasks' \in TaskMap, jobs' \in DueMap, batches' \in 0..MaxBatches,
         \A t \in TaskId : tasks[t] \in Task => tasks'[t] \in Task
  PROVE  TypeInv'
<1>1. req' \in [Requests -> Request] /\ RequestsOK'
  BY GotoMoves DEF CommitFresh, Pc
<1>2. version' \in 0..MaxVersion
  BY BoundsAssumption DEF CommitFresh, TypeInv, TypeOK
<1>3. lastEntry' \in Entry
  BY DEF CommitFresh, Entry, TypeInv, TypeOK, Request, Snapshot
<1> QED BY <1>1, <1>2, <1>3 DEF TypeInv, TypeOK, TaskMap, DueMap, CommitFresh

LEMMA TimerTypes ==
  ASSUME NEW r \in Requests, TypeInv, Timer(r)
  PROVE  TypeInv'
<1> USE DEF TypeInv
<1> DEFINE t == req[r].task
           l == tasks[t].level
<1>1. req[r].pc \in {"timerRead", "timerPick", "remind", "escalateTo", "skip",
                     "stay"} => t \in TaskId /\ tasks[t] \in Task /\ l \in Levels
  BY DEF RequestsOK, Task
<1>2. req[r] \in Request
  BY DEF TypeOK
<1>3. ASSUME NEW k \in TaskId, TimerStart(r, k) PROVE TypeInv'
  <2>1. tasks[k].timed \in BOOLEAN /\ jobs[k] \in Due
    <3>1. tasks[k] \in Task \/ tasks[k] = NoTask
      BY DEF TypeOK
    <3>2. jobs[k] \in Due
      BY DEF TypeOK
    <3>3. tasks[k] \in Task => tasks[k].timed \in BOOLEAN
      BY DEF Task
    <3>4. NoTask.timed \in BOOLEAN
      BY DEF NoTask
    <3> QED BY <3>1, <3>2, <3>3, <3>4
  <2> DEFINE q == [NoRequest EXCEPT
                     !.pc = IF k \in Pending THEN "timerRead" ELSE "finish",
                     !.user = System, !.task = k, !.due = jobs[k],
                     !.timed = tasks[k].timed,
                     !.reminds = tasks[k].level \in Reminds /\ ~tasks[k].reminded]
  <2>2. q \in Request /\ q.task = k
        /\ q.pc = IF k \in Pending THEN "timerRead" ELSE "finish"
    BY ZenonT(20), <2>1, WorkflowAssumption
       DEF TypeOK, Request, NoRequest, Snapshot, Pc, Due
  <2>3. k \in Pending => tasks[k] \in Task
    BY DEF Pending, TypeOK, NoTask
  <2>4. req' = [req EXCEPT ![r] = q]
    BY <1>3 DEF TimerStart
  <2> HIDE DEF q
  <2> QED BY <1>3, <2>2, <2>3, <2>4, MovedRequest DEF TimerStart, TypeOK
<1>4. ASSUME TimerReadInstance(r) PROVE TypeInv'
  <2>1. t \in TaskId /\ tasks[t] \in Task
    BY <1>1, <1>4 DEF TimerReadInstance
  <2>2. CASE Goto(r, "finish")
    BY <1>4, <2>1, <2>2, GotoMoves DEF TimerReadInstance, TypeOK, Pc
  <2>3. ASSUME NEW pc \in {"timerPick", "remind", "finish"},
               req' = [req EXCEPT ![r].pc = pc, ![r].seen = Here,
                                  ![r].cfg = published]
        PROVE  TypeInv'
    <3> DEFINE q == [req[r] EXCEPT !.pc = pc, !.seen = Here, !.cfg = published]
    <3>1. Here \in Snapshot
      BY DEF TypeOK, Here, Snapshot
    <3>2. q \in Request
      BY <1>2, <3>1 DEF Request, Pc, TypeOK
    <3>3. q.pc = pc /\ q.task = t
      BY <1>2 DEF Request
    <3>4. req' = [req EXCEPT ![r] = q]
      BY <2>3 DEF TypeOK
    <3> HIDE DEF q
    <3> QED BY <1>4, <2>1, <3>2, <3>3, <3>4, MovedRequest
            DEF TimerReadInstance, TypeOK
  <2> QED BY <1>4, <2>2, <2>3 DEF TimerReadInstance
<1>5. ASSUME Remind(r) PROVE TypeInv'
  <2>1. t \in TaskId /\ tasks[t] \in Task /\ Goto(r, "finish")
    BY <1>1, <1>5 DEF Remind
  <2>2. [tasks[t] EXCEPT !.reminded = TRUE] \in Task
    BY <2>1 DEF Task
  <2>3. /\ tasks' \in TaskMap
        /\ \A k \in TaskId : tasks[k] \in Task => tasks'[k] \in Task
    BY <1>5, <2>1, <2>2 DEF Remind, TypeOK, TaskMap
  <2>4. req' \in [Requests -> Request] /\ RequestsOK'
    BY <2>1, <2>3, GotoMoves DEF Pc
  <2>5. jobs' \in DueMap
    BY <1>5 DEF Remind, TypeOK, DueMap, Due
  <2> QED BY <1>5, <2>3, <2>4, <2>5 DEF Remind, TypeOK, TaskMap, DueMap
<1>6. ASSUME EscalateTargets(r) PROVE TypeInv'
  <2>1. t \in TaskId /\ tasks[t] \in Task /\ l \in Levels
    BY <1>1, <1>6 DEF EscalateTargets
  <2>2. PICK targets \in SUBSET Users :
          req' = [req EXCEPT ![r].targets = targets,
                             ![r].pc = IF targets = {} THEN "stay"
                                       ELSE "escalateTo"]
    <3>1. PICK S \in Escalation[l] :
            LET targets == S \ ({Requester} \cup {p[2] : p \in PendingAt(l)}) IN
            req' = [req EXCEPT ![r].targets = targets,
                               ![r].pc = IF targets = {} THEN "stay"
                                         ELSE "escalateTo"]
      BY <1>6 DEF EscalateTargets
    <3>2. S \subseteq Users
      BY <2>1, LevelAssumption
    <3>3. S \ ({Requester} \cup {p[2] : p \in PendingAt(l)}) \in SUBSET Users
      BY <3>2
    <3> QED BY <3>1, <3>3
  <2> DEFINE q == [req[r] EXCEPT !.targets = targets,
                                 !.pc = IF targets = {} THEN "stay"
                                        ELSE "escalateTo"]
  <2>3. q \in Request
    BY <1>2 DEF Request, Pc
  <2>4. /\ q.pc = IF targets = {} THEN "stay" ELSE "escalateTo"
        /\ q.task = t /\ q.targets = targets
    BY <1>2 DEF Request
  <2>5. req' = [req EXCEPT ![r] = q]
    BY <2>2 DEF TypeOK
  <2> HIDE DEF q
  <2> QED BY <1>6, <2>1, <2>3, <2>4, <2>5, MovedRequest
          DEF EscalateTargets, TypeOK
<1>7. ASSUME EscalateWithoutTargets(r) PROVE TypeInv'
  <2>1. t \in TaskId /\ tasks[t] \in Task
    BY <1>1, <1>7 DEF EscalateWithoutTargets
  <2>2. PICK pc \in {"skip", "stay"} : Goto(r, pc)
    BY <1>7 DEF EscalateWithoutTargets
  <2> QED BY <1>7, <2>1, <2>2, GotoMoves
          DEF EscalateWithoutTargets, TypeOK, Pc
<1>8. ASSUME EscalateToOthers(r) PROVE TypeInv'
  <2>1. t \in TaskId /\ tasks[t] \in Task /\ l \in Levels
        /\ tasks[t].run \in 1..MaxVersion
    BY <1>1, <1>8 DEF EscalateToOthers, Task
  <2> DEFINE tk == Closed(tasks, {t}, "escalated", System)
  <2>2. tk \in TaskMap /\ \A k \in TaskId : tasks[k] \in Task => tk[k] \in Task
    BY ClosedType DEF TypeOK, TaskMap
  <2>3. Without({t}) \in DueMap
    BY WithoutType DEF TypeOK, DueMap
  <2>4. StartLevel(tk, Without({t}), l, req[r].targets, tasks[t].run, FALSE)
    BY <1>8 DEF EscalateToOthers
  <2> HIDE DEF tk
  <2>5. /\ tasks' \in TaskMap /\ jobs' \in DueMap /\ batches' \in 0..MaxBatches
        /\ \A k \in TaskId : tasks[k] \in Task => tasks'[k] \in Task
    BY <2>1, <2>2, <2>3, <2>4, StartLevelType DEF TypeOK
  <2>6. CommitFresh(r, approval) /\ approval \in Run \cup {NoRun}
    BY <1>8 DEF EscalateToOthers, TypeOK
  <2> QED BY <2>1, <2>5, <2>6, FreshTypes
<1>9. ASSUME SkipLevel(r) PROVE TypeInv'
  <2>1. t \in TaskId /\ tasks[t] \in Task /\ l \in Levels /\ approval \in Run
        /\ approval.startedAt \in 1..MaxVersion
    BY <1>1, <1>9 DEF SkipLevel, Running, TypeOK, Run
  <2> DEFINE tk == Closed(tasks, PendingAt(l), "escalated", System)
  <2>2. tk \in TaskMap /\ \A k \in TaskId : tasks[k] \in Task => tk[k] \in Task
    BY ClosedType DEF TypeOK, TaskMap
  <2>3. Without(PendingAt(l)) \in DueMap
    BY WithoutType DEF TypeOK, DueMap
  <2>4. PICK m \in Levels, who \in SUBSET Users :
          /\ CommitFresh(r, [approval EXCEPT !.current = m])
          /\ StartLevel(tk, Without(PendingAt(l)), m, who, approval.startedAt,
                        TRUE)
    BY <1>9, ApproversType DEF SkipLevel
  <2> HIDE DEF tk
  <2>5. /\ tasks' \in TaskMap /\ jobs' \in DueMap /\ batches' \in 0..MaxBatches
        /\ \A k \in TaskId : tasks[k] \in Task => tasks'[k] \in Task
    BY <2>1, <2>2, <2>3, <2>4, StartLevelType DEF TypeOK
  <2>6. [approval EXCEPT !.current = m] \in Run
    BY <2>1 DEF Run
  <2> QED BY <2>1, <2>4, <2>5, <2>6, FreshTypes
<1>10. ASSUME SkipNothing(r) PROVE TypeInv'
  <2>1. t \in TaskId /\ tasks[t] \in Task
    BY <1>1, <1>10 DEF SkipNothing
  <2> QED BY <1>10, <2>1, GotoMoves DEF SkipNothing, TypeOK, Pc
<1>11. ASSUME Stay(r) PROVE TypeInv'
  <2>1. t \in TaskId /\ tasks[t] \in Task /\ Goto(r, "finish")
    BY <1>1, <1>11 DEF Stay
  <2>2. [tasks[t] EXCEPT !.timed = FALSE, !.reminded = TRUE] \in Task
    BY <2>1 DEF Task
  <2>3. tasks' = [tasks EXCEPT ![t] = [tasks[t] EXCEPT !.timed = FALSE,
                                                       !.reminded = TRUE]]
    BY <1>11 DEF Stay, TypeOK
  <2>4. /\ tasks' \in TaskMap
        /\ \A k \in TaskId : tasks[k] \in Task => tasks'[k] \in Task
    BY <2>1, <2>2, <2>3 DEF TypeOK, TaskMap
  <2>5. req' \in [Requests -> Request] /\ RequestsOK'
    BY <2>1, <2>4, GotoMoves DEF Pc
  <2>6. jobs' \in DueMap
    BY <1>11 DEF Stay, TypeOK, DueMap, Due
  <2> QED BY <1>11, <2>4, <2>5, <2>6 DEF Stay, TypeOK, TaskMap, DueMap
<1>12. ASSUME Finish(r) PROVE TypeInv'
  <2>1. jobs' \in [TaskId -> Due]
    BY <1>12 DEF Finish, TypeOK, Due
  <2>2. req' \in [Requests -> Request] /\ RequestsOK'
    BY <1>12, IdleRequest DEF Finish
  <2> QED BY <1>12, <2>1, <2>2 DEF Finish, TypeOK
<1> QED BY <1>3, <1>4, <1>5, <1>6, <1>7, <1>8, <1>9, <1>10, <1>11, <1>12
        DEF Timer

LEMMA RetryTypes ==
  ASSUME NEW r \in Requests, TypeInv, Retry(r)
  PROVE  TypeInv'
<1>1. req[r] \in Request
  BY DEF TypeInv, TypeOK
<1>2. UNCHANGED <<state, approval, version, lastEntry, published, tasks,
                  batches, jobs>>
  BY DEF Retry
<1>3. ASSUME NEW pc \in {"actRead", "decideRead"}, Goto(r, pc),
             req[r].pc = IF pc = "actRead" THEN "actCommit" ELSE "decideCommit"
      PROVE  TypeInv'
  <2> DEFINE q == [req[r] EXCEPT !.pc = pc]
  <2>1. q \in Request /\ q.pc = pc /\ q.task = req[r].task
        /\ q.user = req[r].user /\ q.action = req[r].action
    BY <1>1 DEF Request, Pc
  <2>2. req' = [req EXCEPT ![r] = q]
    BY <1>3 DEF Goto, TypeInv, TypeOK
  <2> HIDE DEF q
  <2> QED BY <1>2, <1>3, <2>1, <2>2, MovedRequest DEF TypeInv, TypeOK, RequestsOK
<1>4. ASSUME req' = [req EXCEPT ![r] = NoRequest] PROVE TypeInv'
  BY <1>2, <1>4, IdleRequest DEF TypeInv, TypeOK
<1> QED BY <1>3, <1>4 DEF Retry

LEMMA AbandonTypes ==
  ASSUME NEW r \in Requests, TypeInv, Abandon(r)
  PROVE  TypeInv'
<1>1. req' \in [Requests -> Request] /\ RequestsOK'
  BY IdleRequest DEF Abandon
<1>2. jobs' \in [TaskId -> Due]
  BY DEF Abandon, TypeInv, TypeOK, Backoff, Due
<1> QED BY <1>1, <1>2 DEF Abandon, TypeInv, TypeOK

LEMMA TypeInit == Init => TypeInv
<1> SUFFICES ASSUME Init PROVE TypeInv
  OBVIOUS
<1>1. NoRequest \in Request /\ NoRequest.pc = "idle"
  BY WorkflowAssumption DEF NoRequest, Request, Pc, Due, Snapshot
<1>2. lastEntry \in Entry
  BY UsersAssumption, WorkflowAssumption DEF Init, Entry
<1>3. TypeOK
  BY <1>1, <1>2, BoundsAssumption, WorkflowAssumption DEF Init, TypeOK, Due
<1>4. RequestsOK
  BY <1>1 DEF Init, RequestsOK
<1> QED BY <1>3, <1>4 DEF TypeInv

LEMMA TypeNext == TypeInv /\ [Next]_vars => TypeInv'
<1> SUFFICES ASSUME TypeInv, [Next]_vars PROVE TypeInv'
  OBVIOUS
<1>1. ASSUME NEW r \in Requests,
             Act(r) \/ Decide(r) \/ Timer(r) \/ Retry(r) \/ Abandon(r)
      PROVE  TypeInv'
  BY <1>1, ActTypes, DecideTypes, TimerTypes, RetryTypes, AbandonTypes
<1>2. CASE PublishConfig
  BY <1>2 DEF PublishConfig, TypeInv, TypeOK, RequestsOK
<1>3. CASE UNCHANGED vars
  BY <1>3 DEF vars, TypeInv, TypeOK, RequestsOK
<1> QED BY <1>1, <1>2, <1>3 DEF Next

\* The instance, the tasks, the jobs and every handler stay in their types.
THEOREM TypeCorrect == Spec => []TypeOK
<1>1. TypeInv => TypeOK
  BY DEF TypeInv
<1> QED BY TypeInit, TypeNext, <1>1, PTL DEF Spec

\* What a handler relies on when it goes on: its task exists, and a decision
\* was made on a snapshot of a running approval.
THEOREM HandlersSound == Spec => []RequestsOK
<1>1. TypeInv => RequestsOK
  BY DEF TypeInv
<1> QED BY TypeInit, TypeNext, <1>1, PTL DEF Spec

-----------------------------------------------------------------------------
(* A running approval can be decided                                         *)

\* Task ids of calls to startLevel still to come are unused.
FreshTasks == \A t \in TaskId : t[1] > batches => tasks[t] = NoTask

ApproverInv == FreshTasks /\ RunningHasApprover

\* Closing and deciding touch no unused task.
LEMMA ClosedFresh ==
  ASSUME NEW tk, NEW S, NEW status, NEW by, NEW t \in TaskId, tk[t] = NoTask
  PROVE  Closed(tk, S, status, by)[t] = NoTask
BY DEF Closed, NoTask

\* Closing leaves the tasks outside its set alone.
LEMMA ClosedOutside ==
  ASSUME NEW tk, NEW S, NEW status, NEW by, NEW t \in TaskId, t \notin S
  PROVE  Closed(tk, S, status, by)[t] = tk[t]
BY DEF Closed

\* A started level has an open task.
LEMMA StartedLevelIsOpen ==
  ASSUME NEW tk, NEW jb, NEW l, NEW who \in SUBSET Users, NEW run,
         NEW escalates, who # {}, batches \in 0..MaxBatches,
         StartLevel(tk, jb, l, who, run, escalates)
  PROVE  PendingAt(l)' # {}
<1>1. PICK u \in Users : u \in who
  OBVIOUS
<1> DEFINE t == <<batches + 1, u>>
<1>2. t \in TaskId /\ t[1] = batches + 1 /\ t[2] = u
  BY BoundsAssumption DEF StartLevel, TaskId
<1> HIDE DEF t
<1>3. tasks'[t] = NewTask(l, run, escalates)
  BY <1>1, <1>2 DEF StartLevel, IsNew
<1>4. tasks'[t].status = "pending" /\ tasks'[t].level = l
  BY <1>3 DEF NewTask
<1> QED BY <1>2, <1>4 DEF PendingAt, Pending

\* The tasks of other calls stay as they are, and later ids stay unused.
LEMMA StartLevelKeeps ==
  ASSUME NEW tk, NEW jb, NEW l, NEW who, NEW run, NEW escalates,
         batches \in 0..MaxBatches,
         StartLevel(tk, jb, l, who, run, escalates)
  PROVE  /\ \A t \in TaskId : t[1] <= batches => tasks'[t] = tk[t]
         /\ (\A t \in TaskId : t[1] > batches => tk[t] = NoTask)
              => FreshTasks'
<1>1. \A t \in TaskId : t[1] \in 1..MaxBatches
  BY DEF TaskId
<1>2. \A t \in TaskId : t[1] # batches + 1 => tasks'[t] = tk[t]
  BY DEF StartLevel, IsNew
<1>3. batches' = batches + 1
  BY DEF StartLevel
<1>4. ASSUME NEW t \in TaskId, t[1] <= batches PROVE tasks'[t] = tk[t]
  BY <1>1, <1>2, <1>4
<1>5. ASSUME \A t \in TaskId : t[1] > batches => tk[t] = NoTask,
             NEW t \in TaskId, t[1] > batches'
      PROVE  tasks'[t] = NoTask
  <2>1. t[1] > batches /\ t[1] # batches + 1
    BY <1>1, <1>3, <1>5
  <2> QED BY <1>2, <1>5, <2>1
<1> QED BY <1>4, <1>5 DEF FreshTasks

\* Every step keeps both: a step either leaves the approval and the level of
\* every task alone, ends the approval, or starts a level of the approval.
LEMMA ApproverNext ==
  ASSUME TypeInv, ApproverInv, [Next]_vars
  PROVE  ApproverInv'
<1> USE DEF TypeInv, ApproverInv
<1>0. batches \in 0..MaxBatches /\ \A t \in TaskId : t[1] \in 1..MaxBatches
  BY DEF TypeOK, TaskId
<1>1. ASSUME UNCHANGED <<approval, tasks, batches>> PROVE ApproverInv'
  BY <1>1 DEF FreshTasks, RunningHasApprover, Running, PendingAt, Pending
<1>2. ASSUME NEW tk, NEW jb, StartNothing(tk, jb), approval' = NoRun,
             \A t \in TaskId : tasks[t] = NoTask => tk[t] = NoTask
      PROVE  ApproverInv'
  BY <1>2 DEF StartNothing, FreshTasks, RunningHasApprover, Running
<1>3. ASSUME NEW tk, NEW jb, NEW l \in Levels, NEW who \in SUBSET Users,
             NEW run, NEW escalates, who # {},
             StartLevel(tk, jb, l, who, run, escalates), approval'.current = l,
             \A t \in TaskId : tasks[t] = NoTask => tk[t] = NoTask
      PROVE  ApproverInv'
  <2>1. PendingAt(l)' # {}
    BY <1>0, <1>3, StartedLevelIsOpen
  <2>2. FreshTasks'
    BY <1>0, <1>3, StartLevelKeeps DEF FreshTasks
  <2> QED BY <1>3, <2>1, <2>2
          DEF RunningHasApprover, PendingAt, Pending
<1>4. ASSUME NEW t \in TaskId, tasks[t] \in Task, tasks'[t].status = tasks[t].status,
             tasks'[t].level = tasks[t].level,
             \A k \in TaskId : k # t => tasks'[k] = tasks[k],
             UNCHANGED <<approval, batches>>
      PROVE  ApproverInv'
  <2>1. tasks[t] # NoTask
    BY <1>4 DEF Task, NoTask
  <2> QED BY <1>4, <2>1
          DEF FreshTasks, RunningHasApprover, Running, PendingAt, Pending
<1>5. ASSUME NEW r \in Requests, Act(r) PROVE ApproverInv'
  <2>1. ASSUME ActMove(r) PROVE ApproverInv'
    <3> DEFINE tk == Closed(tasks, ActWithdraws(r), "cancelled", Nobody)
    <3>1. StartNothing(tk, Without(ActWithdraws(r))) /\ approval' = NoRun
      BY <2>1 DEF ActMove, Commit
    <3>2. \A t \in TaskId : tasks[t] = NoTask => tk[t] = NoTask
      BY ClosedFresh
    <3> HIDE DEF tk
    <3> QED BY <1>2, <3>1, <3>2
  <2>2. ASSUME ActSubmit(r) PROVE ApproverInv'
    <3> DEFINE tk == Closed(tasks, ActWithdraws(r), "cancelled", Nobody)
    <3>1. PICK L \in SUBSET req[r].cfg, l \in Levels :
            \E who \in Approvers(l) :
              /\ Commit(r, ActionDef[req[r].action].to,
                        [startedAt |-> version + 1, action |-> req[r].action,
                         levels |-> L, current |-> l],
                        req[r].user, req[r].action)
              /\ StartLevel(tk, Without(ActWithdraws(r)), l, who, version + 1,
                            TRUE)
      BY <2>2 DEF ActSubmit
    <3>3. PICK who \in Approvers(l) :
            /\ Commit(r, ActionDef[req[r].action].to,
                      [startedAt |-> version + 1, action |-> req[r].action,
                       levels |-> L, current |-> l],
                      req[r].user, req[r].action)
            /\ StartLevel(tk, Without(ActWithdraws(r)), l, who, version + 1,
                          TRUE)
      BY <3>1
    <3>4. who \in SUBSET Users /\ who # {}
      BY ApproversType
    <3>5. approval'.current = l
      BY <3>3 DEF Commit
    <3>2. \A t \in TaskId : tasks[t] = NoTask => tk[t] = NoTask
      BY ClosedFresh
    <3> HIDE DEF tk
    <3> QED BY <1>3, <3>2, <3>3, <3>4, <3>5
  <2> QED BY <1>1, <1>5, <2>1, <2>2 DEF Act, ActStart, ActRead
<1>6. ASSUME NEW r \in Requests, Decide(r) PROVE ApproverInv'
  <2> DEFINE t == req[r].task
             by == req[r].user
             run == req[r].seen.approval
  <2>1. req[r].pc = "decideCommit" => t \in TaskId /\ run \in Run
    BY DEF RequestsOK
  <2>2. \A S, S2, status, k :
          k \in TaskId /\ tasks[k] = NoTask =>
          Closed(Closed(tasks, S, status, by), S2, "cancelled", Nobody)[k] = NoTask
    BY ClosedFresh
  <2>3. ASSUME Reject(r) PROVE ApproverInv'
    <3> DEFINE tk == Closed(Closed(tasks, {t}, "rejected", by), Pending \ {t},
                            "cancelled", Nobody)
    <3>1. StartNothing(tk, Without(Pending \cup {t})) /\ approval' = NoRun
      BY <2>3 DEF Reject, Commit
    <3>2. \A k \in TaskId : tasks[k] = NoTask => tk[k] = NoTask
      BY <2>2
    <3> HIDE DEF tk
    <3> QED BY <1>2, <3>1, <3>2
  <2>4. ASSUME ApproveLast(r) PROVE ApproverInv'
    <3> DEFINE tk == Closed(Closed(tasks, {t}, "approved", by), Pending \ {t},
                            "cancelled", Nobody)
    <3>1. StartNothing(tk, Without(Pending \cup {t})) /\ approval' = NoRun
      BY <2>4 DEF ApproveLast, Commit
    <3>2. \A k \in TaskId : tasks[k] = NoTask => tk[k] = NoTask
      BY <2>2
    <3> HIDE DEF tk
    <3> QED BY <1>2, <3>1, <3>2
  <2>5. ASSUME ApproveNext(r) PROVE ApproverInv'
    <3> DEFINE tk == Closed(Closed(tasks, {t}, "approved", by), Others(r),
                            "cancelled", Nobody)
    <3>1. run \in Run
      BY <2>1, <2>5 DEF ApproveNext
    <3>2. PICK l \in Levels, who \in SUBSET Users :
            /\ who # {}
            /\ StartLevel(tk, Without(Others(r) \cup {t}), l, who, run.startedAt,
                          TRUE)
            /\ approval' = [run EXCEPT !.current = l]
      BY <2>5, ApproversType DEF ApproveNext, Commit
    <3>3. approval'.current = l
      BY <3>1, <3>2 DEF Run
    <3>4. \A k \in TaskId : tasks[k] = NoTask => tk[k] = NoTask
      BY <2>2
    <3> HIDE DEF tk
    <3> QED BY <1>3, <3>2, <3>3, <3>4
  <2>6. ASSUME ApprovePart(r) PROVE ApproverInv'
    <3> DEFINE tk == Closed(tasks, {t}, "approved", by)
    <3>1. t \in TaskId /\ tasks' = tk /\ UNCHANGED <<approval, batches>>
      BY <2>1, <2>6 DEF ApprovePart, Commit, StartNothing
    <3>2. \A k \in TaskId : k # t => tasks'[k] = tasks[k]
      BY <3>1, ClosedOutside
    <3>3. FreshTasks'
      BY <3>1, ClosedFresh DEF FreshTasks
    <3>4. PICK o \in PendingAt(tasks[t].level) : o # t
      BY <2>6 DEF ApprovePart, LevelDone, Others
    <3>5. ASSUME Running PROVE PendingAt(approval.current)' # {}
      <4>1. PICK w \in PendingAt(approval.current) : w # t
        BY <3>4, <3>5 DEF RunningHasApprover, PendingAt
      <4> QED BY <3>1, <3>2, <4>1 DEF PendingAt, Pending
    <3> QED BY <3>1, <3>3, <3>5 DEF RunningHasApprover, Running
  <2> QED BY <1>1, <1>6, <2>3, <2>4, <2>5, <2>6
          DEF Decide, DecideReadTask, DecideReadInstance
<1>7. ASSUME NEW r \in Requests, Timer(r) PROVE ApproverInv'
  <2> DEFINE t == req[r].task
             l == tasks[t].level
  <2>1. req[r].pc \in {"timerPick", "remind", "escalateTo", "skip", "stay"}
          => t \in TaskId /\ tasks[t] \in Task /\ l \in Levels
    BY DEF RequestsOK, Task
  <2>2. ASSUME Remind(r) PROVE ApproverInv'
    <3>1. t \in TaskId /\ tasks[t] \in Task
      BY <2>1, <2>2 DEF Remind
    <3>2. tasks' = [tasks EXCEPT ![t] = [tasks[t] EXCEPT !.reminded = TRUE]]
      BY <2>2 DEF Remind
    <3>3. /\ tasks'[t].status = tasks[t].status
          /\ tasks'[t].level = tasks[t].level
          /\ \A k \in TaskId : k # t => tasks'[k] = tasks[k]
      BY <3>1, <3>2 DEF TypeOK, Task
    <3> QED BY <1>4, <2>2, <3>1, <3>3 DEF Remind
  <2>3. ASSUME Stay(r) PROVE ApproverInv'
    <3>1. t \in TaskId /\ tasks[t] \in Task
      BY <2>1, <2>3 DEF Stay
    <3>2. tasks' = [tasks EXCEPT ![t] = [tasks[t] EXCEPT !.timed = FALSE,
                                                         !.reminded = TRUE]]
      BY <2>3 DEF Stay, TypeOK
    <3>3. /\ tasks'[t].status = tasks[t].status
          /\ tasks'[t].level = tasks[t].level
          /\ \A k \in TaskId : k # t => tasks'[k] = tasks[k]
      BY <3>1, <3>2 DEF TypeOK, Task
    <3> QED BY <1>4, <2>3, <3>1, <3>3 DEF Stay
  <2>4. ASSUME EscalateToOthers(r) PROVE ApproverInv'
    <3> DEFINE tk == Closed(tasks, {t}, "escalated", System)
    <3>1. t \in TaskId /\ l \in Levels /\ req[r].targets \in SUBSET Users
          /\ req[r].targets # {}
      BY <2>1, <2>4 DEF EscalateToOthers, RequestsOK, TypeOK, Request
    <3>2. StartLevel(tk, Without({t}), l, req[r].targets, tasks[t].run, FALSE)
          /\ approval' = approval
      BY <2>4 DEF EscalateToOthers, CommitFresh
    <3>3. \A k \in TaskId : tasks[k] = NoTask => tk[k] = NoTask
      BY ClosedFresh
    <3>4. \A k \in TaskId : k # t => tk[k] = tasks[k]
      BY ClosedOutside
    <3> HIDE DEF tk
    <3>5. CASE approval.current = l
      BY <1>3, <3>1, <3>2, <3>3, <3>5
    <3>6. CASE approval.current # l
      <4>1. FreshTasks'
        BY <1>0, <3>2, <3>3, StartLevelKeeps DEF FreshTasks
      <4>2. \A k \in TaskId : k[1] <= batches => tasks'[k] = tk[k]
        BY <1>0, <3>2, StartLevelKeeps
      <4>3. ASSUME Running PROVE PendingAt(approval.current)' # {}
        <5>1. PICK w \in TaskId : /\ tasks[w].status = "pending"
                                  /\ tasks[w].level = approval.current
          BY <4>3 DEF RunningHasApprover, PendingAt, Pending
        <5>2. w # t
          BY <3>6, <5>1
        <5>3. w[1] <= batches
          BY <1>0, <5>1 DEF FreshTasks, NoTask
        <5>4. tasks'[w] = tasks[w]
          BY <3>4, <4>2, <5>2, <5>3
        <5> QED BY <3>2, <5>1, <5>4 DEF PendingAt, Pending
      <4> QED BY <3>2, <4>1, <4>3 DEF RunningHasApprover, Running
    <3> QED BY <3>5, <3>6
  <2>5. ASSUME SkipLevel(r) PROVE ApproverInv'
    <3> DEFINE tk == Closed(tasks, PendingAt(l), "escalated", System)
    <3>1. approval \in Run
      BY <2>5 DEF SkipLevel, Running, TypeOK
    <3>2. PICK m \in Levels, who \in SUBSET Users :
            /\ who # {}
            /\ StartLevel(tk, Without(PendingAt(l)), m, who, approval.startedAt,
                          TRUE)
            /\ approval' = [approval EXCEPT !.current = m]
      BY <2>5, ApproversType DEF SkipLevel, CommitFresh
    <3>3. approval'.current = m
      BY <3>1, <3>2 DEF Run
    <3>4. \A k \in TaskId : tasks[k] = NoTask => tk[k] = NoTask
      BY ClosedFresh
    <3> HIDE DEF tk
    <3> QED BY <1>3, <3>2, <3>3, <3>4
  <2> QED BY <1>1, <1>7, <2>2, <2>3, <2>4, <2>5
          DEF Timer, TimerStart, TimerReadInstance, EscalateTargets,
              EscalateWithoutTargets, SkipNothing, Finish
<1>8. ASSUME NEW r \in Requests, Retry(r) \/ Abandon(r) PROVE ApproverInv'
  BY <1>1, <1>8 DEF Retry, Abandon
<1>9. CASE PublishConfig \/ UNCHANGED vars
  BY <1>1, <1>9 DEF PublishConfig, vars
<1> QED BY <1>5, <1>6, <1>7, <1>8, <1>9 DEF Next

\* Whatever decisions, withdrawals, escalations, failures and configuration
\* changes overlap: while an approval runs, its level has an open task.
THEOREM ApprovalCanBeDecided == Spec => []RunningHasApprover
<1>1. Init => ApproverInv
  BY DEF Init, ApproverInv, FreshTasks, RunningHasApprover, Running
<1>2. TypeInv /\ ApproverInv /\ [Next]_vars => ApproverInv'
  BY ApproverNext
<1>3. ApproverInv => RunningHasApprover
  BY DEF ApproverInv
<1> QED BY TypeInit, TypeNext, <1>1, <1>2, <1>3, PTL DEF Spec

-----------------------------------------------------------------------------
(* Answers                                                                   *)

\* The requester neither decides nor is somebody's replacement.
NotRequester ==
  \A r \in Requests :
    /\ req[r].pc \in {"decideRead", "decideCommit"} => req[r].user # Requester
    /\ req[r].pc = "escalateTo" => Requester \notin req[r].targets

AnswersInv == FreshTasks /\ NotRequester /\ NoSelfApproval

\* Task t of the map tk is as it is, or was open and is answered.
KeptOrAnswered(tk, t) ==
  \/ tk[t] = tasks[t]
  \/ tasks[t].status = "pending" /\ tk[t].by # Requester

\* What a step may do to the task t.
TaskStep(t) ==
  \/ tasks'[t].status = tasks[t].status /\ tasks'[t].by = tasks[t].by
  \/ tasks[t].status = "pending" /\ tasks'[t].by # Requester
  \/ /\ tasks[t].status = "none"
     /\ t[2] # Requester /\ tasks'[t].by # Requester

\* Closing is one of them.
LEMMA ClosedAnswers ==
  ASSUME NEW tk \in TaskMap, NEW S,
         NEW status \in {"approved", "rejected", "cancelled", "escalated"},
         NEW by \in Users \cup {System, Nobody}, by # Requester,
         \A t \in TaskId : KeptOrAnswered(tk, t)
  PROVE  \A t \in TaskId : KeptOrAnswered(Closed(tk, S, status, by), t)
<1> DEFINE tk2 == Closed(tk, S, status, by)
<1>1. ASSUME NEW t \in TaskId, t \in S, tk[t].status = "pending"
      PROVE  tasks[t].status = "pending" /\ tk2[t].by # Requester
  <2>1. tk[t] \in Task
    BY <1>1 DEF TaskMap, NoTask
  <2>2. tk2[t] = [tk[t] EXCEPT !.status = status, !.by = by]
    BY <1>1 DEF Closed
  <2>3. tk2[t].by = by
    BY <2>1, <2>2 DEF Task
  <2> QED BY <1>1, <2>3 DEF KeptOrAnswered
<1>2. ASSUME NEW t \in TaskId, ~(t \in S /\ tk[t].status = "pending")
      PROVE  tk2[t] = tk[t]
  BY <1>2 DEF Closed
<1> HIDE DEF tk2
<1>3. \A t \in TaskId : KeptOrAnswered(tk2, t)
  BY <1>1, <1>2 DEF KeptOrAnswered
<1> QED BY <1>3 DEF tk2

\* The tasks of a decision: its own is answered, others are withdrawn.
LEMMA DecisionAnswers ==
  ASSUME TypeInv, NEW S, NEW S2, NEW by \in Users \cup {System, Nobody},
         NEW status \in {"approved", "rejected", "cancelled", "escalated"},
         by # Requester
  PROVE  /\ \A t \in TaskId :
              KeptOrAnswered(Closed(tasks, S, status, by), t)
         /\ \A t \in TaskId :
              KeptOrAnswered(Closed(Closed(tasks, S, status, by), S2,
                                    "cancelled", Nobody), t)
<1> DEFINE tk == Closed(tasks, S, status, by)
<1>1. tasks \in TaskMap /\ \A t \in TaskId : KeptOrAnswered(tasks, t)
  BY DEF TypeInv, TypeOK, TaskMap, KeptOrAnswered
<1>2. tk \in TaskMap
  BY <1>1, ClosedType
<1>3. \A t \in TaskId : KeptOrAnswered(tk, t)
  BY <1>1, ClosedAnswers
<1> HIDE DEF tk
<1>4. Nobody # Requester /\ Nobody \in Users \cup {System, Nobody}
  BY UsersAssumption
<1>5. \A t \in TaskId : KeptOrAnswered(Closed(tk, S2, "cancelled", Nobody), t)
  BY <1>2, <1>3, <1>4, ClosedAnswers
<1> QED BY <1>3, <1>5 DEF tk

\* A started level opens tasks that were unused, none of them the requester's.
LEMMA StartedAnswers ==
  ASSUME NEW tk, NEW jb, NEW l, NEW who, NEW run, NEW escalates,
         batches \in 0..MaxBatches, FreshTasks, Requester \notin who,
         \A t \in TaskId : KeptOrAnswered(tk, t),
         StartLevel(tk, jb, l, who, run, escalates)
  PROVE  \A t \in TaskId : TaskStep(t)
<1> SUFFICES ASSUME NEW t \in TaskId PROVE TaskStep(t)
  OBVIOUS
<1>1. CASE IsNew(t, who)
  <2>1. t[1] = batches + 1 /\ t[2] # Requester
    BY <1>1 DEF IsNew
  <2>2. tasks[t] = NoTask
    BY <2>1 DEF FreshTasks
  <2>3. tasks'[t] = NewTask(l, run, escalates)
    BY <1>1 DEF StartLevel
  <2>4. tasks'[t].by # Requester
    BY <2>3, UsersAssumption DEF NewTask
  <2> QED BY <2>1, <2>2, <2>4 DEF TaskStep, NoTask
<1>2. CASE ~IsNew(t, who)
  BY <1>2 DEF StartLevel, KeptOrAnswered, TaskStep
<1> QED BY <1>1, <1>2

\* The same when no level is started.
LEMMA NothingAnswers ==
  ASSUME NEW tk, NEW jb, \A t \in TaskId : KeptOrAnswered(tk, t),
         StartNothing(tk, jb)
  PROVE  \A t \in TaskId : TaskStep(t)
BY DEF StartNothing, KeptOrAnswered, TaskStep

\* Every step leaves each answer alone, answers open tasks, or opens unused
\* ones.
LEMMA TaskSteps ==
  ASSUME TypeInv, AnswersInv, [Next]_vars
  PROVE  \A t \in TaskId : TaskStep(t)
<1> USE DEF TypeInv, AnswersInv
<1>1. ASSUME UNCHANGED tasks PROVE \A t \in TaskId : TaskStep(t)
  BY <1>1 DEF TaskStep
<1>2. System # Requester /\ Nobody # Requester
  BY UsersAssumption
<1>3. batches \in 0..MaxBatches
  BY DEF TypeOK
<1>4. ASSUME NEW r \in Requests, ActMove(r)
      PROVE  \A t \in TaskId : TaskStep(t)
  BY <1>2, <1>4, DecisionAnswers, NothingAnswers DEF ActMove
<1>5. ASSUME NEW r \in Requests, ActSubmit(r)
      PROVE  \A t \in TaskId : TaskStep(t)
  <2> DEFINE tk == Closed(tasks, ActWithdraws(r), "cancelled", Nobody)
  <2>1. PICK l \in Levels : \E who \in Approvers(l) :
          StartLevel(tk, Without(ActWithdraws(r)), l, who, version + 1, TRUE)
    BY <1>5 DEF ActSubmit
  <2>2. PICK who \in Approvers(l) :
          StartLevel(tk, Without(ActWithdraws(r)), l, who, version + 1, TRUE)
    BY <2>1
  <2>3. \A t \in TaskId : KeptOrAnswered(tk, t)
    BY <1>2, DecisionAnswers
  <2>4. Requester \notin who
    BY ApproversType
  <2> HIDE DEF tk
  <2> QED BY <1>3, <2>2, <2>3, <2>4, StartedAnswers
<1>6. ASSUME NEW r \in Requests, req[r].pc = "decideCommit"
      PROVE  req[r].user \in Users /\ req[r].user # Requester
  BY <1>6 DEF RequestsOK, NotRequester
<1>7. ASSUME NEW r \in Requests, Reject(r) \/ ApprovePart(r) \/ ApproveLast(r)
      PROVE  \A t \in TaskId : TaskStep(t)
  <2>1. req[r].user \in Users /\ req[r].user # Requester
    BY <1>6, <1>7 DEF Reject, ApprovePart, ApproveLast
  <2>2. CASE Reject(r)
    BY <2>1, <2>2, DecisionAnswers, NothingAnswers DEF Reject
  <2>3. CASE ApprovePart(r)
    BY <2>1, <2>3, DecisionAnswers, NothingAnswers DEF ApprovePart
  <2>4. CASE ApproveLast(r)
    BY <2>1, <2>4, DecisionAnswers, NothingAnswers DEF ApproveLast
  <2> QED BY <1>7, <2>2, <2>3, <2>4
<1>8. ASSUME NEW r \in Requests, ApproveNext(r)
      PROVE  \A t \in TaskId : TaskStep(t)
  <2> DEFINE t  == req[r].task
             tk == Closed(Closed(tasks, {t}, "approved", req[r].user),
                          Others(r), "cancelled", Nobody)
  <2>1. req[r].user \in Users /\ req[r].user # Requester
    BY <1>6, <1>8 DEF ApproveNext
  <2>2. PICK l, who, run :
          /\ l \in Levels /\ who \in Approvers(l)
          /\ StartLevel(tk, Without(Others(r) \cup {t}), l, who, run, TRUE)
    BY <1>8 DEF ApproveNext
  <2>3. Requester \notin who
    BY <2>2, ApproversType
  <2>4. \A k \in TaskId : KeptOrAnswered(tk, k)
    BY <2>1, DecisionAnswers
  <2> HIDE DEF tk
  <2> QED BY <1>3, <2>2, <2>3, <2>4, StartedAnswers
<1>9. ASSUME NEW r \in Requests, EscalateToOthers(r)
      PROVE  \A t \in TaskId : TaskStep(t)
  <2> DEFINE t  == req[r].task
             tk == Closed(tasks, {t}, "escalated", System)
  <2>1. StartLevel(tk, Without({t}), tasks[t].level, req[r].targets,
                   tasks[t].run, FALSE)
    BY <1>9 DEF EscalateToOthers
  <2>2. Requester \notin req[r].targets
    BY <1>9 DEF EscalateToOthers, NotRequester
  <2>3. \A k \in TaskId : KeptOrAnswered(tk, k)
    BY <1>2, DecisionAnswers
  <2> HIDE DEF tk
  <2> QED BY <1>3, <2>1, <2>2, <2>3, StartedAnswers
<1>10. ASSUME NEW r \in Requests, SkipLevel(r)
       PROVE  \A t \in TaskId : TaskStep(t)
  <2> DEFINE l  == tasks[req[r].task].level
             tk == Closed(tasks, PendingAt(l), "escalated", System)
  <2>1. PICK m, who, run :
          /\ m \in Levels /\ who \in Approvers(m)
          /\ StartLevel(tk, Without(PendingAt(l)), m, who, run, TRUE)
    BY <1>10 DEF SkipLevel
  <2>2. Requester \notin who
    BY <2>1, ApproversType
  <2>3. \A k \in TaskId : KeptOrAnswered(tk, k)
    BY <1>2, DecisionAnswers
  <2> HIDE DEF tk
  <2> QED BY <1>3, <2>1, <2>2, <2>3, StartedAnswers
<1>11. ASSUME NEW r \in Requests, Remind(r) \/ Stay(r)
       PROVE  \A t \in TaskId : TaskStep(t)
  <2> DEFINE t == req[r].task
  <2>1. t \in TaskId /\ tasks[t] \in Task
    BY <1>11 DEF Remind, Stay, RequestsOK
  <2>2. PICK new \in {[tasks[t] EXCEPT !.reminded = TRUE],
                      [tasks[t] EXCEPT !.timed = FALSE, !.reminded = TRUE]} :
          tasks' = [tasks EXCEPT ![t] = new]
    BY ZenonT(20), <1>11 DEF Remind, Stay, TypeOK
  <2>3. /\ tasks'[t].status = tasks[t].status /\ tasks'[t].by = tasks[t].by
        /\ \A k \in TaskId : k # t => tasks'[k] = tasks[k]
    <3>1. new.status = tasks[t].status /\ new.by = tasks[t].by
      BY <2>1 DEF Task
    <3>2. tasks'[t] = new /\ \A k \in TaskId : k # t => tasks'[k] = tasks[k]
      BY <2>1, <2>2 DEF TypeOK
    <3> QED BY <3>1, <3>2
  <2>4. TaskStep(t)
    BY <2>3 DEF TaskStep
  <2>5. ASSUME NEW k \in TaskId, k # t PROVE TaskStep(k)
    <3>1. tasks'[k] = tasks[k]
      BY <2>3, <2>5
    <3> QED BY <3>1 DEF TaskStep
  <2> QED BY <2>4, <2>5
<1>12. ASSUME NEW r \in Requests, Timer(r)
       PROVE  \A t \in TaskId : TaskStep(t)
  BY <1>1, <1>9, <1>10, <1>11, <1>12
     DEF Timer, TimerStart, TimerReadInstance, EscalateTargets,
         EscalateWithoutTargets, SkipNothing, Finish
<1>13. ASSUME NEW r \in Requests, Act(r) \/ Decide(r)
       PROVE  \A t \in TaskId : TaskStep(t)
  BY <1>1, <1>4, <1>5, <1>7, <1>8, <1>13
     DEF Act, ActStart, ActRead, Decide, DecideReadTask, DecideReadInstance
<1>14. ASSUME NEW r \in Requests, Retry(r) \/ Abandon(r)
       PROVE  \A t \in TaskId : TaskStep(t)
  BY <1>1, <1>14 DEF Retry, Abandon
<1>15. CASE PublishConfig \/ UNCHANGED vars
  BY <1>1, <1>15 DEF PublishConfig, vars
<1> QED BY <1>12, <1>13, <1>14, <1>15 DEF Next

\* A step that changes one request only: what is to be shown about it.
LEMMA OneRequest ==
  ASSUME NEW r \in Requests, TypeInv, NotRequester,
         \A s \in Requests : s # r => req'[s] = req[s],
         req'[r].pc \in {"decideRead", "decideCommit"} =>
           req'[r].user # Requester,
         req'[r].pc = "escalateTo" => Requester \notin req'[r].targets
  PROVE  NotRequester'
BY DEF NotRequester

\* The requester never starts a decision, and is no target.
LEMMA NotRequesterNext ==
  ASSUME TypeInv, NotRequester, [Next]_vars
  PROVE  NotRequester'
<1> USE DEF TypeInv
<1>0. req \in [Requests -> Request]
  BY DEF TypeOK
<1>1. ASSUME NEW r \in Requests, req' = [req EXCEPT ![r] = NoRequest]
      PROVE  NotRequester'
  <2>1. req'[r].pc = "idle" /\ \A s \in Requests : s # r => req'[s] = req[s]
    BY <1>0, <1>1 DEF NoRequest
  <2> QED BY <2>1, OneRequest
<1>2. ASSUME NEW r \in Requests, NEW pc, Goto(r, pc),
             pc \notin {"decideRead", "decideCommit", "escalateTo"}
      PROVE  NotRequester'
  <2>1. req'[r].pc = pc /\ \A s \in Requests : s # r => req'[s] = req[s]
    BY <1>0, <1>2 DEF Goto, Request
  <2> QED BY <1>2, <2>1, OneRequest
<1>3. ASSUME NEW r \in Requests, NEW u \in Users \cup {System}, NEW a,
             ActStart(r, u, a)
      PROVE  NotRequester'
  <2>1. req'[r].pc = "actRead" /\ \A s \in Requests : s # r => req'[s] = req[s]
    BY <1>0, <1>3 DEF ActStart, NoRequest
  <2> QED BY <2>1, OneRequest
<1>4. ASSUME NEW r \in Requests, ActRead(r) PROVE NotRequester'
  <2>1. req'[r].pc = "actCommit"
        /\ \A s \in Requests : s # r => req'[s] = req[s]
    BY <1>0, <1>4 DEF ActRead, Request
  <2> QED BY <2>1, OneRequest
<1>5. ASSUME NEW r \in Requests,
             \/ ActMove(r) \/ ActSubmit(r)
             \/ Reject(r) \/ ApprovePart(r) \/ ApproveNext(r) \/ ApproveLast(r)
             \/ Finish(r) \/ Abandon(r)
      PROVE  NotRequester'
  <2>1. req' = [req EXCEPT ![r] = NoRequest]
    BY <1>5 DEF ActMove, ActSubmit, Reject, ApprovePart, ApproveNext,
                ApproveLast, Finish, Abandon, Commit
  <2> QED BY <1>1, <2>1
<1>6. ASSUME NEW r \in Requests, NEW u \in Users, NEW t \in TaskId, NEW d,
             DecideReadTask(r, u, t, d)
      PROVE  NotRequester'
  <2>1. /\ req'[r].pc = "decideRead" /\ req'[r].user = u
        /\ \A s \in Requests : s # r => req'[s] = req[s]
    BY <1>0, <1>6 DEF DecideReadTask, NoRequest
  <2>2. u # Requester
    BY <1>6 DEF DecideReadTask
  <2> QED BY <2>1, <2>2, OneRequest
<1>7. ASSUME NEW r \in Requests, DecideReadInstance(r) PROVE NotRequester'
  <2>1. /\ req'[r].pc = "decideCommit" /\ req'[r].user = req[r].user
        /\ \A s \in Requests : s # r => req'[s] = req[s]
    BY <1>0, <1>7 DEF DecideReadInstance, Request
  <2>2. req[r].user # Requester
    BY <1>7 DEF DecideReadInstance, NotRequester
  <2> QED BY <2>1, <2>2, OneRequest
<1>8. ASSUME NEW r \in Requests, NEW t \in TaskId, TimerStart(r, t)
      PROVE  NotRequester'
  <2>1. /\ req'[r].pc \in {"timerRead", "finish"}
        /\ \A s \in Requests : s # r => req'[s] = req[s]
    BY <1>0, <1>8 DEF TimerStart, NoRequest
  <2> QED BY <2>1, OneRequest
<1>9. ASSUME NEW r \in Requests, TimerReadInstance(r) PROVE NotRequester'
  <2>1. CASE Goto(r, "finish")
    BY <1>2, <2>1
  <2>2. ASSUME NEW pc \in {"timerPick", "remind", "finish"},
               req' = [req EXCEPT ![r].pc = pc, ![r].seen = Here,
                                  ![r].cfg = published]
        PROVE  NotRequester'
    <3>1. req'[r].pc = pc /\ \A s \in Requests : s # r => req'[s] = req[s]
      BY <1>0, <2>2 DEF Request
    <3> QED BY <2>2, <3>1, OneRequest
  <2> QED BY <1>9, <2>1, <2>2 DEF TimerReadInstance
<1>10. ASSUME NEW r \in Requests, EscalateTargets(r) PROVE NotRequester'
  <2> DEFINE l == tasks[req[r].task].level
  <2>1. PICK S : LET targets == S \ ({Requester} \cup {p[2] : p \in PendingAt(l)})
                 IN  req' = [req EXCEPT ![r].targets = targets,
                                        ![r].pc = IF targets = {} THEN "stay"
                                                  ELSE "escalateTo"]
    BY <1>10 DEF EscalateTargets
  <2> DEFINE T  == S \ ({Requester} \cup {p[2] : p \in PendingAt(l)})
             pc == IF T = {} THEN "stay" ELSE "escalateTo"
  <2>2. req' = [req EXCEPT ![r].targets = T, ![r].pc = pc]
    BY <2>1
  <2>3. Requester \notin T /\ pc \in {"stay", "escalateTo"}
    OBVIOUS
  <2> HIDE DEF T, pc
  <2>4. /\ req'[r].pc = pc /\ req'[r].targets = T
        /\ \A s \in Requests : s # r => req'[s] = req[s]
    BY <1>0, <2>2 DEF Request
  <2> QED BY <2>3, <2>4, OneRequest
<1>11. ASSUME NEW r \in Requests,
              \/ Remind(r) \/ EscalateWithoutTargets(r) \/ EscalateToOthers(r)
              \/ SkipLevel(r) \/ SkipNothing(r) \/ Stay(r)
       PROVE  NotRequester'
  <2>1. \E pc \in {"finish", "skip", "stay"} : Goto(r, pc)
    BY <1>11 DEF Remind, EscalateWithoutTargets, EscalateToOthers, SkipLevel,
                 SkipNothing, Stay, CommitFresh
  <2> QED BY <1>2, <2>1
<1>12. ASSUME NEW r \in Requests, Retry(r) PROVE NotRequester'
  <2>1. CASE req[r].pc = "actCommit" /\ Goto(r, "actRead")
    BY <1>2, <2>1
  <2>2. CASE req[r].pc = "decideCommit" /\ Goto(r, "decideRead")
    <3>1. /\ req'[r].pc = "decideRead" /\ req'[r].user = req[r].user
          /\ \A s \in Requests : s # r => req'[s] = req[s]
      BY <1>0, <2>2 DEF Goto, Request
    <3>2. req[r].user # Requester
      BY <2>2 DEF NotRequester
    <3> QED BY <3>1, <3>2, OneRequest
  <2>3. CASE req' = [req EXCEPT ![r] = NoRequest]
    BY <1>1, <2>3
  <2> QED BY <1>12, <2>1, <2>2, <2>3 DEF Retry
<1>13. CASE PublishConfig \/ UNCHANGED vars
  BY <1>13 DEF PublishConfig, vars, NotRequester
<1>14. ASSUME NEW r \in Requests, Act(r) \/ Decide(r) PROVE NotRequester'
  BY <1>3, <1>4, <1>5, <1>6, <1>7, <1>14 DEF Act, Decide
<1>15. ASSUME NEW r \in Requests, Timer(r) PROVE NotRequester'
  BY <1>5, <1>8, <1>9, <1>10, <1>11, <1>15 DEF Timer
<1> QED BY <1>5, <1>12, <1>13, <1>14, <1>15 DEF Next

LEMMA AnswersNext == TypeInv /\ ApproverInv /\ AnswersInv /\ [Next]_vars
                       => AnswersInv'
<1> SUFFICES ASSUME TypeInv, ApproverInv, AnswersInv, [Next]_vars
             PROVE  AnswersInv'
  OBVIOUS
<1>1. FreshTasks' /\ NotRequester'
  BY ApproverNext, NotRequesterNext DEF ApproverInv, AnswersInv
<1>2. ASSUME NEW t \in TaskId, tasks'[t].status # "none"
      PROVE  t[2] # Requester /\ tasks'[t].by # Requester
  <2>1. TaskStep(t)
    BY TaskSteps
  <2>2. tasks[t].status # "none" =>
          t[2] # Requester /\ tasks[t].by # Requester
    BY DEF AnswersInv, NoSelfApproval
  <2> QED BY <1>2, <2>1, <2>2 DEF TaskStep
<1>3. NoSelfApproval'
  BY <1>2 DEF NoSelfApproval
<1> QED BY <1>1, <1>3 DEF AnswersInv

LEMMA AnswersInit == Init => ApproverInv /\ AnswersInv
BY DEF Init, ApproverInv, FreshTasks, RunningHasApprover, Running, AnswersInv,
       NotRequester, NoRequest, NoSelfApproval, NoTask

\* Neither as a delegate, nor by an escalation, nor because of what is
\* published meanwhile does the requester get or answer a task of the request.
THEOREM RequesterNeverAnswers == Spec => []NoSelfApproval
<1>1. TypeInv /\ ApproverInv /\ [Next]_vars => ApproverInv'
  BY ApproverNext
<1>2. AnswersInv => NoSelfApproval
  BY DEF AnswersInv
<1> QED BY TypeInit, TypeNext, AnswersInit, AnswersNext, <1>1, <1>2, PTL
        DEF Spec

\* An answer, a withdrawal or an escalation of a task is never rewritten.
THEOREM AnswersStay == Spec => AnswersAreFinal
<1>1. TypeInv /\ ApproverInv /\ [Next]_vars => ApproverInv'
  BY ApproverNext
<1>2. ASSUME TypeInv, AnswersInv, [Next]_vars,
             NEW t \in TaskId, tasks[t].status \notin {"none", "pending"}
      PROVE  tasks'[t].status = tasks[t].status /\ tasks'[t].by = tasks[t].by
  BY <1>2, TaskSteps DEF TaskStep
<1>3. TypeInv /\ AnswersInv /\ [Next]_vars => [AnswersStep]_vars
  BY <1>2 DEF AnswersStep
<1> QED BY TypeInit, TypeNext, AnswersInit, AnswersNext, <1>1, <1>3, PTL
        DEF Spec, AnswersAreFinal

-----------------------------------------------------------------------------
(* The order of levels                                                       *)

\* What an approval run waits for: its action asks for approval, and leads to st.
WaitsIn(run, st) ==
  ActionDef[run.action].approval /\ st = ActionDef[run.action].to

\* A change to be made on the version that is current saw what is there; a timer
\* has read the instance while an approval was running.
SeenInv ==
  \A r \in Requests :
    /\ req[r].pc \in {"actCommit", "decideCommit"} =>
         /\ req[r].seen.version <= version
         /\ req[r].seen.version = version =>
              req[r].seen.approval = approval /\ req[r].seen.state = state
    /\ req[r].pc \in {"timerPick", "remind", "escalateTo", "skip", "stay"} =>
         /\ req[r].seen.approval \in Run
         /\ WaitsIn(req[r].seen.approval, req[r].seen.state)
    /\ req[r].pc = "escalateTo" => EscalateTo # {}

\* An approval was started by a version that is written.
StartedInv == approval.startedAt <= version

\* A running approval waits in the state its action leads to.
WaitingInv == Running => WaitsIn(approval, state)

OrderInv == SeenInv /\ StartedInv /\ WaitingInv

\* What a step does to the approval: nothing, or with a new version one of
\* ending it, starting another one and moving it to a later level.
ApprovalStep ==
  \/ UNCHANGED <<approval, state>> /\ version' \in {version, version + 1}
  \/ /\ version' = version + 1
     /\ \/ approval' = NoRun
        \/ approval'.startedAt = version + 1 /\ WaitsIn(approval', state')
        \/ /\ Running
           /\ approval' = [approval EXCEPT !.current = approval'.current]
           /\ approval.current < approval'.current
           /\ UNCHANGED state

\* The first of the next levels is later than the current one.
LEMMA NextLevelIsLater ==
  ASSUME NEW run \in Run, NEW cfg, NEW l \in Levels,
         IsFirst(l, NextLevels(run, cfg))
  PROVE  run.current < l
BY DEF IsFirst, NextLevels

LEMMA ApprovalSteps ==
  ASSUME TypeInv, OrderInv, [Next]_vars
  PROVE  ApprovalStep
<1> USE DEF TypeInv, ApprovalStep
<1>1. ASSUME UNCHANGED <<approval, version, state>> PROVE ApprovalStep
  BY <1>1
<1>2. ASSUME NEW r \in Requests,
             ActMove(r) \/ Reject(r) \/ ApproveLast(r) \/ ApprovePart(r)
      PROVE  ApprovalStep
  BY <1>2 DEF ActMove, Reject, ApproveLast, ApprovePart, Commit
<1>3. ASSUME NEW r \in Requests, ActSubmit(r) PROVE ApprovalStep
  <2>1. PICK L, l : /\ version' = version + 1
                    /\ approval' = [startedAt |-> version + 1,
                                    action |-> req[r].action,
                                    levels |-> L, current |-> l]
                    /\ state' = ActionDef[req[r].action].to
                    /\ ActionDef[req[r].action].approval
    BY <1>3 DEF ActSubmit, Commit
  <2> QED BY <2>1 DEF WaitsIn
<1>4. ASSUME NEW r \in Requests, ApproveNext(r) PROVE ApprovalStep
  <2> DEFINE run == req[r].seen.approval
  <2>1. PICK l \in Levels : /\ IsFirst(l, NextLevels(run, req[r].cfg))
                            /\ version' = version + 1
                            /\ approval' = [run EXCEPT !.current = l]
                            /\ req[r].seen.version = version
                            /\ state' = state
    BY <1>4 DEF ApproveNext, Commit
  <2>2. run \in Run /\ run = approval
    BY <1>4, <2>1 DEF ApproveNext, RequestsOK, OrderInv, SeenInv
  <2>3. run.current < l
    BY <2>1, <2>2, NextLevelIsLater
  <2>4. approval # NoRun /\ approval'.current = l
    BY <2>1, <2>2 DEF Run, NoRun
  <2> QED BY <2>1, <2>2, <2>3, <2>4 DEF Running
<1>5. ASSUME NEW r \in Requests, EscalateToOthers(r) PROVE ApprovalStep
  BY <1>5 DEF EscalateToOthers, CommitFresh
<1>6. ASSUME NEW r \in Requests, SkipLevel(r) PROVE ApprovalStep
  <2>1. approval \in Run /\ Running
    BY <1>6 DEF SkipLevel, Running, TypeOK
  <2>2. PICK m \in Levels : /\ IsFirst(m, NextLevels(approval, req[r].cfg))
                            /\ version' = version + 1
                            /\ approval' = [approval EXCEPT !.current = m]
                            /\ state' = state
    BY <1>6 DEF SkipLevel, CommitFresh
  <2>3. approval.current < m
    BY <2>1, <2>2, NextLevelIsLater
  <2>4. approval'.current = m
    BY <2>1, <2>2 DEF Run
  <2> QED BY <2>1, <2>2, <2>3, <2>4
<1>7. ASSUME NEW r \in Requests, Act(r) \/ Decide(r) PROVE ApprovalStep
  BY <1>1, <1>2, <1>3, <1>4, <1>7
     DEF Act, ActStart, ActRead, Decide, DecideReadTask, DecideReadInstance
<1>8. ASSUME NEW r \in Requests, Timer(r) PROVE ApprovalStep
  BY <1>1, <1>5, <1>6, <1>8
     DEF Timer, TimerStart, TimerReadInstance, Remind, EscalateTargets,
         EscalateWithoutTargets, SkipNothing, Stay, Finish
<1>9. ASSUME NEW r \in Requests, Retry(r) \/ Abandon(r) PROVE ApprovalStep
  BY <1>1, <1>9 DEF Retry, Abandon
<1>10. CASE PublishConfig \/ UNCHANGED vars
  BY <1>1, <1>10 DEF PublishConfig, vars
<1> QED BY <1>7, <1>8, <1>9, <1>10 DEF Next

\* What a step may do to the request r: nothing, or it begins or ends a handler,
\* reads the instance, or picks what the timer does.
RequestStep(r) ==
  LET q == req'[r] IN
  \/ q = req[r]
  \/ q.pc \in {"idle", "actRead", "decideRead", "timerRead", "finish"}
  \/ /\ q.pc \in {"actCommit", "decideCommit", "timerPick", "remind"}
     /\ q.seen = Here
     /\ UNCHANGED <<state, approval, version>>
     /\ q.pc # "actCommit" => Running
  \/ /\ req[r].pc = "timerPick" /\ q.seen = req[r].seen
     /\ q.pc \in {"escalateTo", "skip", "stay"}
     /\ q.pc = "escalateTo" => EscalateTo # {}

LEMMA RequestSteps ==
  ASSUME TypeInv, [Next]_vars
  PROVE  \A r \in Requests : RequestStep(r)
<1> USE DEF TypeInv
<1> DEFINE All == \A r \in Requests : RequestStep(r)
<1>0. req \in [Requests -> Request]
  BY DEF TypeOK
<1>1. ASSUME NEW s \in Requests, RequestStep(s),
             \A r \in Requests : r # s => req'[r] = req[r]
      PROVE  All
  BY <1>1 DEF RequestStep
<1>2. ASSUME NEW s \in Requests, req' = [req EXCEPT ![s] = NoRequest] PROVE All
  <2>1. req'[s].pc = "idle" /\ \A r \in Requests : r # s => req'[r] = req[r]
    BY <1>0, <1>2 DEF NoRequest
  <2>2. RequestStep(s)
    BY <2>1 DEF RequestStep
  <2> QED BY <1>1, <2>1, <2>2
<1>3. ASSUME NEW s \in Requests, NEW pc, Goto(s, pc)
      PROVE  /\ req'[s].pc = pc /\ req'[s].seen = req[s].seen
             /\ \A r \in Requests : r # s => req'[r] = req[r]
  BY <1>0, <1>3 DEF Goto, Request
<1>4. ASSUME NEW s \in Requests, NEW pc \in {"actRead", "decideRead", "finish"},
             Goto(s, pc)
      PROVE  All
  <2>1. RequestStep(s)
    BY <1>3, <1>4 DEF RequestStep
  <2> QED BY <1>1, <1>3, <1>4, <2>1
<1>5. ASSUME NEW s \in Requests, NEW u, NEW a, ActStart(s, u, a) PROVE All
  <2>1. req'[s].pc = "actRead" /\ \A r \in Requests : r # s => req'[r] = req[r]
    BY <1>0, <1>5 DEF ActStart, NoRequest
  <2>2. RequestStep(s)
    BY <2>1 DEF RequestStep
  <2> QED BY <1>1, <2>1, <2>2
<1>6. ASSUME NEW s \in Requests, ActRead(s) PROVE All
  <2>1. /\ req'[s].pc = "actCommit" /\ req'[s].seen = Here
        /\ \A r \in Requests : r # s => req'[r] = req[r]
    BY <1>0, <1>6 DEF ActRead, Request
  <2>2. RequestStep(s)
    BY <1>6, <2>1 DEF RequestStep, ActRead
  <2> QED BY <1>1, <2>1, <2>2
<1>7. ASSUME NEW s \in Requests,
             \/ ActMove(s) \/ ActSubmit(s)
             \/ Reject(s) \/ ApprovePart(s) \/ ApproveNext(s) \/ ApproveLast(s)
             \/ Finish(s) \/ Abandon(s)
      PROVE  All
  <2>1. req' = [req EXCEPT ![s] = NoRequest]
    BY <1>7 DEF ActMove, ActSubmit, Reject, ApprovePart, ApproveNext,
                ApproveLast, Finish, Abandon, Commit
  <2> QED BY <1>2, <2>1
<1>8. ASSUME NEW s \in Requests, NEW u, NEW t, NEW d, DecideReadTask(s, u, t, d)
      PROVE  All
  <2>1. /\ req'[s].pc = "decideRead"
        /\ \A r \in Requests : r # s => req'[r] = req[r]
    BY <1>0, <1>8 DEF DecideReadTask, NoRequest
  <2>2. RequestStep(s)
    BY <2>1 DEF RequestStep
  <2> QED BY <1>1, <2>1, <2>2
<1>9. ASSUME NEW s \in Requests, DecideReadInstance(s) PROVE All
  <2>1. /\ req'[s].pc = "decideCommit" /\ req'[s].seen = Here
        /\ \A r \in Requests : r # s => req'[r] = req[r]
    BY <1>0, <1>9 DEF DecideReadInstance, Request
  <2>2. RequestStep(s)
    BY <1>9, <2>1 DEF RequestStep, DecideReadInstance
  <2> QED BY <1>1, <2>1, <2>2
<1>10. ASSUME NEW s \in Requests, NEW t, TimerStart(s, t) PROVE All
  <2>1. /\ req'[s].pc \in {"timerRead", "finish"}
        /\ \A r \in Requests : r # s => req'[r] = req[r]
    BY <1>0, <1>10 DEF TimerStart, NoRequest
  <2>2. RequestStep(s)
    BY <2>1 DEF RequestStep
  <2> QED BY <1>1, <2>1, <2>2
<1>11. ASSUME NEW s \in Requests, TimerReadInstance(s) PROVE All
  <2>1. CASE Goto(s, "finish")
    BY <1>4, <2>1
  <2>2. ASSUME NEW pc \in {"timerPick", "remind", "finish"}, Running,
               req' = [req EXCEPT ![s].pc = pc, ![s].seen = Here,
                                  ![s].cfg = published]
        PROVE  All
    <3>1. /\ req'[s].pc = pc /\ req'[s].seen = Here
          /\ \A r \in Requests : r # s => req'[r] = req[r]
      BY <1>0, <2>2 DEF Request
    <3>2. RequestStep(s)
      BY <1>11, <2>2, <3>1 DEF RequestStep, TimerReadInstance
    <3> QED BY <1>1, <3>1, <3>2
  <2> QED BY <1>11, <2>1, <2>2 DEF TimerReadInstance
<1>12. ASSUME NEW s \in Requests, EscalateTargets(s) PROVE All
  <2> DEFINE l == tasks[req[s].task].level
  <2>0. PICK S : LET targets == S \ ({Requester} \cup {p[2] : p \in PendingAt(l)})
                 IN  req' = [req EXCEPT ![s].targets = targets,
                                        ![s].pc = IF targets = {} THEN "stay"
                                                  ELSE "escalateTo"]
    BY <1>12 DEF EscalateTargets
  <2> DEFINE T  == S \ ({Requester} \cup {p[2] : p \in PendingAt(l)})
             pc == IF T = {} THEN "stay" ELSE "escalateTo"
  <2>1. req' = [req EXCEPT ![s].targets = T, ![s].pc = pc]
        /\ pc \in {"stay", "escalateTo"}
    BY <2>0
  <2> HIDE DEF T, pc
  <2>2. /\ req'[s].pc = pc /\ req'[s].seen = req[s].seen
        /\ \A r \in Requests : r # s => req'[r] = req[r]
    BY <1>0, <2>1 DEF Request
  <2>3. EscalateTo # {} /\ req[s].pc = "timerPick"
    BY <1>12 DEF EscalateTargets
  <2>4. RequestStep(s)
    BY <2>1, <2>2, <2>3 DEF RequestStep
  <2> QED BY <1>1, <2>2, <2>4
<1>13. ASSUME NEW s \in Requests, EscalateWithoutTargets(s) PROVE All
  <2>1. PICK pc \in {"skip", "stay"} : Goto(s, pc)
    BY <1>13 DEF EscalateWithoutTargets
  <2>2. RequestStep(s)
    BY <1>3, <1>13, <2>1 DEF RequestStep, EscalateWithoutTargets
  <2> QED BY <1>1, <1>3, <2>1, <2>2
<1>14. ASSUME NEW s \in Requests,
              \/ Remind(s) \/ EscalateToOthers(s)
              \/ SkipLevel(s) \/ SkipNothing(s) \/ Stay(s)
       PROVE  All
  <2>1. Goto(s, "finish")
    BY <1>14 DEF Remind, EscalateToOthers, SkipLevel, SkipNothing, Stay, CommitFresh
  <2> QED BY <1>4, <2>1
<1>15. ASSUME NEW s \in Requests, Retry(s) PROVE All
  <2>1. \/ \E pc \in {"actRead", "decideRead"} : Goto(s, pc)
        \/ req' = [req EXCEPT ![s] = NoRequest]
    BY <1>15 DEF Retry
  <2> QED BY <1>2, <1>4, <2>1
<1>16. CASE PublishConfig \/ UNCHANGED vars
  BY <1>16 DEF PublishConfig, vars, RequestStep
<1>17. ASSUME NEW s \in Requests, Act(s) \/ Decide(s) PROVE All
  BY <1>5, <1>6, <1>7, <1>8, <1>9, <1>17 DEF Act, Decide
<1>18. ASSUME NEW s \in Requests, Timer(s) PROVE All
  BY <1>7, <1>10, <1>11, <1>12, <1>13, <1>14, <1>18 DEF Timer
<1> QED BY <1>7, <1>15, <1>16, <1>17, <1>18 DEF Next

LEMMA OrderInit == Init => OrderInv
BY DEF Init, OrderInv, SeenInv, StartedInv, WaitingInv, Running, NoRequest, NoRun

LEMMA OrderNext == TypeInv /\ OrderInv /\ [Next]_vars => OrderInv'
<1> SUFFICES ASSUME TypeInv, OrderInv, [Next]_vars PROVE OrderInv'
  OBVIOUS
<1>1. ApprovalStep
  BY ApprovalSteps
<1>2. version \in Nat /\ approval \in Run \cup {NoRun}
      /\ approval.startedAt \in Nat
  BY BoundsAssumption DEF TypeInv, TypeOK, Run, NoRun
<1>3. StartedInv'
  <2>1. CASE approval' = NoRun
    BY <1>1, <1>2, <2>1 DEF ApprovalStep, StartedInv, NoRun
  <2>2. CASE approval' = [approval EXCEPT !.current = approval'.current]
    <3>1. approval'.startedAt = approval.startedAt
      BY <1>2, <2>2 DEF Run, NoRun
    <3>2. version' \in {version, version + 1}
      BY <1>1 DEF ApprovalStep
    <3>3. approval.startedAt <= version
      BY DEF OrderInv, StartedInv
    <3> HIDE <2>2
    <3>4. approval.startedAt <= version'
      BY <1>2, <3>2, <3>3
    <3> QED BY <3>1, <3>4 DEF StartedInv
  <2>3. CASE approval'.startedAt = version + 1 /\ version' = version + 1
    BY <1>2, <2>3 DEF StartedInv
  <2>4. CASE approval' = approval
    BY <1>1, <1>2, <2>4 DEF ApprovalStep, OrderInv, StartedInv
  <2> QED BY <1>1, <2>1, <2>2, <2>3, <2>4 DEF ApprovalStep
<1>4. WaitingInv'
  <2>1. CASE UNCHANGED <<approval, state>>
    BY <2>1 DEF OrderInv, WaitingInv, Running, WaitsIn
  <2>2. CASE approval' = NoRun \/ WaitsIn(approval', state')
    BY <2>2 DEF WaitingInv, Running, WaitsIn
  <2>3. CASE /\ Running /\ UNCHANGED state
             /\ approval' = [approval EXCEPT !.current = approval'.current]
    <3>1. approval'.action = approval.action
      BY <1>2, <2>3 DEF Run, NoRun
    <3> QED BY <2>3, <3>1 DEF OrderInv, WaitingInv, WaitsIn
  <2> QED BY <1>1, <2>1, <2>2, <2>3 DEF ApprovalStep
<1>5. ASSUME NEW r \in Requests, req'[r].pc \in {"actCommit", "decideCommit"}
      PROVE  /\ req'[r].seen.version <= version'
             /\ req'[r].seen.version = version' =>
                  req'[r].seen.approval = approval' /\ req'[r].seen.state = state'
  <2>1. CASE req'[r].seen = Here /\ UNCHANGED <<state, approval, version>>
    BY <1>2, <2>1 DEF Here
  <2>2. CASE req'[r] = req[r]
    <3>1. req[r].seen.version \in Nat
      BY DEF TypeInv, TypeOK, Request, Snapshot
    <3>2. /\ req[r].seen.version <= version
          /\ req[r].seen.version = version =>
               req[r].seen.approval = approval /\ req[r].seen.state = state
      BY <1>5, <2>2 DEF OrderInv, SeenInv
    <3>3. \/ version' = version /\ approval' = approval /\ state' = state
          \/ version' = version + 1
      BY <1>1 DEF ApprovalStep
    <3> QED BY <1>2, <2>2, <3>1, <3>2, <3>3
  <2> QED BY <1>5, <2>1, <2>2, RequestSteps DEF RequestStep
<1>6. ASSUME NEW r \in Requests,
             req'[r].pc \in {"timerPick", "remind", "escalateTo", "skip", "stay"}
      PROVE  /\ req'[r].seen.approval \in Run
             /\ WaitsIn(req'[r].seen.approval, req'[r].seen.state)
  <2>1. CASE req'[r].seen = Here /\ Running
    BY <1>2, <2>1 DEF Here, Running, OrderInv, WaitingInv
  <2>2. CASE \/ req'[r] = req[r]
             \/ req[r].pc = "timerPick" /\ req'[r].seen = req[r].seen
    BY <1>6, <2>2 DEF OrderInv, SeenInv
  <2> QED BY <1>6, <2>1, <2>2, RequestSteps DEF RequestStep
<1>7. ASSUME NEW r \in Requests, req'[r].pc = "escalateTo" PROVE EscalateTo # {}
  BY <1>7, RequestSteps DEF RequestStep, OrderInv, SeenInv
<1> QED BY <1>3, <1>4, <1>5, <1>6, <1>7 DEF OrderInv, SeenInv

\* However late a decision commits, and whatever is skipped or escalated in
\* between: a running approval only moves to a later level.
THEOREM LevelsOnlyAdvance == Spec => LevelsInOrder
<1>1. ASSUME TypeInv, OrderInv, [Next]_vars, Running,
             approval'.startedAt = approval.startedAt
      PROVE  approval.current <= approval'.current
  <2>1. ApprovalStep
    BY <1>1, ApprovalSteps
  <2>2. approval \in Run /\ approval.startedAt \in Nat /\ approval.startedAt > 0
        /\ approval.current \in Nat /\ version \in Nat
    BY <1>1, LevelsAssumption, BoundsAssumption
       DEF TypeInv, TypeOK, Running, Run, Levels
  <2>3. approval' # NoRun /\ approval'.startedAt # version + 1
    BY <1>1, <2>2 DEF NoRun, OrderInv, StartedInv
  <2>4. approval' = approval \/ approval.current < approval'.current
    BY <2>1, <2>3 DEF ApprovalStep
  <2>5. CASE approval' = approval
    BY <2>2, <2>5
  <2>6. CASE approval.current < approval'.current
    <3>1. approval'.current \in Nat
      BY <1>1, TypeNext, LevelsAssumption
         DEF TypeInv, TypeOK, Run, NoRun, Levels
    <3> QED BY <2>2, <2>6, <3>1
  <2> QED BY <2>4, <2>5, <2>6
<1>2. TypeInv /\ OrderInv /\ [Next]_vars => [LevelsStep]_vars
  BY <1>1 DEF LevelsStep
<1> QED BY TypeInit, TypeNext, OrderInit, OrderNext, <1>2, PTL
        DEF Spec, LevelsInOrder

\* The steps that write a new version of the instance.
Commits(r) ==
  \/ ActMove(r) \/ ActSubmit(r)
  \/ Reject(r) \/ ApprovePart(r) \/ ApproveNext(r) \/ ApproveLast(r)
  \/ EscalateToOthers(r) \/ SkipLevel(r)

LEMMA OnlyCommits ==
  ASSUME [Next]_vars, version' # version \/ approval' # approval
  PROVE  \E r \in Requests : Commits(r)
BY ZenonT(60) DEF Next, vars, Act, ActStart, ActRead, Decide, DecideReadTask,
       DecideReadInstance, Timer, TimerStart, TimerReadInstance,
       Remind, EscalateTargets, EscalateWithoutTargets, SkipNothing,
       Stay, Finish, Retry, Abandon, PublishConfig, Commits

\* A transaction ends or moves on its own request only.
LEMMA CommitsOwnRequest ==
  ASSUME TypeInv, NEW r \in Requests, Commits(r), NEW s \in Requests, s # r
  PROVE  req'[s] = req[s]
BY DEF TypeInv, TypeOK, Commits, ActMove, ActSubmit, Reject, ApprovePart,
       ApproveNext, ApproveLast, EscalateToOthers, SkipLevel, Commit,
       CommitFresh, Goto

\* A timer never approves, rejects or replaces what it was started for, unless
\* a workflow calls one of its own actions by the name of an escalation.
THEOREM TimersAdvanceOnly ==
  ASSUME "escalate" \notin Actions
  PROVE  Spec => TimersOnlyAdvance
<1> DEFINE Kept == /\ state' = state
                   /\ \/ approval' = approval
                      \/ /\ Running
                         /\ approval' =
                              [approval EXCEPT !.current = approval'.current]
                         /\ approval.current < approval'.current
<1>1. ASSUME TypeInv, [Next]_vars, lastEntry'.action = "escalate",
             version' # version
      PROVE  Kept
  <2>1. PICK r \in Requests : Commits(r)
    BY <1>1, OnlyCommits
  <2>2. ASSUME NEW newState, NEW newApproval, NEW by, NEW action,
               Commit(r, newState, newApproval, by, action)
        PROVE  action = "escalate"
    BY <1>1, <2>2 DEF Commit
  <2>3. ~(Reject(r) \/ ApprovePart(r) \/ ApproveNext(r) \/ ApproveLast(r))
    <3>1. ~Reject(r)
      BY <2>2 DEF Reject
    <3>2. ~ApprovePart(r)
      BY <2>2 DEF ApprovePart
    <3>3. ~ApproveNext(r)
      BY <2>2 DEF ApproveNext
    <3>4. ~ApproveLast(r)
      BY <2>2 DEF ApproveLast
    <3> QED BY <3>1, <3>2, <3>3, <3>4
  <2>4. ~(ActMove(r) \/ ActSubmit(r))
    <3>1. req[r].pc = "actCommit" => req[r].action # "escalate"
      BY <1>1 DEF TypeInv, RequestsOK
    <3>2. ~ActMove(r)
      BY <2>2, <3>1 DEF ActMove
    <3>3. ~ActSubmit(r)
      BY <2>2, <3>1 DEF ActSubmit
    <3> QED BY <3>2, <3>3
  <2>5. CASE EscalateToOthers(r)
    BY <2>5 DEF EscalateToOthers, CommitFresh
  <2>6. CASE SkipLevel(r)
    <3>1. approval \in Run /\ Running /\ state' = state
      BY <1>1, <2>6 DEF SkipLevel, CommitFresh, Running, TypeInv, TypeOK
    <3>2. PICK m \in Levels : /\ IsFirst(m, NextLevels(approval, req[r].cfg))
                              /\ approval' = [approval EXCEPT !.current = m]
      BY <2>6 DEF SkipLevel, CommitFresh
    <3>3. approval.current < m
      BY <3>1, <3>2, NextLevelIsLater
    <3>4. approval'.current = m
      BY <3>1, <3>2 DEF Run
    <3> QED BY <3>1, <3>2, <3>3, <3>4
  <2> QED BY <2>1, <2>3, <2>4, <2>5, <2>6 DEF Commits
<1>2. TypeInv /\ [Next]_vars =>
        [lastEntry'.action = "escalate" /\ version' # version => Kept]_vars
  BY <1>1
<1> QED BY TypeInit, TypeNext, <1>2, PTL DEF Spec, TimersOnlyAdvance

-----------------------------------------------------------------------------
(* The tasks of an approval                                                  *)

\* No task is of a run that is still to start.
TaskRunInv == \A t \in TaskId : tasks[t].run <= version

\* The tasks of the running approval are of its level or of an earlier one, and
\* none of its level was rejected or withdrawn.
LevelInv ==
  Running => \A t \in TaskId : tasks[t].run = approval.startedAt =>
    /\ tasks[t].level <= approval.current
    /\ tasks[t].level = approval.current =>
         tasks[t].status \in {"pending", "approved", "escalated"}

\* A map of tasks of the same levels and runs as now.
SamePlaces(tk) ==
  \A t \in TaskId : tk[t].level = tasks[t].level /\ tk[t].run = tasks[t].run

\* Closing answers open tasks, and keeps the level and the run of all.
LEMMA ClosedKeeps ==
  ASSUME NEW tk \in TaskMap, NEW S, NEW status, NEW by, NEW t \in TaskId
  PROVE  LET new == Closed(tk, S, status, by)[t] IN
         /\ new.level = tk[t].level /\ new.run = tk[t].run
         /\ new.status = IF t \in S /\ tk[t].status = "pending" THEN status
                         ELSE tk[t].status
<1>1. CASE t \in S /\ tk[t].status = "pending"
  <2>1. tk[t] \in Task
    BY <1>1 DEF TaskMap, NoTask
  <2>2. Closed(tk, S, status, by)[t]
          = [tk[t] EXCEPT !.status = status, !.by = by]
    BY <1>1 DEF Closed
  <2> QED BY <1>1, <2>1, <2>2 DEF Task
<1>2. CASE ~(t \in S /\ tk[t].status = "pending")
  BY <1>2 DEF Closed
<1> QED BY <1>1, <1>2

LEMMA ClosedPlaces ==
  ASSUME TypeInv, NEW S, NEW status, NEW by
  PROVE  SamePlaces(Closed(tasks, S, status, by))
BY ClosedKeeps DEF SamePlaces, TypeInv, TypeOK, TaskMap

\* What a decision makes of the tasks.
LEMMA DecidedKeeps ==
  ASSUME TypeInv, NEW S, NEW S2, NEW by \in Users \cup {System, Nobody},
         NEW status \in {"approved", "rejected", "cancelled", "escalated"}
  PROVE  /\ SamePlaces(Closed(Closed(tasks, S, status, by), S2, "cancelled",
                              Nobody))
         /\ \A t \in TaskId :
              Closed(Closed(tasks, S, status, by), S2, "cancelled", Nobody)[t]
                .status = IF tasks[t].status # "pending" THEN tasks[t].status
                          ELSE IF t \in S THEN status
                          ELSE IF t \in S2 THEN "cancelled" ELSE "pending"
<1> DEFINE tk == Closed(tasks, S, status, by)
<1>1. tasks \in TaskMap
  BY DEF TypeInv, TypeOK, TaskMap
<1>2. tk \in TaskMap
  BY <1>1, ClosedType
<1>3. \A t \in TaskId :
        /\ tk[t].level = tasks[t].level /\ tk[t].run = tasks[t].run
        /\ tk[t].status = IF t \in S /\ tasks[t].status = "pending" THEN status
                          ELSE tasks[t].status
  BY <1>1, ClosedKeeps
<1> HIDE DEF tk
<1>4. \A t \in TaskId :
        LET new == Closed(tk, S2, "cancelled", Nobody)[t] IN
        /\ new.level = tk[t].level /\ new.run = tk[t].run
        /\ new.status = IF t \in S2 /\ tk[t].status = "pending" THEN "cancelled"
                        ELSE tk[t].status
  BY <1>2, ClosedKeeps
<1>5. SamePlaces(Closed(tk, S2, "cancelled", Nobody))
  BY <1>3, <1>4 DEF SamePlaces
<1>6. \A t \in TaskId : Closed(tk, S2, "cancelled", Nobody)[t].status
        = IF tasks[t].status # "pending" THEN tasks[t].status
          ELSE IF t \in S THEN status
          ELSE IF t \in S2 THEN "cancelled" ELSE "pending"
  BY <1>3, <1>4
<1> QED BY <1>5, <1>6 DEF tk

\* A started level opens tasks of it, and leaves the others alone.
LEMMA StartedTasks ==
  ASSUME NEW tk, NEW jb, NEW l, NEW who, NEW run, NEW escalates,
         StartLevel(tk, jb, l, who, run, escalates), NEW t \in TaskId
  PROVE  \/ tasks'[t] = tk[t]
         \/ /\ tasks'[t].level = l /\ tasks'[t].run = run
            /\ tasks'[t].status = "pending"
BY DEF StartLevel, NewTask

\* A reminder leaves the places and the statuses alone.
LEMMA MarkedTasks ==
  ASSUME TypeInv, NEW r \in Requests, Remind(r) \/ Stay(r)
  PROVE  SamePlaces(tasks') /\ \A t \in TaskId : tasks'[t].status = tasks[t].status
<1> DEFINE t == req[r].task
<1>1. t \in TaskId /\ tasks[t] \in Task
  BY DEF Remind, Stay, TypeInv, RequestsOK
<1>2. PICK new \in {[tasks[t] EXCEPT !.reminded = TRUE],
                    [tasks[t] EXCEPT !.timed = FALSE, !.reminded = TRUE]} :
        tasks' = [tasks EXCEPT ![t] = new]
  BY ZenonT(20) DEF Remind, Stay, TypeInv, TypeOK
<1>3. /\ new.status = tasks[t].status
      /\ new.level = tasks[t].level /\ new.run = tasks[t].run
  BY <1>1 DEF Task
<1>4. tasks'[t] = new /\ \A k \in TaskId : k # t => tasks'[k] = tasks[k]
  BY <1>1, <1>2 DEF TypeInv, TypeOK
<1> QED BY <1>3, <1>4 DEF SamePlaces

LEMMA LevelInit == Init => TaskRunInv /\ LevelInv
BY DEF Init, TaskRunInv, LevelInv, Running, NoTask

LEMMA LevelNext ==
  TypeInv /\ OrderInv /\ TaskRunInv /\ LevelInv /\ [Next]_vars
    => TaskRunInv' /\ LevelInv'
<1> SUFFICES ASSUME TypeInv, OrderInv, TaskRunInv, LevelInv, [Next]_vars
             PROVE  TaskRunInv' /\ LevelInv'
  OBVIOUS
<1>0. /\ version \in Nat /\ version' \in Nat
      /\ approval \in Run \cup {NoRun} /\ approval' \in Run \cup {NoRun}
      /\ tasks \in TaskMap /\ tasks' \in TaskMap
  BY TypeNext, BoundsAssumption DEF TypeInv, TypeOK, TaskMap
<1>a. \A tk \in TaskMap : \A t \in TaskId : tk[t].run \in Nat /\ tk[t].level \in Nat
  BY BoundsAssumption, LevelsAssumption DEF TaskMap, Task, NoTask, Levels
<1>b. Running => /\ approval \in Run /\ approval.startedAt \in Nat
                 /\ approval.current \in Nat
  BY <1>0, BoundsAssumption, LevelsAssumption DEF Run, Running, Levels
\* Nothing starts, and the approval stays or ends.
<1>1. ASSUME SamePlaces(tasks'), version' \in {version, version + 1},
             \/ approval' = NoRun
             \/ /\ approval' = approval
                /\ \A t \in TaskId : \/ tasks'[t].status = tasks[t].status
                                     \/ tasks'[t].status \in {"approved", "escalated"}
      PROVE  TaskRunInv' /\ LevelInv'
  <2>1. TaskRunInv'
    BY <1>0, <1>1, <1>a DEF TaskRunInv, SamePlaces
  <2>2. LevelInv'
    BY <1>1 DEF LevelInv, SamePlaces, Running
  <2> QED BY <2>1, <2>2
\* A level starts: what is to be shown of its run and number.
<1>2. ASSUME NEW tk \in TaskMap, SamePlaces(tk), NEW jb, NEW l \in Levels, NEW who,
             NEW run, NEW escalates, StartLevel(tk, jb, l, who, run, escalates),
             version' = version + 1, run \in Nat, run <= version + 1,
             Running' =>
               \/ /\ approval' = approval
                  /\ run = approval.startedAt => l <= approval.current
                  /\ \A t \in TaskId : \/ tk[t].status = tasks[t].status
                                       \/ tk[t].status \in {"approved", "escalated"}
               \/ approval'.startedAt = version + 1 /\ approval'.current = l
               \/ /\ Running /\ approval.current < l
                  /\ approval' = [approval EXCEPT !.current = l]
      PROVE  TaskRunInv' /\ LevelInv'
  <2>1. \A t \in TaskId :
          \/ tasks'[t] = tk[t]
          \/ /\ tasks'[t].level = l /\ tasks'[t].run = run
             /\ tasks'[t].status = "pending"
    BY <1>2, StartedTasks
  <2>2. \A t \in TaskId : /\ tk[t].run <= version /\ tk[t].run \in Nat
                          /\ tk[t].level \in Nat
    BY <1>2, <1>a DEF TaskRunInv, SamePlaces
  <2>3. TaskRunInv'
    BY <1>0, <1>2, <2>1, <2>2 DEF TaskRunInv
  <2>4. l \in Nat
    BY LevelsAssumption DEF Levels
  <2>5. ASSUME Running', NEW t \in TaskId, tasks'[t].run = approval'.startedAt
        PROVE  /\ tasks'[t].level <= approval'.current
               /\ tasks'[t].level = approval'.current =>
                    tasks'[t].status \in {"pending", "approved", "escalated"}
    <3>1. CASE /\ approval' = approval
               /\ run = approval.startedAt => l <= approval.current
               /\ \A k \in TaskId : \/ tk[k].status = tasks[k].status
                                    \/ tk[k].status \in {"approved", "escalated"}
      <4>1. Running /\ tk[t].run = tasks[t].run /\ tk[t].level = tasks[t].level
        BY <1>2, <2>5, <3>1 DEF Running, SamePlaces
      <4>2. CASE tasks'[t] = tk[t]
        BY <2>5, <3>1, <4>1, <4>2 DEF LevelInv
      <4> QED BY <2>1, <2>5, <3>1, <4>2
    <3>2. CASE approval'.startedAt = version + 1 /\ approval'.current = l
      <4>1. tasks'[t] # tk[t]
        BY <1>0, <2>2, <2>5, <3>2
      <4> QED BY <2>1, <2>4, <3>2, <4>1
    <3>3. CASE /\ Running /\ approval.current < l
               /\ approval' = [approval EXCEPT !.current = l]
      <4>1. approval'.startedAt = approval.startedAt /\ approval'.current = l
        BY <1>b, <3>3 DEF Run
      <4>2. CASE tasks'[t] = tk[t]
        <5>1. tk[t].level <= approval.current
          BY <1>2, <2>5, <3>3, <4>1, <4>2 DEF LevelInv, SamePlaces
        <5>2. tk[t].level < l
          BY <1>b, <2>2, <2>4, <3>3, <5>1
        <5> QED BY <2>2, <2>4, <4>1, <4>2, <5>2
      <4> QED BY <2>1, <2>4, <4>1, <4>2
    <3> QED BY <1>2, <2>5, <3>1, <3>2, <3>3
  <2> QED BY <2>3, <2>5 DEF LevelInv
<1>3. ASSUME UNCHANGED <<approval, version, tasks>>
      PROVE  TaskRunInv' /\ LevelInv'
  BY <1>1, <1>3 DEF SamePlaces
<1>4. ASSUME NEW r \in Requests, ActMove(r) \/ Reject(r) \/ ApproveLast(r)
      PROVE  TaskRunInv' /\ LevelInv'
  <2>1. version' = version + 1 /\ approval' = NoRun
    BY <1>4 DEF ActMove, Reject, ApproveLast, Commit
  <2>2. SamePlaces(tasks')
    <3>1. CASE ActMove(r)
      BY <3>1, ClosedPlaces DEF ActMove, StartNothing
    <3>2. ASSUME req[r].pc = "decideCommit" PROVE req[r].user \in Users
      BY <3>2 DEF TypeInv, RequestsOK
    <3>3. CASE Reject(r)
      BY <3>2, <3>3, DecidedKeeps DEF Reject, StartNothing
    <3>4. CASE ApproveLast(r)
      BY <3>2, <3>4, DecidedKeeps DEF ApproveLast, StartNothing
    <3> QED BY <1>4, <3>1, <3>3, <3>4
  <2> QED BY <1>1, <2>1, <2>2
<1>5. ASSUME NEW r \in Requests, ApprovePart(r)
      PROVE  TaskRunInv' /\ LevelInv'
  <2> DEFINE t == req[r].task
  <2>1. /\ version' = version + 1 /\ approval' = approval
        /\ tasks' = Closed(tasks, {t}, "approved", req[r].user)
    BY <1>5 DEF ApprovePart, Commit, StartNothing
  <2>2. req[r].user \in Users
    BY <1>5 DEF ApprovePart, TypeInv, RequestsOK
  <2>3. SamePlaces(tasks')
    BY <2>1, ClosedPlaces
  <2>4. \A k \in TaskId : \/ tasks'[k].status = tasks[k].status
                          \/ tasks'[k].status \in {"approved", "escalated"}
    BY <1>0, <2>1, ClosedKeeps
  <2> QED BY <1>1, <2>1, <2>3, <2>4
<1>6. ASSUME NEW r \in Requests, ActSubmit(r)
      PROVE  TaskRunInv' /\ LevelInv'
  <2> DEFINE tk == Closed(tasks, ActWithdraws(r), "cancelled", Nobody)
  <2>1. PICK L, l, who :
          /\ l \in Levels
          /\ version' = version + 1
          /\ approval' = [startedAt |-> version + 1, action |-> req[r].action,
                          levels |-> L, current |-> l]
          /\ StartLevel(tk, Without(ActWithdraws(r)), l, who, version + 1, TRUE)
    BY <1>6 DEF ActSubmit, Commit
  <2>2. tk \in TaskMap /\ SamePlaces(tk)
    BY <1>0, ClosedType, ClosedPlaces
  <2> HIDE DEF tk
  <2>3. version + 1 \in Nat /\ version + 1 <= version + 1
    BY <1>0
  <2>4. approval'.startedAt = version + 1 /\ approval'.current = l
    BY <2>1
  <2> QED BY <1>2, <2>1, <2>2, <2>3, <2>4
<1>7. ASSUME NEW r \in Requests, ApproveNext(r)
      PROVE  TaskRunInv' /\ LevelInv'
  <2> DEFINE run == req[r].seen.approval
             t   == req[r].task
             tk  == Closed(Closed(tasks, {t}, "approved", req[r].user),
                           Others(r), "cancelled", Nobody)
  <2>1. PICK l, who :
          /\ l \in Levels /\ IsFirst(l, NextLevels(run, req[r].cfg))
          /\ version' = version + 1 /\ req[r].seen.version = version
          /\ approval' = [run EXCEPT !.current = l]
          /\ StartLevel(tk, Without(Others(r) \cup {t}), l, who, run.startedAt,
                        TRUE)
    BY <1>7 DEF ApproveNext, Commit
  <2>2. /\ run \in Run /\ run = approval /\ req[r].user \in Users
    BY <1>7, <2>1 DEF ApproveNext, TypeInv, RequestsOK, OrderInv, SeenInv
  <2>3. tk \in TaskMap /\ SamePlaces(tk)
    BY <2>2, ClosedTasks, DecidedKeeps
  <2> HIDE DEF tk
  <2>4. Running /\ approval.current < l
    BY <2>1, <2>2, NextLevelIsLater DEF Running, Run, NoRun
  <2>5. run.startedAt \in Nat /\ run.startedAt <= version + 1
    <3>1. approval.startedAt <= version
      BY DEF OrderInv, StartedInv
    <3> QED BY <1>0, <1>b, <2>2, <2>4, <3>1
  <2> QED BY <1>2, <2>1, <2>2, <2>3, <2>4, <2>5
<1>8. ASSUME NEW r \in Requests, EscalateToOthers(r)
      PROVE  TaskRunInv' /\ LevelInv'
  <2> DEFINE t  == req[r].task
             l  == tasks[t].level
             tk == Closed(tasks, {t}, "escalated", System)
  <2>1. /\ version' = version + 1 /\ approval' = approval
        /\ StartLevel(tk, Without({t}), l, req[r].targets, tasks[t].run, FALSE)
    BY <1>8 DEF EscalateToOthers, CommitFresh
  <2>2. t \in TaskId /\ tasks[t] \in Task
    BY <1>8 DEF EscalateToOthers, TypeInv, RequestsOK
  <2>3. /\ tk \in TaskMap /\ SamePlaces(tk)
        /\ \A k \in TaskId : \/ tk[k].status = tasks[k].status
                             \/ tk[k].status \in {"approved", "escalated"}
    <3>1. tk \in TaskMap
      BY <1>0, ClosedType
    <3>2. SamePlaces(tk)
      BY ClosedPlaces
    <3>3. \A k \in TaskId : \/ tk[k].status = tasks[k].status
                            \/ tk[k].status \in {"approved", "escalated"}
      BY <1>0, ClosedKeeps
    <3> QED BY <3>1, <3>2, <3>3
  <2> HIDE DEF tk
  <2>4. l \in Levels /\ tasks[t].run \in Nat /\ tasks[t].run <= version + 1
    <3>1. tasks[t].run <= version /\ tasks[t].run \in Nat
      BY <1>0, <1>a, <2>2 DEF TaskRunInv
    <3> QED BY <1>0, <2>2, <3>1 DEF Task
  <2>5. Running' => (tasks[t].run = approval.startedAt => l <= approval.current)
    BY <2>1, <2>2 DEF LevelInv, Running
  <2> QED BY <1>2, <2>1, <2>3, <2>4, <2>5
<1>9. ASSUME NEW r \in Requests, SkipLevel(r)
      PROVE  TaskRunInv' /\ LevelInv'
  <2> DEFINE l  == tasks[req[r].task].level
             tk == Closed(tasks, PendingAt(l), "escalated", System)
  <2>1. PICK m, who :
          /\ m \in Levels /\ IsFirst(m, NextLevels(approval, req[r].cfg))
          /\ version' = version + 1
          /\ approval' = [approval EXCEPT !.current = m]
          /\ StartLevel(tk, Without(PendingAt(l)), m, who, approval.startedAt,
                        TRUE)
    BY <1>9 DEF SkipLevel, CommitFresh
  <2>2. Running /\ approval \in Run
    BY <1>0, <1>9 DEF SkipLevel, Running
  <2>3. tk \in TaskMap /\ SamePlaces(tk)
    BY <1>0, ClosedType, ClosedPlaces
  <2> HIDE DEF tk
  <2>4. approval.current < m
    BY <2>1, <2>2, NextLevelIsLater
  <2>5. approval.startedAt \in Nat /\ approval.startedAt <= version + 1
    <3>1. approval.startedAt <= version
      BY DEF OrderInv, StartedInv
    <3> QED BY <1>0, <1>b, <2>2, <3>1
  <2> QED BY <1>2, <2>1, <2>2, <2>3, <2>4, <2>5
<1>10. ASSUME NEW r \in Requests, Remind(r) \/ Stay(r)
       PROVE  TaskRunInv' /\ LevelInv'
  <2>1. UNCHANGED <<approval, version>>
    BY <1>10 DEF Remind, Stay
  <2> QED BY <1>1, <1>10, <2>1, MarkedTasks
<1>11. ASSUME NEW r \in Requests, Act(r) \/ Decide(r)
       PROVE  TaskRunInv' /\ LevelInv'
  BY <1>3, <1>4, <1>5, <1>6, <1>7, <1>11
     DEF Act, ActStart, ActRead, Decide, DecideReadTask, DecideReadInstance
<1>12. ASSUME NEW r \in Requests, Timer(r)
       PROVE  TaskRunInv' /\ LevelInv'
  BY <1>3, <1>8, <1>9, <1>10, <1>12
     DEF Timer, TimerStart, TimerReadInstance, EscalateTargets,
         EscalateWithoutTargets, SkipNothing, Finish
<1>13. ASSUME NEW r \in Requests, Retry(r) \/ Abandon(r)
       PROVE  TaskRunInv' /\ LevelInv'
  BY <1>3, <1>13 DEF Retry, Abandon
<1>14. CASE PublishConfig \/ UNCHANGED vars
  BY <1>3, <1>14 DEF PublishConfig, vars
<1> QED BY <1>11, <1>12, <1>13, <1>14 DEF Next

\* A decision on an open task of the level in progress completes the level only
\* when it is answered, however handlers, reminders, escalations and other
\* approvals overlap.
THEOREM LevelsAnsweredInTime == Spec => LevelsAreAnsweredInTime
<1> DEFINE InTime(r) ==
             /\ Running /\ approval' # approval /\ lastEntry'.action = "approve"
             /\ req[r].pc = "decideCommit" /\ req[r].task \in Pending
             /\ tasks[req[r].task].level = approval.current
             /\ tasks[req[r].task].run = approval.startedAt
             /\ req'[r] = NoRequest
           Done == Answered(approval.current, approval.startedAt, tasks')
<1>1. ASSUME TypeInv, ApproverInv, OrderInv, LevelInv, [Next]_vars,
             NEW r \in Requests, InTime(r)
      PROVE  Done
  <2> DEFINE t == req[r].task
             l == approval.current
  <2>1. /\ t \in TaskId /\ tasks[t].status = "pending"
        /\ tasks[t].level = l /\ tasks[t].run = approval.startedAt
        /\ req[r].user \in Users
        /\ req[r].seen.approval \in Run
    BY <1>1 DEF Pending, TypeInv, RequestsOK
  <2>2. ApproveNext(r) \/ ApproveLast(r)
    <3>1. PICK s \in Requests : Commits(s)
      BY <1>1, OnlyCommits
    <3>2. s = r
      BY <1>1, <3>1, CommitsOwnRequest DEF NoRequest
    <3>3. ~Reject(r)
      BY <1>1 DEF Reject, Commit
    <3>4. ~ApprovePart(r)
      BY <1>1 DEF ApprovePart, Commit
    <3> QED BY <1>1, <3>1, <3>2, <3>3, <3>4
            DEF Commits, ActMove, ActSubmit, EscalateToOthers, SkipLevel
  <2>3. LevelDone(r) /\ req[r].seen.version = version
    BY <2>2 DEF ApproveNext, ApproveLast, Commit
  \* The tasks of the level after the step: t is approved, and in mode "all"
  \* no other one was open.
  <2>4. ASSUME NEW S2,
               \A k \in TaskId :
                 \/ tasks'[k].level # l
                 \/ /\ tasks'[k].level = tasks[k].level
                    /\ tasks'[k].run = tasks[k].run
                    /\ tasks'[k].status =
                         IF tasks[k].status # "pending" THEN tasks[k].status
                         ELSE IF k \in {t} THEN "approved"
                         ELSE IF k \in S2 THEN "cancelled" ELSE "pending",
               tasks'[t].level = l
        PROVE  Done
    <3>1. tasks'[t].run = approval.startedAt /\ tasks'[t].status = "approved"
      BY <2>1, <2>4
    <3>2. ASSUME Mode[l] = "all", NEW k \in TaskId, tasks'[k].level = l,
                 tasks'[k].run = approval.startedAt
          PROVE  tasks'[k].status \in {"approved", "escalated"}
      <4>1. tasks[k].level = l /\ tasks[k].run = approval.startedAt
        BY <2>4, <3>2
      <4>2. tasks[k].status \in {"pending", "approved", "escalated"}
        BY <1>1, <4>1 DEF LevelInv
      <4>3. tasks[k].status = "pending" => k = t
        BY <2>1, <2>3, <3>2, <4>1 DEF LevelDone, Others, PendingAt, Pending
      <4> QED BY <2>4, <3>2, <4>2, <4>3
    <3> QED BY <2>1, <2>4, <3>1, <3>2 DEF Answered
  <2>5. CASE ApproveLast(r)
    <3> DEFINE S2 == Pending \ {t}
               tk == Closed(Closed(tasks, {t}, "approved", req[r].user), S2,
                            "cancelled", Nobody)
    <3>1. tasks' = tk
      BY <2>5 DEF ApproveLast, StartNothing
    <3>2. SamePlaces(tk) /\ \A k \in TaskId : tk[k].status =
            IF tasks[k].status # "pending" THEN tasks[k].status
            ELSE IF k \in {t} THEN "approved"
            ELSE IF k \in S2 THEN "cancelled" ELSE "pending"
      BY <1>1, <2>1, DecidedKeeps
    <3> HIDE DEF tk, S2
    <3> QED BY <2>1, <2>4, <3>1, <3>2 DEF SamePlaces
  <2>6. CASE ApproveNext(r)
    <3> DEFINE S2  == Others(r)
               run == req[r].seen.approval
               tk  == Closed(Closed(tasks, {t}, "approved", req[r].user), S2,
                             "cancelled", Nobody)
    <3>1. PICK m, who :
            /\ m \in Levels /\ IsFirst(m, NextLevels(run, req[r].cfg))
            /\ StartLevel(tk, Without(Others(r) \cup {t}), m, who,
                          run.startedAt, TRUE)
      BY <2>6 DEF ApproveNext
    <3>2. SamePlaces(tk) /\ \A k \in TaskId : tk[k].status =
            IF tasks[k].status # "pending" THEN tasks[k].status
            ELSE IF k \in {t} THEN "approved"
            ELSE IF k \in S2 THEN "cancelled" ELSE "pending"
      BY <1>1, <2>1, DecidedKeeps
    <3> HIDE DEF tk, S2
    <3>3. run = approval
      BY <1>1, <2>3 DEF OrderInv, SeenInv
    <3>4. m # l
      BY <2>1, <3>1, <3>3, NextLevelIsLater, LevelsAssumption DEF Run, Levels
    <3>5. \A k \in TaskId : tasks'[k] = tk[k] \/ tasks'[k].level = m
      BY <3>1 DEF StartLevel, NewTask
    <3>6. tasks'[t] = tk[t]
      <4>1. tasks[t] # NoTask /\ t[1] \in Nat /\ batches \in Nat
        BY <1>1, <2>1, BoundsAssumption DEF NoTask, TaskId, TypeInv, TypeOK
      <4>2. t[1] # batches + 1
        BY <1>1, <4>1, <2>1 DEF ApproverInv, FreshTasks
      <4> QED BY <2>1, <3>1, <4>2 DEF StartLevel, IsNew
    <3> QED BY <2>1, <2>4, <3>2, <3>4, <3>5, <3>6 DEF SamePlaces
  <2> QED BY <2>2, <2>5, <2>6
<1>2. TypeInv /\ ApproverInv /\ OrderInv /\ LevelInv /\ [Next]_vars =>
        [\A r \in Requests : InTime(r) => Done]_vars
  BY <1>1
<1> QED BY TypeInit, TypeNext, AnswersInit, ApproverNext, OrderInit, OrderNext,
           LevelInit, LevelNext, <1>2, PTL DEF Spec, LevelsAreAnsweredInTime

-----------------------------------------------------------------------------
(* What outlives an approval, and the history                                *)

\* No task is left or opened without an approval, as long as escalations name
\* nobody: an escalation to others does not look whether the approval still
\* runs.
LEMMA NoTaskNext ==
  ASSUME EscalateTo = {}, TypeInv, OrderInv, NoTaskWithoutApproval, [Next]_vars
  PROVE  NoTaskWithoutApproval'
<1>0. tasks \in TaskMap
  BY DEF TypeInv, TypeOK, TaskMap
<1>1. ASSUME ~Running' => \A t \in TaskId : tasks'[t].status # "pending"
      PROVE  NoTaskWithoutApproval'
  BY <1>1 DEF NoTaskWithoutApproval, Pending
<1>2. ASSUME approval' = approval,
             \A t \in TaskId : tasks'[t].status = "pending"
                               => tasks[t].status = "pending"
      PROVE  NoTaskWithoutApproval'
  BY <1>2 DEF NoTaskWithoutApproval, Pending, Running
<1>3. ASSUME NEW r \in Requests, ActMove(r) PROVE NoTaskWithoutApproval'
  <2>1. /\ tasks' = Closed(tasks, ActWithdraws(r), "cancelled", Nobody)
        /\ req[r].pc = "actCommit" /\ req[r].seen.version = version
    BY <1>3 DEF ActMove, Commit, StartNothing
  <2>2. ActWithdraws(r) = IF Running THEN Pending ELSE {}
    BY <2>1 DEF OrderInv, SeenInv, ActWithdraws, Running
  <2>3. Pending \subseteq ActWithdraws(r)
    BY <2>2 DEF NoTaskWithoutApproval
  <2>4. \A t \in TaskId : tasks'[t].status # "pending"
    BY <1>0, <2>1, <2>3, ClosedKeeps DEF Pending
  <2> QED BY <1>1, <2>4
<1>4. ASSUME NEW r \in Requests, ActSubmit(r) \/ ApproveNext(r) \/ SkipLevel(r)
      PROVE  NoTaskWithoutApproval'
  <2>1. CASE ActSubmit(r)
    <3>1. PICK L, l : approval' = [startedAt |-> version + 1,
                                   action |-> req[r].action,
                                   levels |-> L, current |-> l]
      BY <2>1 DEF ActSubmit, Commit
    <3>2. version + 1 # 0
      BY DEF TypeInv, TypeOK
    <3> QED BY <1>1, <3>1, <3>2 DEF Running, NoRun
  <2>2. CASE ApproveNext(r) \/ SkipLevel(r)
    <3>1. PICK run \in Run, l \in Levels : approval' = [run EXCEPT !.current = l]
      BY <2>2 DEF ApproveNext, SkipLevel, Commit, CommitFresh, TypeInv, TypeOK,
                  RequestsOK, Running
    <3>2. approval'.startedAt # 0
      BY <3>1 DEF Run
    <3> QED BY <1>1, <3>2 DEF Running, NoRun
  <2> QED BY <1>4, <2>1, <2>2
<1>5. ASSUME NEW r \in Requests, Reject(r) \/ ApproveLast(r)
      PROVE  NoTaskWithoutApproval'
  <2> DEFINE t == req[r].task
  <2>1. req[r].user \in Users
    BY <1>5 DEF Reject, ApproveLast, TypeInv, RequestsOK
  <2>2. PICK status \in {"approved", "rejected"} :
          tasks' = Closed(Closed(tasks, {t}, status, req[r].user),
                          Pending \ {t}, "cancelled", Nobody)
    BY <1>5 DEF Reject, ApproveLast, StartNothing
  <2>3. \A k \in TaskId : tasks'[k].status =
          IF tasks[k].status # "pending" THEN tasks[k].status
          ELSE IF k \in {t} THEN status
          ELSE IF k \in Pending \ {t} THEN "cancelled" ELSE "pending"
    BY <2>1, <2>2, DecidedKeeps
  <2>4. \A k \in TaskId : tasks'[k].status # "pending"
    BY <2>3 DEF Pending
  <2> QED BY <1>1, <2>4
<1>6. ASSUME NEW r \in Requests, ApprovePart(r) PROVE NoTaskWithoutApproval'
  <2>1. /\ approval' = approval
        /\ tasks' = Closed(tasks, {req[r].task}, "approved", req[r].user)
    BY <1>6 DEF ApprovePart, Commit, StartNothing
  <2>2. \A t \in TaskId : tasks'[t].status = "pending"
                          => tasks[t].status = "pending"
    BY <1>0, <2>1, ClosedKeeps
  <2> QED BY <1>2, <2>1, <2>2
<1>7. ASSUME NEW r \in Requests PROVE ~EscalateToOthers(r)
  BY DEF EscalateToOthers, OrderInv, SeenInv
<1>8. ASSUME NEW r \in Requests, Remind(r) \/ Stay(r)
      PROVE  NoTaskWithoutApproval'
  <2>1. UNCHANGED approval
    BY <1>8 DEF Remind, Stay
  <2> QED BY <1>2, <1>8, <2>1, MarkedTasks
<1>9. ASSUME UNCHANGED <<approval, tasks>> PROVE NoTaskWithoutApproval'
  BY <1>2, <1>9
<1>10. ASSUME NEW r \in Requests, Act(r) \/ Decide(r)
       PROVE  NoTaskWithoutApproval'
  BY <1>3, <1>4, <1>5, <1>6, <1>9, <1>10
     DEF Act, ActStart, ActRead, Decide, DecideReadTask, DecideReadInstance
<1>11. ASSUME NEW r \in Requests, Timer(r)
       PROVE  NoTaskWithoutApproval'
  BY <1>4, <1>7, <1>8, <1>9, <1>11
     DEF Timer, TimerStart, TimerReadInstance, EscalateTargets,
         EscalateWithoutTargets, SkipNothing, Finish
<1>12. ASSUME NEW r \in Requests, Retry(r) \/ Abandon(r)
       PROVE  NoTaskWithoutApproval'
  BY <1>9, <1>12 DEF Retry, Abandon
<1>13. CASE PublishConfig \/ UNCHANGED vars
  BY <1>9, <1>13 DEF PublishConfig, vars
<1> QED BY <1>10, <1>11, <1>12, <1>13 DEF Next

\* Where no level names somebody to escalate to, nobody is asked for a decision
\* that can no longer be taken.
THEOREM ApprovalsLeaveNoTask ==
  ASSUME EscalateTo = {}
  PROVE  Spec => []NoTaskWithoutApproval
<1>1. Init => NoTaskWithoutApproval
  BY DEF Init, NoTaskWithoutApproval, Pending, NoTask
<1>2. TypeInv /\ OrderInv /\ NoTaskWithoutApproval /\ [Next]_vars
        => NoTaskWithoutApproval'
  BY NoTaskNext
<1> QED BY TypeInit, TypeNext, OrderInit, OrderNext, <1>1, <1>2, PTL DEF Spec

\* The entry of a change goes from the state before it to the state after it.
Chained == lastEntry'.from = state /\ lastEntry'.to = state'

\* Entries of commits that are guarded by the version of what they read.
LEMMA GuardedEntries ==
  ASSUME TypeInv, OrderInv, NEW r \in Requests, Commits(r),
         ~EscalateToOthers(r), ~SkipLevel(r)
  PROVE  Chained
<1>1. req[r].pc \in {"actCommit", "decideCommit"}
      /\ \E newState, newApproval, by, action :
           Commit(r, newState, newApproval, by, action)
  <2>1. CASE ActMove(r)
    BY <2>1 DEF ActMove
  <2>3. CASE ActSubmit(r)
    <3>1. PICK newState, newApproval, by, action :
            Commit(r, newState, newApproval, by, action)
      BY <2>3 DEF ActSubmit
    <3> QED BY <2>3, <3>1 DEF ActSubmit
  <2>2. CASE Reject(r) \/ ApprovePart(r) \/ ApproveNext(r) \/ ApproveLast(r)
    BY <2>2 DEF Reject, ApprovePart, ApproveNext, ApproveLast
  <2> QED BY <2>1, <2>2, <2>3 DEF Commits
<1>2. /\ req[r].seen.version = version
      /\ lastEntry'.from = req[r].seen.state /\ lastEntry'.to = state'
  BY <1>1 DEF Commit
<1> QED BY <1>1, <1>2 DEF OrderInv, SeenInv, Chained

\* Whatever overlaps, the entry of an action or a decision continues the history.
THEOREM DecisionsChain ==
  Spec => [][version' # version /\ lastEntry'.action # "escalate" => Chained]_vars
<1>1. ASSUME TypeInv, OrderInv, [Next]_vars, version' # version,
             lastEntry'.action # "escalate"
      PROVE  Chained
  <2>1. PICK r \in Requests : Commits(r)
    BY <1>1, OnlyCommits
  <2>2. ASSUME NEW newApproval, CommitFresh(r, newApproval) PROVE FALSE
    BY <1>1, <2>2 DEF CommitFresh
  <2>3. ~EscalateToOthers(r)
    BY <2>2 DEF EscalateToOthers
  <2>4. ~SkipLevel(r)
    BY <2>2 DEF SkipLevel
  <2> QED BY <1>1, <2>1, <2>3, <2>4, GuardedEntries
<1>2. TypeInv /\ OrderInv /\ [Next]_vars =>
        [version' # version /\ lastEntry'.action # "escalate" => Chained]_vars
  BY <1>1
<1> QED BY TypeInit, TypeNext, OrderInit, OrderNext, <1>2, PTL DEF Spec

\* Approvals of one workflow wait in one state.
OneWaitingState ==
  \A a, b \in Actions : ActionDef[a].approval /\ ActionDef[b].approval
                        => ActionDef[a].to = ActionDef[b].to

\* So does the entry of a timer that skips a level, although it names the state
\* of an approval that may have been replaced: where the approvals of a workflow
\* wait in one state and no level names somebody to escalate to.
THEOREM HistoryChains ==
  ASSUME EscalateTo = {}, OneWaitingState
  PROVE  Spec => HistoryIsAChain
<1>1. ASSUME TypeInv, OrderInv, [Next]_vars, version' # version
      PROVE  Chained
  <2>1. PICK r \in Requests : Commits(r)
    BY <1>1, OnlyCommits
  <2>2. ~EscalateToOthers(r)
    BY <1>1 DEF EscalateToOthers, OrderInv, SeenInv
  <2>3. CASE SkipLevel(r)
    <3>1. /\ lastEntry'.from = req[r].seen.state
          /\ lastEntry'.to = req[r].seen.state
          /\ state' = state /\ Running /\ req[r].pc = "skip"
      BY <2>3 DEF SkipLevel, CommitFresh
    <3>2. /\ WaitsIn(approval, state)
          /\ WaitsIn(req[r].seen.approval, req[r].seen.state)
          /\ approval \in Run /\ req[r].seen.approval \in Run
      BY <1>1, <3>1 DEF OrderInv, SeenInv, WaitingInv, TypeInv, TypeOK, Running
    <3>3. approval.action \in Actions /\ req[r].seen.approval.action \in Actions
      BY <3>2 DEF Run
    <3>4. req[r].seen.state = state
      BY <3>2, <3>3 DEF WaitsIn, OneWaitingState
    <3> QED BY <3>1, <3>4 DEF Chained
  <2> QED BY <1>1, <2>1, <2>2, <2>3, GuardedEntries
<1>2. TypeInv /\ OrderInv /\ [Next]_vars =>
        [version' # version => lastEntry'.from = state /\ lastEntry'.to = state'
          ]_vars
  BY <1>1 DEF Chained
<1> QED BY TypeInit, TypeNext, OrderInit, OrderNext, <1>2, PTL
        DEF Spec, HistoryIsAChain
=============================================================================
