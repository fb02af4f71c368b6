-------------------------- MODULE AutomationChains --------------------------
(***************************************************************************)
(* How automations trigger each other (workflow-service,                   *)
(* automation.service.ts and workflow.service.ts; records-service and      *)
(* document-service as the callers of the events).                         *)
(*                                                                         *)
(* A step of an automation changes a record; the event of the change       *)
(* triggers automations again.  The event carries a depth, and a run at    *)
(* depth MAX_DEPTH is skipped.  What AutomationRuns says of one run (its   *)
(* key, its redeliveries, its failures) is not repeated here.  Records are *)
(* not deleted.                                                            *)
(***************************************************************************)
EXTENDS Naturals, Sequences, Bags

CONSTANTS
    Handlers,      \* deliveries and requests of users in progress
    Automations,   \* sequence of [entity, type, what, steps], in the order of the configuration
    Entity,        \* the entity whose record has a workflow
    Fields,        \* what users change
    FirstState,    \* of its instance
    Actions,       \* set of [from, to]: the workflow's actions, without approvals
    MAX_DEPTH,     \* 3 in the code
    MaxChanges,    \* bound: changes made by users
    MaxTroubles    \* bound: calls that fail or take longer than a status copy may

\* What a trigger without a target state says.
AnyState == "any"
None == "none"

\* What the configuration of automations looks like.
ASSUME ChainsAssumption ==
    /\ {MAX_DEPTH, MaxChanges, MaxTroubles} \subseteq Nat /\ MAX_DEPTH > 0
    /\ \A i \in DOMAIN Automations :
         /\ Automations[i].type \in {"created", "updated", "field_changed", "status_changed"}
         /\ \A j \in DOMAIN Automations[i].steps :
              Automations[i].steps[j].do \in
                {"update", "create", "document", "workflow_action"}

InstanceStates == {FirstState} \cup {a.to : a \in Actions}

VARIABLES
    events,        \* record events on their way: a bag, for the bus promises no order
    handler,       \* what each handler does
    instanceState, \* the state of the workflow instance
    owed,          \* its statusSync
    status,        \* the state as the record has it
    changes, troubles

chainVars == <<events, handler, instanceState, owed, status, changes, troubles>>

\* chain and lost are not in the payload: how many automations really led to the event,
\* and how many status copies among them had less than the depth of their change.
Event(entity, type, what, depth, chain, lost) ==
    [entity |-> entity, type |-> type, what |-> what,
     depth |-> depth, chain |-> chain, lost |-> lost]

NoRecordEvent == Event(None, None, None, 0, 0, 0)
IdleHandler == [pc |-> "idle", event |-> NoRecordEvent, todo |-> <<>>, step |-> 0]
Running(event, todo, step) == [pc |-> "run", event |-> event, todo |-> todo, step |-> step]
NothingOwed == [from |-> None, to |-> None, depth |-> 0, chain |-> 0, lost |-> 0]

Emit(e) == events' = events (+) SetToBag({e})

ChainsInit ==
    /\ events = EmptyBag
    /\ handler = [h \in Handlers |-> IdleHandler]
    /\ instanceState = FirstState
    /\ owed = NothingOwed
    /\ status = FirstState
    /\ changes = 0 /\ troubles = 0

-----------------------------------------------------------------------------
(* Triggers *)

\* A trigger of type field_changed is met by a record that is created with the field.
Matches(a, e) ==
    /\ a.entity = e.entity
    /\ CASE a.type = "field_changed" -> e.type \in {"created", "updated"} /\ e.what = a.what
         [] a.type = "status_changed" -> e.type = a.type /\ a.what \in {AnyState, e.what}
         [] OTHER -> e.type = a.type

Triggered(e) == SelectSeq(Automations, LAMBDA a : Matches(a, e))

\* The event comes and its automations are run one after the other.
OnRecordEvent(h, e) ==
    /\ handler[h] = IdleHandler
    /\ BagIn(e, events)
    /\ events' = events (-) SetToBag({e})
    /\ handler' = IF Triggered(e) = <<>> THEN handler
                  ELSE [handler EXCEPT ![h] = Running(e, Triggered(e), 0)]
    /\ UNCHANGED <<instanceState, owed, status, changes, troubles>>

-----------------------------------------------------------------------------
(* A run *)

Automation(h) == Head(handler[h].todo)
Depth(h) == handler[h].event.depth
Current(h) == Automation(h).steps[handler[h].step]
AtStep(h, do) ==
    /\ handler[h].pc = "run" /\ handler[h].step \in 1..Len(Automation(h).steps)
    /\ Current(h).do = do

\* The handler after this run: the next one, or none.
NextRun(h) ==
    LET b == handler[h]
    IN handler' = [handler EXCEPT ![h] =
                     IF Len(b.todo) = 1 THEN IdleHandler ELSE Running(b.event, Tail(b.todo), 0)]
NextStep(h) ==
    LET b == handler[h]
    IN IF b.step < Len(Automation(h).steps)
       THEN handler' = [handler EXCEPT ![h] = Running(b.event, b.todo, b.step + 1)]
       ELSE NextRun(h)

\* The event of a change that a step made.
Effect(h, entity, type, what, depth) ==
    Event(entity, type, what, depth, handler[h].event.chain + 1, handler[h].event.lost)

\* Mutant: the run is stopped one automation later.
BeginOneLater(h) ==
    /\ handler[h].pc = "run" /\ handler[h].step = 0
    /\ Depth(h) <= MAX_DEPTH
    /\ handler' = [handler EXCEPT ![h].step = 1]
    /\ UNCHANGED <<events, instanceState, owed, status, changes, troubles>>

\* The condition holds and the steps begin.
Begin(h) ==
    /\ handler[h].pc = "run" /\ handler[h].step = 0
    /\ Depth(h) < MAX_DEPTH
    /\ handler' = [handler EXCEPT ![h].step = 1]
    /\ UNCHANGED <<events, instanceState, owed, status, changes, troubles>>

\* Too deep, or the condition does not hold: the run is skipped.
Skip(h) ==
    /\ handler[h].pc = "run" /\ handler[h].step = 0
    /\ NextRun(h)
    /\ UNCHANGED <<events, instanceState, owed, status, changes, troubles>>

\* The record is updated; there is an event only if a value is another one than before.
Update(h) ==
    /\ AtStep(h, "update")
    /\ NextStep(h)
    /\ \/ Emit(Effect(h, Automation(h).entity, "updated", Current(h).what, Depth(h) + 1))
       \/ UNCHANGED events
    /\ UNCHANGED <<instanceState, owed, status, changes, troubles>>

\* A record of some entity is created.
Create(h) ==
    /\ AtStep(h, "create")
    /\ NextStep(h)
    /\ Emit(Effect(h, Current(h).entity, "created", Current(h).what, Depth(h) + 1))
    /\ UNCHANGED <<instanceState, owed, status, changes, troubles>>

\* The depth goes to document-service as it is, which adds one when it attaches the file.
Document(h) ==
    /\ AtStep(h, "document")
    /\ NextStep(h)
    /\ Emit(Effect(h, Automation(h).entity, "updated", Current(h).what, Depth(h) + 1))
    /\ UNCHANGED <<instanceState, owed, status, changes, troubles>>

\* A step fails: so does the run, and the next automation has its turn.
StepFails(h) ==
    /\ handler[h].pc = "run" /\ handler[h].step > 0
    /\ troubles < MaxTroubles /\ troubles' = troubles + 1
    /\ NextRun(h)
    /\ UNCHANGED <<events, instanceState, owed, status, changes>>

-----------------------------------------------------------------------------
(* Workflow actions and the copy of the state *)

\* act: the instance changes and owes its record a copy.  What is stored is only from and
\* to; the depth of the change stays with the handler.
Commit(action, depth, chain, lost) ==
    /\ instanceState = action.from
    /\ instanceState' = action.to
    /\ owed' = [from |-> instanceState, to |-> action.to,
                depth |-> depth, chain |-> chain, lost |-> lost]

\* An automation runs the action; it fails when the action is not available.
WorkflowAction(h) ==
    /\ AtStep(h, "workflow_action")
    /\ \/ /\ \E a \in Actions :
               /\ a.to = Current(h).what
               /\ Commit(a, Depth(h) + 1, handler[h].event.chain + 1, handler[h].event.lost)
          /\ handler' = [handler EXCEPT ![h].pc = "push"]
       \/ /\ \A a \in Actions : a.to = Current(h).what => instanceState # a.from
          /\ NextRun(h)
          /\ UNCHANGED <<instanceState, owed>>
    /\ UNCHANGED <<events, status, changes, troubles>>

\* pushStatus with this depth: setStatus refuses a record that is not in the state the
\* change began in; one that has the new state already needs no copy.
Copy(depth) ==
    /\ \/ owed.from = status
       \/ owed.to = status
    /\ owed' = NothingOwed
    /\ status' = owed.to
    /\ IF owed.from = status
       THEN Emit(Event(Entity, "status_changed", owed.to, depth, owed.chain,
                       IF depth < owed.depth THEN owed.lost + 1 ELSE owed.lost))
       ELSE UNCHANGED events

CanCopy == owed # NothingOwed /\ status \in {owed.from, owed.to}

\* The handler copies what is owed by now; a copy that is refused is left to the scheduler.
\* A user's push has depth 0, an automation's that of its event and one.
PushState(h) ==
    /\ handler[h].pc = "push"
    /\ IF CanCopy
       THEN Copy(IF handler[h].todo = <<>> THEN 0 ELSE Depth(h) + 1)
       ELSE UNCHANGED <<owed, status, events>>
    /\ IF handler[h].todo = <<>> THEN handler' = [handler EXCEPT ![h] = IdleHandler]
       ELSE NextStep(h)
    /\ UNCHANGED <<instanceState, changes, troubles>>

\* The call to records-service fails, which the handler survives.
PushFails(h) ==
    /\ handler[h].pc = "push"
    /\ troubles < MaxTroubles /\ troubles' = troubles + 1
    /\ IF handler[h].todo = <<>> THEN handler' = [handler EXCEPT ![h] = IdleHandler]
       ELSE NextStep(h)
    /\ UNCHANGED <<events, instanceState, owed, status, changes>>

\* The job of the copy falls due: pushStatus without a depth, which means 0.  It is due after
\* 30 seconds, so that a handler still about to push is one in trouble.
SchedulerPush ==
    /\ CanCopy
    /\ IF \E h \in Handlers : handler[h].pc = "push"
       THEN troubles < MaxTroubles /\ troubles' = troubles + 1 ELSE UNCHANGED troubles
    /\ Copy(0)
    /\ UNCHANGED <<handler, instanceState, changes>>

-----------------------------------------------------------------------------
(* Users *)

\* Somebody creates or changes a record.
UserWrites(type, field) ==
    /\ changes < MaxChanges /\ changes' = changes + 1
    /\ Emit(Event(Entity, type, field, 0, 0, 0))
    /\ UNCHANGED <<handler, instanceState, owed, status, troubles>>

\* Somebody runs an action of the workflow.
UserActs(h, a) ==
    /\ handler[h] = IdleHandler
    /\ changes < MaxChanges /\ changes' = changes + 1
    /\ Commit(a, 0, 0, 0)
    /\ handler' = [handler EXCEPT ![h].pc = "push"]
    /\ UNCHANGED <<events, status, troubles>>

Run(h) ==
    \/ Begin(h) \/ Skip(h) \/ Update(h) \/ Create(h) \/ Document(h) \/ WorkflowAction(h)
    \/ PushState(h)
    \/ \E e \in BagToSet(events) : OnRecordEvent(h, e)

ChainsNext ==
    \/ \E h \in Handlers : Run(h) \/ StepFails(h) \/ PushFails(h)
    \/ SchedulerPush
    \/ \E f \in Fields : UserWrites("created", f) \/ UserWrites("updated", f)
    \/ \E h \in Handlers, a \in Actions : UserActs(h, a)

ChainsSpec == ChainsInit /\ [][ChainsNext]_chainVars

-----------------------------------------------------------------------------
(* Properties *)

\* The type invariant: an event is never deeper than a run that is skipped.
ChainsTypeOK ==
    /\ \A e \in BagToSet(events) :
         e.depth \in 0..MAX_DEPTH /\ e.chain \in Nat /\ e.lost \in Nat
    /\ \A h \in Handlers : handler[h].pc \in {"idle", "run", "push"}
    /\ instanceState \in InstanceStates /\ status \in InstanceStates
    /\ owed = NothingOwed \/ {owed.from, owed.to} \subseteq InstanceStates
    /\ changes \in 0..MaxChanges /\ troubles \in 0..MaxTroubles

\* The chain of automations that led to a run which has begun its steps is shorter than
\* MAX_DEPTH, but for the copies made by the scheduler, or by a handler that is less deep,
\* which begin at a smaller depth again (pushStatus): each of them is worth MAX_DEPTH more
\* automations at most.
BeginsInTime ==
    \A h \in Handlers :
        handler[h].todo # <<>> /\ handler[h].step > 0 =>
            handler[h].event.chain < MAX_DEPTH * (handler[h].event.lost + 1)

\* No run follows MAX_DEPTH automations that led to it, "so they cannot loop forever"
\* (automation.service.ts:45).
AutomationsStop ==
    \A h \in Handlers :
        handler[h].todo # <<>> /\ handler[h].step > 0 => handler[h].event.chain < MAX_DEPTH

\* What MAX_DEPTH promises of chains of automations.
ChainsAreBounded == ChainsTypeOK /\ BeginsInTime
=============================================================================
