# TLA+ models and proofs of erp-global

The repository is a multi-tenant ERP made of NestJS services, a library of shared
packages and a web application. Each service owns one MongoDB database per company.
Services call each other over HTTP (`/internal/...`) and send each other events
through NATS JetStream. Every service may run in several replicas, so what looks like
one class in the source is several processes over one database.

This directory holds the models of the parts whose correctness depends on how steps of
several actors interleave, and of the pure code whose cases are too many for tests; the
TLC configurations that check small instances of them; and theorems that TLAPS proves for
all values of the constants.

- Modules: one per component, `MC*` for the values TLC needs and for runs of several
  components, `*_proofs` for theorems.
- `PROJECT.json`: the index. Components, runs, what each definition translates
  (`map`), mutants, findings, hazards and theorems.
- Paths below are relative to the repository root. `W`, `AU`, `RS`, `CS`, `AC`, `ID` and
  `TN` stand for `apps/workflow-service/src/workflow.service.ts` and
  `automation.service.ts`, `apps/records-service/src/records.service.ts`,
  `apps/config-service/src/config.service.ts`, `apps/access-service/src/access.service.ts`,
  `apps/identity-service/src/auth.service.ts` and `apps/tenant-service/src/tenants.service.ts`.

To run: `tlc -workers 2 -config ApprovalsRace.cfg MCApprovals` (the module of each
configuration is in `PROJECT.json`), `tlapm Approvals_proofs.tla`.

## 1. The system

### 1.1 Mechanisms that all services share

| Mechanism | Where | State | Operations |
|---|---|---|---|
| Outbox | `packages/events/src/outbox.ts` | `outbox` rows: status, lockedUntil, attempts, availableAt | `record` (in the caller's transaction), `flush` (claim, publish, mark or back off) |
| Bus | `packages/events/src/nats-bus.ts` | two streams with a duplicate window of 2 min; one durable consumer per service | publish with the event id as message id, deliver, ack, nak with a delay, 20 deliveries at most |
| handleOnce | `packages/events/src/consumer.ts` | `processed_events` | the marker and the handler's change in one transaction |
| Jobs | `apps/workflow-service/src/jobs.ts`, `scheduler.ts` | `jobs`: dueAt, lockedUntil | put, claim with a lease of 60 s, finish, retryLater, remove |
| Tenancy | `packages/tenancy` | connection per company | choose the database of a request or event |
| Configuration cache | `packages/service-kit/src/config-client.ts` | version and effective configuration per company | read through, invalidate on a publish event |

Every write that others must hear of writes its outbox row in the same transaction;
every subscriber is expected to be called more than once.

### 1.2 Components

For each one: its state, its operations, what is hard, and what makes it correct.

**workflow-service, approvals** (`workflow.service.ts`). State: `workflow_instances`
(state, approval run, version, history, statusSync), `approval_tasks`, `jobs`.
Operations: `act`, `decide`, the task timer (`onTaskTimer`, `escalate`), the daily
digest. It reads records, the directory (access, org, identity) and the configuration,
then writes in a transaction guarded by `version`. Hard: everything read before the
guard may be old; timers run in any replica; a level may be skipped, removed from the
configuration or have nobody to approve it. Correct when a running approval can always
be decided, nothing waits without one, nobody approves a request of their own, levels
come in order and only after they were answered, and the history tells what happened.

**workflow-service, status copy** (`pushStatus`, and `setStatus` of records-service).
State: `statusSync`, the `status_sync` job, `record.status`. Hard: the call is lost,
late or repeated; a new change comes before the old one was copied. Correct when the
record follows the history of the instance and reaches its state.

**workflow-service, automations** (`automation.service.ts`). State: `automation_runs`,
one per run key, and schedule jobs. Operations: run on a record event, retry by an
administrator, run on a schedule, sync schedules after a publish. Hard: redelivery,
crashes inside a run, steps with effects elsewhere, two replicas on one schedule job.
Correct when a run executes once per attempt and by one handler, what it creates exists
once, its result is true and it gets one; and when each record is run once for each
scheduled time and the schedule is not lost.

**audit-service**. State: `audit_records` (seq, prevHash, hash), `audit_heads`.
Operations: append one record per event, verify, search, retention. It hears every
event. Hard: several replicas append to one chain; verify walks it meanwhile. Correct
when the chain never forks, each event is in it once, and verify finds every change.

**org-service**. State: `org_units` (parentId, materialized path, depth, status).
Operations: bootstrap, create, rename, move, deactivate, reactivate. A move sends
`OrgUnitMoved`; records-service and access-service rewrite the paths they copied. Hard:
commands check what they read before their transaction. Correct when paths, depths and
parents agree, there is no cycle, active units are under active ones, and the copies
agree in the end.

**records-service**. State: records with values, status, lock, orgPath and source key,
`unique_values`. Operations: create (also by automations and packs, with a source key),
update, remove, setStatus, removeBySource, applyOrgMove; field rules, defaults, copied
values and formulas on the way; the report engine only reads. Hard: the guards differ
from one operation to the next (updatedAt, status, none), and each one calls other
services between its read and its write. Correct when unique values stay unique, a
locked record is not edited, a source key makes one record, the events tell what
happened, and what is stored obeys the rules.

**config-service** and **packages/metadata**. State: the draft with its revision, the
published versions, number counters, and in each replica the newest version for a second;
in the other services a cached configuration. Operations: edits of the draft, installing
and removing packs, publish, roll back, discard, `effective`, `nextNumber`. A
configuration is layers: packs, what packs retired, the company, the branches. Hard: no
revision guard on the draft at publish; every replica validates against what it
remembers; caches. Correct when versions are a sequence in which nothing published ever
disappears, changes apply to the draft they were made for, readers see what was
published, and no document number is given twice.

**identity-service** and the **sign-in of the web application**. State: users, sessions
with their present and replaced refresh tokens, one-time tokens, OTP codes, login
failures; in the browser a cookie that all tabs share. Operations: login, refresh,
logout, password reset, codes by mail, SSO. Hard: two refreshes of one token, a
revocation meanwhile, answers that set or clear the cookie in any order. Correct when
one rotation wins, a revoked session gives nothing more, a code works once, and tabs that
only refresh stay signed in.

**tenant-service**. State: tenants and their company URL. Operations: the signup saga
over three services with compensations in reverse, suspension. Hard: crashes and lost
answers between steps. Correct when a signup ends active or leaves nothing.

**access-service**. State: roles, assignments, duty delegations. Operations: role and
assignment changes, permission evaluation, system assignments, path rewrites. Hard: what
is checked first (last administrator, role in use) and written later. Correct when a
company keeps an administrator and no assignment lacks its role.

**reporting-service**. State: export jobs, report schedules, dashboards. Operations:
queue, claim with a lease, render, finish; run a schedule. Correct when an export runs
and is announced once and is never forgotten, and a report is sent once per scheduled time.

**notification-service**. State: inbox, preferences, `sent`. Operations: mails and user
messages on several channels. Correct when each (request, user, channel) is delivered
once.

**pack-service**: installs packs and sample records; correct when samples are there as a
whole or not at all. **file-service**: objects and their rows. **document-service**:
stateless PDF rendering. **reference-data-service**: constant tables. **api-gateway**: a
stateless proxy. **web**, besides its sign-in: pages that show what the services answer.
**packages/contracts, auth, tenancy, service-kit, testing, packs**: types, tokens,
connections, helpers and pack data.

`PROJECT.json` lists under `hazards` what is hard to test in all of them, with the line
where it bites and the property that is about it.

## 2. What is modelled

| Module | Component | Stands for |
|---|---|---|
| `Approvals` | approvals | one instance, its tasks and timers, overlapping requests and workers |
| `StatusCopy` | status copy | one instance, its record, overlapping pushes |
| `AutomationRuns` | automations on events | runs of one automation for some events, redelivery, retry |
| `AutomationChains` | automations that trigger each other | events of records and of one workflow, the automations they trigger |
| `Schedules` | scheduled automations | one schedule job, replicas, publishes |
| `EventContract` | what delivery promises | the abstract specification |
| `EventDelivery` | outbox, bus, handleOnce | rows, stream copies, markers; implements `EventContract` |
| `AuditChain` | audit-service | one chain, replicas that append, verify |
| `OrgTree`, `OrgPaths` | org-service; paths in records- and access-service | one tree, overlapping commands; the copies and move events |
| `RecordWrites` | records-service | the records of one entity, one unique field, source keys, overlapping writes |
| `RecordRules` | records-service, metadata | what a save makes of the values that were sent |
| `PackLayers`, `ConfigPublish` | metadata, config-service | configurations as layers; the draft, its writes, publishing |
| `ConfigReads` | config-service, service-kit | the memory of replicas and the client's cache |
| `Numbering` | config-service, metadata | the counters of document numbers |
| `Periods` | metadata, report engine | days in periods, computed in the services and in the database |
| `Metadata` | metadata | what these two promise |
| `Sessions`, `BrowserSignIn` | identity-service; web | one user's sessions; the tabs of a browser over them (extends `Sessions`) |
| `OneTimeCodes` | identity-service | the codes of one user and purpose |
| `Signup` | tenant-service | sign-ups for one company URL |
| `RoleAssignments` | access-service | roles and assignments of one company |
| `Exports`, `ReportSchedules` | reporting-service | the export queue; one schedule |
| `Notifications` | notification-service | one request for user notifications |
| `PackSamples` | pack-service | the samples of one pack |
| `Services` | the small parts of six services | what they promise together |

One rule is the same everywhere: **a transaction is one step, and each read of shared
state that another actor can overtake is a step of its own.** What a handler keeps in
local variables between the steps is in `req`, `push`, `handler`, `worker`, `calls`,
`visits`, ..., with what it does next in `pc` or `op`. A crash drops these locals and
nothing else. A read followed by calls to other services is one step for the read; the
calls are left out, and that one of them fails is `Abandon`, `Forget`, `GiveUp`, ...
History variables are named as such in each module; no guard reads them.

### 2.1 Approvals

`state`, `approval`, `version`, `lastEntry` are the instance; `tasks` and `jobs` are
indexed by `<<batch, user>>`, where a batch is one call of `startLevel`, as the code
creates one task per user and call. `lastEntry` is the newest history entry: older ones
are never read again. An approval run is named by the version that started it.

| Code | Actions |
|---|---|
| `act` (W:461) | `ActStart`, `ActRead`, then `ActMove` or `ActSubmit` |
| `decide` (W:659) | `DecideReadTask`, `DecideReadInstance`, then `Reject`, `ApprovePart`, `ApproveNext` or `ApproveLast` |
| `onTaskTimer`, `escalate` (W:896) | `TimerStart`, `TimerReadInstance`, then `Remind`, `EscalateTargets` and `EscalateToOthers`, `SkipLevel`, `SkipNothing` or `Stay`, and `Finish` |
| `retrying` (W:178) | `Retry` |
| failures, crashes, leases | `Abandon`, and that `TimerStart` does not exclude a second worker |
| a publish | `PublishConfig` |

Conditions of levels are abstracted to any choice of levels, the directory to any of the
sets `Resolve` allows. When due times pass is left open: a worker may come at any time.

### 2.2 StatusCopy

`sync` is `statusSync`, `job` the change that put the job (0 without one), `late` the
calls whose caller gave up and that may still be applied. `Act` is any committed change;
`ReadSync`, `PostOk`/`PostRefused`/`PostFails`, `CheckRecord`, `Clear`, `RemoveJob` are
the lines of `pushStatus`. Locks and authorization of the record are left out.

### 2.3 AutomationRuns and Schedules

`run[e]` is the run record, `executions` counts how often its steps were started,
`effects` what the steps did elsewhere. `CreateRun` is the insert with the unique run
key, `Prepare` what happens between it and the first step, `Throws` a failing call or
a crash anywhere. In `Schedules`, `slot` is the scheduled time a job stands for and `due`
the time it is claimed at: `retryLater` changes only the second, as in the code.
Every publish event starts a `syncSchedules` on some replica, next to those that still
run: `sync[s]` is one of them, which reads the configuration (`SyncRead`), then the jobs and
the clock (`SyncList`), and then puts or removes (`SyncWrite`); its event may come again
while it runs or after it stopped (`SyncAgain`). The automation is switched on and off;
its times do not change.
`RunRecord` takes `AutomationService.run` from the other module as one step.

`AutomationChains` is what `AutomationRuns` leaves out: `OnRecordEvent` finds the
automations of an event and runs them in their order, each step makes an event with a
depth one greater (`Update`, `Create`, `Document`), or changes the workflow of the record
(`WorkflowAction`) whose state is copied afterwards (`PushState`, or `SchedulerPush` when that
failed or took longer than 30 s). Values are not kept: an update changes something or not, a
condition holds or not. `chain` and `lost` in an event are history: how many automations
led to it, and how many copies on the way had less than the depth of their change.

### 2.4 EventDelivery

A row is `none`, `pending`, `published` or `deleted` (a request, whose row is removed when
it was published). `stream` holds the copies of an event: a second one exists when a
publish is repeated after the duplicate window (`window`) has forgotten the id. Each
fault (failed publish, lost mark, stopped relay, expired window, ack_wait passed, failing
or stopped handler) is an action that counts towards `MaxFaults`. `ChangeRefused` is not
one of them: the change of an event writes a key that a unique index of the subscriber
holds already, `handleOnce` takes the error for the marker's own (`consumer.ts:72`), and the
message is acknowledged with nothing done. `refused` remembers these events.

### 2.5 AuditChain

A hash is the sequence of contents it was computed from. This is what a collision-free
hash would give, and nothing else of SHA-256 is used. `CommitAppend` is the transaction
with its three guards (marker, unique position, head). A position that was in use before
the transaction began (`taken`) is refused for good by the index on `seq`, and the event is
acknowledged without a record (`RefuseAppend`); one that was taken since is a write conflict,
which MongoDB retries (`FailAppend`). `NothingDropped` says that the first does not happen
while nobody changed the chain. `Edit`, `DeleteRecord`, `Insert` change
the collection behind the service. `first` and `moved` in the verifier are history.

### 2.6 OrgTree and OrgPaths

A path is the sequence of unit ids, which is what the string of ids and slashes stands
for. Each command is two to four steps, one per query. `overlap` is a history variable:
a command wrote although another one had written since its first read. `mixed` is one
for the copies: an event overtook another, or a path was stored after an event that
should have rewritten it. A path is stored by a create, and by an update that moves the
record to another unit: `writing` says which requests have read the present version of a
record, and an update commits only then (the guard by `updatedAt`, which a rewritten path
changes too).

### 2.7 RecordWrites and RecordRules

`docs` is the collection, `uniques` the collection of unique values (value to holder),
`log` the outbox rows in the order of their transactions. Each operation reads its record
(`Create`, `Update`, `Delete`, `SetRecordStatus`, `RemoveBySource`) and commits with its own
guard: `CommitUpdate` by the time of the last write (`stamp`), `CommitStatus` by the
status, `CommitDelete` by nothing; `CommitCreate` is refused by the indexes only. `stamp`
is the number of the write, that is, two writes of one record are taken to be at least a
millisecond apart. Values, statuses and keys are the smallest sets that can collide.

`RecordRules` is `create`/`update` as one operator, `Save`: field rules
(`ApplyFieldRules`, whose two loops over the rules are the recursive functions `Pass` and
`Revert`), values from a linked record (`FillDefaults`), defaults, merge and
formula (`ValidateRecord`), and the rules on the result (`Refuses`). Its transitions are
saves with all bodies a client may send, for an entity with one field of each kind. The
properties compare what is stored with what the rules say, for every body.

### 2.8 PackLayers, ConfigPublish, ConfigReads and Numbering

In `PackLayers` a layer has an item or none for each field: its type, whether it is archived,
whether a pack locked it, and a label for the rest; fields stand for all keyed content.
`InstallPack`, `RemovePack`, `Retire` and `WithArchivedLeftovers` are pack-ops.ts and diff.ts.
`Publishable` is what validateTenantConfig asks of a version after another: nothing published
removed, types changed only to compatible ones (`Keeps`), locked items left alone
(`KeepsLocked`), packs' locked fields neither retyped nor archived (`LocksHold`). What it asks
of the merged configuration alone (`checkMerged`: shapes, references, cycles) is left out, and
so are patches, the fields that a country pack adds to other packs' entities. A field has one
pack that may ship it (`Owner`): the packs of the repository prefix the keys of their
entities. `ConfigPublish` puts requests over them. A draft write is computed on a read
draft and guarded by its revision (`WriteDraft`, tried again up to `MaxAttempts` times);
`SaveVersion` is guarded by the version number alone and overwrites the draft, as does
`WriteDiscard`. `latest` is what each replica remembers.

In `ConfigReads` a call of `effective()` joins the version request in flight or sends one
(`question`), uses what is kept or fetches from a replica that may remember an older
version. `told` is the newest version whose publish has answered: what a user may expect
to see. `excused` marks the two ways in which the code returns an older one (3.4).

`Numbering` draws numbers for branches that have their own series or the company's. A pattern
is a sequence of tokens and literal characters and a number the characters it prints, with
decimal digits, padding and fiscal labels as the code makes them (`Render`). `nextNumber` reads
the configuration twice, the series first (`Ask`) and then the layer that defines it
(`AskLayer`); `Reconfigure` publishes another series of a layer, or takes it out, or moves the
start of the fiscal year, at any time.

### 2.9 Periods

A day is a number, 0 for Saturday 1 January 2000, a month the number of months since then,
and the calendar is the Gregorian one: `Utc` is the first day of a month in closed form, with
the leap years of centuries, and `MonthOf` the month a day is in. `BucketKey`, `BucketRange`,
`ThisPeriod`, `LastPeriod`, `PreviousRange` are dates.ts, `DatabaseKey` is the expression that
report-engine.ts makes the database evaluate. The ISO week of the database (`%G-W%V`) is
defined from the first week of a year (`DatabaseWeek`), the one of the code from the Thursday;
fiscal years and quarters are two computations too. A day, a month and a calendar year are
read off the date by both, so there is nothing to compare. `AddWorkingTime` is in hours: it walks over
`WalkDays` days (800 in the code) and, when they hold too few working hours, adds calendar
hours to the start as the code does (`dates.ts:231`).

### 2.10 Sessions, BrowserSignIn and OneTimeCodes

A token is its place in the chain of its session. A client may present any token that
was given out (`Given`). `Exchange` is guarded by the token and by the session being open;
a replaced token ends the session unless it was replaced within the grace (`recent`).
`account` is the user, whose deactivation is written before the sessions are revoked.

`BrowserSignIn` adds tabs, each with two ways to refresh that do not wait for each other,
the cookie (`jar`) and answers on their way. The cookie of an answer counts when the
answer arrives. Two assumptions: an answer arrives within the 30 s of the grace, and a
refresh request reaches the service before the grace of its token ends.

In `OneTimeCodes` age is in four steps (now, a minute, expired, an hour); guards and
transactions are those of otp.service.ts: every try counts before the comparison.

### 2.11 Signup, RoleAssignments, PackSamples

Sagas and commands without a lock. Each step of a saga may work, fail or work with its
answer lost; each undo may fail; a crash ends the saga where it is. In `PackSamples` a call to
records-service is given up after ten seconds and may go on there: `creating` and `taking`
are what such calls still do (`CreateLate`, `TakeLate`), and `stray` the samples they made.
`astray`, `tangled`, `halted` and `crossed` remember that something happened for which the code has no answer,
so that the properties say exactly when the promise holds.

### 2.12 Exports, ReportSchedules, Notifications

Leases are "held" or "over"; when one ends is left open, also while the worker still
runs. Results are written by identifier only, as in the code. `outlived`, `troubled`,
`raced` and `unmarked` are the histories that excuse. The recipients of a notification are
those with the preferences of the moment; a provider takes a message, fails, or takes
it and the answer is lost. The insert of an inbox item may fail too, stored or not
(`TurnFails`); only the duplicate of one that is there passes for a success.

### 2.13 Runs of several components

Four MC modules put parts that share no state into one run, to keep the number of
configurations readable. `part` chooses one in the initial state, for good, and the
others do not move; a property of a part is `part = "..." => ...`, or holds of them where they
stay. So these runs are the
separate runs side by side, not a product.

- `MCDelivery` extends `EventDelivery`, `StatusCopy` and `AutomationChains`. The parts that
  are not chosen stay where they begin, where none of their fair actions is enabled, so
  the conjunction of the fairness conditions is that of the chosen part.
- `MCOrganization` extends `Approvals`, for approvals that are not escalated to other people,
  and `OrgPaths`.
- `MCConfiguration` extends `MCConfigPublish`, `ConfigReads`, `Numbering`, `MCRecordRules` (the
  rules that TLC tries) and `Metadata`, where the two properties that are costly to evaluate
  say which part they are about.
- `MCServices` extends `AutomationRuns`, `Schedules`, `AuditChain`, `RecordWrites` and
  `Services`, which in turn extends `OneTimeCodes`, `BrowserSignIn` (over `Sessions`),
  `RoleAssignments`, `Signup`, `PackSamples`, `Exports`, `ReportSchedules` and
  `Notifications`. The parts not chosen stay in an initial state of theirs, so their
  invariants hold of them too; only the sessions begin in one of two ways, as those of a
  browser or as those of any clients.

Modules that are extended together share a name space, which is why initial states, next-state
relations and specifications are named after their module (`AuditInit`, `CodesNext`,
`ExportsSpec`, ...) in all but the module that comes first. `Services` also states what
several of its parts promise in one property each: `CredentialsWorkOnce`, `AllOrNothing`,
`OutputsGoOutOnce`; the specification of several parts is the conjunction of theirs, and
theorems about these properties are about that conjunction.

## 3. Runs

All safety properties are invariants or action properties; temporal ones are said to be
so. `CHECK_DEADLOCK FALSE` is set everywhere because every instance is bounded and stops
at its bounds, and because a system without work does stand still.

| Run | Shows | Instance |
|---|---|---|
| `ApprovalsRace` | With named escalation targets and reminders: a running approval has an open task on its level (`RunningHasApprover`); no self-approval; answers are final; levels come in order; timers only advance; a level moves on by a decision on an open task only when it was answered | 3 people (one the requester, with a delegation to the requester), 2 levels ("any", then "all"; the second role may be vacant), level 1 removable and escalated to others, only the requester cancels, 2 handlers in progress, 3 versions, 3 started levels |
| `ApprovalsStaleDecision` | **Violation.** A decision read before another one committed completes the level after it | 2 deciders |
| `ApprovalsLateEscalation` | **Violation.** An escalation opens tasks after the approval ended | 3 people, level 1 escalated to others, level 2's role may be vacant, 4 versions, 2 started levels |
| `Delivery` | No failure loses an event, each takes effect at most once, and (temporal) once in the end unless an index of the subscriber refuses it, which implements `EventContract`; a record makes only changes its instance made, a debt has its job, and (temporal) the copy converges unless overtaken; chains of automations are as long as the limit allows, and longer only by copies that were made with a smaller depth | 1 event, 2 relays, 2 subscriber replicas, 4 copies, 4 faults, 5 deliveries; 3 states, 2 pushes at once, 3 changes, 3 failures; 4 automations in circles, 1 change by a user, 1 call that fails or is late |
| `StatusCopyOvertaken` | **Violation.** (temporal) A second change before the retry of the first leaves the record behind | 1 push at a time, 2 changes, 1 failure |
| `AutomationRunsStuck` | **Violation.** (temporal) A run stays "running" | 1 event, 2 handlers, 2 steps, 1 fault |
| `Organization` | Depths follow paths always; paths follow parents, activity, depth limit and copies if nothing was written on top of what was not read. Where no level names somebody to escalate to: without an approval no task is open, and the history is a chain | 5 units, a line of four and a free id, depth limit 4, 2 requests, 2 changes, 1 record whose unit is updated; an approval of 2 levels, the first skipped when late, the second's role may be vacant, 4 versions, 3 started levels |
| `ChainsForgotten` | **Violation.** The scheduler copies a state for an automation and the chain is counted from 0 again | as in `Delivery` |
| `Configuration` | A version keeps what the one before it has; pack changes and rollbacks give drafts that can be published unless a type or a lock is in the way; a revision identifies a draft; readers are current; numbers differ where patterns print different counts differently; saves obey the rules; periods fit each other, drill-down and the database, and working time is counted | see 3.1 |
| `RulesRefuseUpdates` | **Violation.** A rule whose condition does not hold refuses a good update | the rule sets of `MCRecordRules`, both entities, 2 prices, 2 notes |
| `Services` | The thirteen parts of `MCServices`, one property each or one for two that promise the same | see 3.1 |
| `BrowserSignedOut` | **Violation.** Two tabs refresh at once and are signed out | 2 tabs, 1 session, 3 tokens, nothing lost |

### 3.1 Bounds

Every bound is a constant named `Max...` in its module, and each caps a counter that the
code does not have; `MAX_DEPTH` (that of units), `MAX_ATTEMPTS`, `KeptHashes`, `OtpPerHour`,
`MaxTries` and `MaxAttempts` are the code's own limits, made smaller. Why they are enough
for what is asked:

- Two handlers in progress: each property is about a pair of them, and the transaction
  of one is what makes the local state of the other old. A third does not make the
  second older. In `AutomationRuns` the two are a redelivery and an administrator who
  retries, or two of either.
- Three versions of an approval: submit, decide, decide; or submit, cancel, submit. The
  shortest violations of the two findings have three and two. `Organization`, where timers
  only skip levels, has a fourth.
- Delivery: four faults let one event be published twice, stored twice, time out and
  crash in one behaviour. That several events do not disturb each other is proved.
- Chains: the code's own limit of three automations, two handlers, and automations that
  answer each other through the workflow, through a field and through new records.
- Tree: a line of four below a limit of four, so that a move can be one level too deep
  and a create too; two moves are the least that can overlap.
  When the changes are used up no further command begins that could not write
  (`TreeBounds`).
- `ConfigPublish`: two fields of one pack in two editions (the first locks a text and has
  another, the second makes the locked one a longer text and drops the other), the company's
  own longer version of the locked one, one branch, two administrators on two replicas, four draft writes, two versions:
  install, publish, upgrade or remove, publish; the second publish of two at once fails
  at the number. `ConfigReads`: two calls, two replicas, two published versions.
- `Numbering`: two numbers, two requests, a new year within one fiscal year from April or
  between two from January, every assignment of four kinds of series to a company and a
  branch (two of them can print one text), one change of the configuration. `Periods`: days 8776 to 9876 are 2024 to the start of
  2027 (a leap year, a year of 53 ISO weeks), walked from two days at once, with fiscal
  years from January, April and December; a walk over 5 days finds 8 and 9 hours and
  often not 20. `RecordRules`: every rule alone and pairs in which
  one sets a value or both protect, for all bodies.
- `RecordWrites`: four writes: create, create, lock or delete, and one more. Three
  records fight for two values and one key.
- `Sessions`: one replaced token is remembered instead of ten, so that tokens are forgotten
  within the three of a session. `OneTimeCodes`: a limit of two codes an hour and two tries,
  and three codes, so that both limits are met and passed by.
- `Signup`: three companies want one URL. `Exports`: two exports, three attempts, taken up
  to four times, so that the last attempt outlives its lease. `ReportSchedules`: two groups,
  two scheduled times, of which one meets outlived leases or crashes (`ReportBounds`), one
  edit. `RoleAssignments`: two administrators' commands; the step that lets two commands on
  one role cross is the last one (`AccessBounds`), as only the keys of roles are promised
  after it, and these `RolesAreWhole` proves whatever crosses. `Notifications`: one recipient, three channels, two
  deliveries (at once, or one after the other). `PackSamples`: two samples, one
  create at a time that goes on after it was given up. `Schedules`:
  two replicas, two syncs at once, two records, a clock to 4 (two periods), two publishes,
  and one thing that goes wrong: a failing pass, a crash, a lost lease or an event that comes
  again (`ScheduleBounds`; the proof has no such bound). `AuditChain`: two events and a forged record, two changes behind
  the service's back. `AutomationRuns`: two events, two steps, three deliveries and
  attempts, two faults. `BrowserSignIn`: two tabs with one way each (both ways in
  `BrowserSignedOut`), two sessions, two exchanges in all; the first trouble is the last
  step (`BrowserBounds`), as nothing is promised of the cookie after one.

Symmetry is used for the request slots of the approval runs and of `Organization` and for
the administrators and replicas of `Configuration`; never in a run with temporal properties.

### 3.2 Fairness

Only the runs with temporal properties need it: `Delivery`, `StatusCopyOvertaken` and
`AutomationRunsStuck`.
`StatusCopy`: each push goes on (a request or worker that neither crashes nor fails runs
to its end) and a worker starts while there is a job (the scheduler polls every 15 s). A
crash is a step that may happen, a bounded number of times.
`EventDelivery`: relays poll every 250 ms, consumers pull, locks end by the clock. There
is no fairness on recording, on faults or on the end of the window.
`AutomationRuns`: a handler that runs goes on and a ready message is delivered. There is
none on administrators: they retry only if they like.
All of it is weak fairness per process; nothing assumes that a failure stops.

### 3.3 Findings

The violation runs, each a documented promise the code does not keep:

1. `decide` guards its write by the version of an instance that it reads **after** the
   task (W:665, W:680). A decision that was on its way while another one completed its
   level counts for the level that runs now, and completes it when its own level has no
   open task (W:788). `LevelsAreAnsweredInTime` shows that decisions on tasks still open
   are counted right, so checking that the task is still pending in the transaction
   would be enough. (In `ApprovalsRace` `published` changes too: removing a level from the
   workflow between two decisions does no harm.)
2. `escalate` with targets reads the instance again for its version but not to see if
   the approval still runs (W:979). `SkipLevel` has that check and is not affected:
   `ApprovalsRace` checks it.
3. `statusSync` is overwritten by the next change (W:526), and the record refuses the new
   copy because it never got the old one. `SettledCopyConverges` shows that this is the
   only way: lost, late and repeated calls and crashes alone do no harm.
4. A run is stored as "running" before the calls it needs (AU:188). When one of them
   fails or the process stops, redelivery finds the run key and gives up, and `retryRun`
   only takes failed runs.
5. With an active rule, an update is validated together with the stored values (RS:657).
   Those include calculated ones, which the validation refuses as input: no user can
   change such a record any more, whether the rule's condition holds or not. Archived
   fields that still have a value are refused the same way.
6. Every refused refresh clears the cookie (`identity.controller.ts:150`), which all tabs
   share. When two refreshes of one browser overlap, the loser is refused, and its answer
   deletes what the winner's has set. The grace of 30 s (ID:50) keeps the session but not
   the cookie; `SignInKept` shows that nothing worse happens.
7. The depth of a workflow change lives only in the request that made it. When the copy
   to the record fails or is late, the scheduler makes it with depth 0
   (`scheduler.ts:74`, W:196), and the event of it is taken for a user's: automations that
   answer each other go on for another `MAX_DEPTH` runs. `ChainsAreBounded` shows that
   copies of this kind are the only way past the limit. A slower handler can make the copy
   of another one too, with its own depth.

### 3.4 Known counterexamples

Found with the same modules and larger constants or stronger properties, not kept as
runs of their own. Several are the exceptions that the properties name.

*workflow-service*
- `RemoveJob` of `StatusCopy` removes the job of a later change (W:220). A worker
  that took over hides it only while another push is in progress. That is why
  `DebtKept` excludes copies that were overtaken.
- `HistoryIsAChain` fails where a timer moves an approval on (`EscalateTo`): it builds the
  history entry from the instance it read, then reads the instance again to commit (W:957,
  W:980). A cancel between the two leaves an entry "pending" to "pending" in a draft.
- A skip that finds no approvers for the next level returns normally, so `Finish` deletes
  the timer and nobody escalates any more (W:1017).
- A retried run repeats the steps that had worked; only created records have a source key
  (AU:233).
- `OncePerSlot` fails after a pass that threw: `retryLater` (`scheduler.ts:97`) moves the
  due time the run keys are made of.
- `ScheduleKept` fails without `removedLate`: a worker that read "off" removes the job by
  key after it was switched on again (`scheduler.ts:79`), or `syncSchedules` sees the old
  job just before that worker removes it. The sync of an older publish does the same: it
  read "off", the sync of a newer one puts the job or finds it, and then the older one
  removes it (AU:503). "Keeps one job per scheduled automation of the company in line with
  the published config" (AU:486) holds only without the two.

*events, audit, organization*
- With as many faults as `MaxDeliver`, `KeepsTheContract` fails: the stream gives the
  message up (`nats-bus.ts:105`, 20 deliveries).
- "No event is lost" (`docs/architecture.md:81`) fails without `refused`: any duplicate key
  of a handler, not only the marker's, is answered as a duplicate and acknowledged, the
  transaction rolled back and no marker left (`consumer.ts:72`). For the audit trail a
  position taken by somebody else is enough (`RefuseAppend`); the event has no record then.
- `QuietVerifyAccepts` fails without `moved`: verify reads the head first, so a record
  appended meanwhile looks like one too many (`audit.service.ts:116`, `:137`).
- `TreeIsSound` fails without `overlap`: two moves, of A under B and of B under A,
  make a cycle. A create under a unit that is being moved gets the old path.

*records-service*
- A user's delete commits on a record that was locked after it was read: the delete is
  guarded by nothing. `setStatus` moves the status of a record that was deleted meanwhile.
- The comment that hidden and read-only fields keep their value "whatever the client sent"
  (`packages/metadata/src/rules.ts:124`, "on create: no value") is not true of an empty
  field: the default and the linked record fill it again (`ProtectedKeeps` says with what).
- Rules that set values run before defaults and copied values, so such a rule is tested on
  a record that the save then fills further.
- "Values the user typed are kept" (RS:245) is not true of an update without rules that
  sends the link but not the price: the price is copied again (`RestIsKept`).
- A report grouped by a row whose field is missing loses cells of its pivot; a list with a
  unit above the viewer's scope is refused where a report shows the parts. Both are seen in
  the code only and not in a model.

*config-service*
- An edit saved between the read and the write of a publish is overwritten (CS:493).
- A discard goes back to the version that its replica remembers, up to a second old.
- "A change is therefore visible immediately" (`config-client.ts:27`) has two exceptions: a
  shared version request that was read before the publish, and another replica that
  remembers the version before.
- "Unique and in order" (docs/step-2-config-engine.md:180) is not true of every pattern: one
  that does not show the period or the unit its counter counts by repeats numbers, and so do
  patterns whose parts run together: `{BRANCH}{SEQ}` prints HYD11 for the first number of a
  unit HYD1 and for the eleventh of HYD. An override, a changed reset or another start of the
  fiscal year starts a count anew, and nothing compares what it prints with what was given
  out. `TextsTellApart` is what the code would have to ask of patterns.
- An override published, or taken out, between the two reads of `nextNumber` (CS:609, CS:612)
  makes a number with the pattern of one series and the count of another.
- "One-click rollback" (docs/step-2-config-engine.md:24) is refused (422) once a type was
  changed to a compatible one, as the way back is not compatible (`Retyped`), and where it
  would archive or retype the company's version of a locked field (`LockedSince`). An upgrade
  is refused when it retypes its own fields so, or locks a field that the company has its own
  way (`LocksOver`). A company item marked as locked that was archived in the first version
  that has it makes every later version invalid (`Frozen`).
- Content retired twice, or items taken over from the pack and then dropped, can make a
  draft that no publish accepts, so `PackChangesPublish` is about the company keeping its
  items.

*identity-, tenant-, access-service*
- The hourly limit of codes is passed by requests between `checkRate` and the transaction,
  by at most their number (`CodeWorksOnce`).
- A failure after the exchange (`accessToken`) clears the cookie and the new token is lost.
- A crash of a signup leaves its parts and keeps the company URL taken; a step whose
  answer was lost is not undone (TN:213).
- Two removals at once leave a company without a Tenant Admin (AC:348), and a role deleted
  while it is being assigned leaves an assignment without a role (AC:247).

*reporting-, notification-, pack-service*
- An export that outlives its lease is run and announced twice, and one whose announcement
  fails goes back to the queue although its file is there (`exports.service.ts:132`).
- A report schedule that is edited while it is sent gets the next time of the old settings.
- A message is sent again when its marker could not be written.
- Two requests on the samples of a pack, or a removal that stops part way, leave some of
  the samples, noted or not (`packs.service.ts:236`).
- "Everything is taken back if one record fails" (docs/step-6-country-industry-packs.md:172)
  is not true of a create that is given up after ten seconds (`service-client.ts:81`) and
  commits after the cleanup: its record stays without a note (`stray`).

## 4. Proofs

TLAPS checks the theorems for every value of the constants that the assumptions allow.
These ask for no more than what the code sets. Most are named `ASSUME`s of the modules
(`LevelsAssumption`, `DeliveryAssumption`, `CopyAssumption`, `ChainsAssumption`,
`RunsAssumption`, `ScheduleAssumption`, `PublishAssumption`, `PackAssumption`,
`NumberingAssumption`, `OrgAssumption`, `InitialTreeAssumption`, `CodesAssumption`,
`SignupAssumption`, ...), which TLC evaluates in the runs of the modules. The others are
named in the statements of the theorems that need them:

- `ConstantsAreSound` (records), `ForgedIsNoEvent` (audit) and `SessionConstants`: of what type the constants
  are, that the value for "nothing" is none of the others, that a forged record is none
  of the events, and that a session remembers at least one replaced token;
- `MaxSlot \in Nat \ {0}`, `NumSamples \in Nat`;
- `RulesAreSound` and `RuleValuesFit`: the rules of an entity are a list, their effects are the five the code
  knows, the value that clears a field is none of the values of fields, and what a rule sets
  is a value of its field (`RecordRules` leaves out values that `normalizeValue` refuses);
- `CalendarIsSound`: a fiscal year starts in one of the twelve months, a walk looks at one
  day at least, and the calendar begins in 2002 or later, because days before 2000 are not
  numbered and properties look back over a fiscal year;
- `EscalateTo = {}`: no level names somebody to escalate to. This restricts the workflows
  a company may configure, and is needed because of the second finding;
- `OneWaitingState`: the actions of a workflow that start an approval lead to one state;
- `"escalate" \notin Actions`: no action of a workflow has the name the timer uses.

Each section has an inductive invariant `...Inv` that is stronger than the property; what
it adds is what the handlers may rely on between their steps.

### 4.1 Approvals_proofs

`TypeCorrect` proves `TypeOK`. It is not inductive alone: a handler
that commits uses its locals (the task it read, the run it saw), so the invariant is
`TypeInv == TypeOK /\ RequestsOK`, where `RequestsOK` says for each `pc` what a handler
may rely on (`HandlersSound`). `ApprovalCanBeDecided` proves `RunningHasApprover`. It is
inductive together with `FreshTasks` (tasks of later batches do not exist yet), which
is what makes the tasks of a level just started open. The argument is one case per
transaction: one that starts a level opens a task there, one that does not leaves an
open task of the current level, because the guard on the version means that the count
of other open tasks is the count the decision acts on, or because it ends the approval.
It holds in spite of the first finding: a stale decision completes a level, but always
opens the next one or ends the approval.

`RequesterNeverAnswers` (`NoSelfApproval`) and `AnswersStay` (`AnswersAreFinal`) say of
every request in flight, and not only of the ones a test would send, that an answer is
given once and never by the requester. `AnswersInv` adds `NotRequester`: the approvers a
handler has resolved, before the transaction that uses them, do not have the requester
among them. What a transaction does to one task is `TaskStep`, to the instance
`ApprovalStep`; all actions are reduced to these two once. `LevelsOnlyAdvance`
(`LevelsInOrder`) rests on `OrderInv`: a handler whose version is current has seen the
level and run that are current (`SeenInv`), and no handler saw a later one than was
started (`StartedInv`). `TimersAdvanceOnly` (`TimersOnlyAdvance`) needs an assumption that
no code enforces, that no action of the workflow is called "escalate": the timer answers
tasks through the same code as a user who takes an action of that name.

`LevelsAnsweredInTime` (`LevelsAreAnsweredInTime`) is the positive side of the first
finding: a decision on a task that is still pending, of the level that runs, moves the
approval on only when the level is answered as its mode asks. `TaskRunInv` says that no
task is of a run still to start, and `LevelInv` that the tasks of the running approval are
of its level or an earlier one, those of its level never rejected or withdrawn.

`ApprovalsLeaveNoTask` (`NoTaskWithoutApproval`, with `EscalateTo = {}`): every transaction
that ends or replaces a run closes its pending tasks, and none that commits under the
current version creates tasks of another. `DecisionsChain` proves the part of
`HistoryIsAChain` that needs no assumption, for the entries of actions and decisions;
`HistoryChains` proves all of it with `EscalateTo = {}` and `OneWaitingState`: a skip names
the state of the approval it read, and without the second assumption that approval may
have been replaced by one that waits in another state.

### 4.2 Delivery_proofs

**EventDelivery.** `DeliveryTypes` and `NothingIsLost` rest on
`DeliveryInv == TypeOK /\ HandlersInv`: a row that is marked, an id in the duplicate
window and a relay about to mark its row all stand for an event that is in the stream or
answered, and a handler about to acknowledge has seen the marker or a refusal. `EventsAreHandledOnce`
follows from the one transaction that writes marker and change. `DeliveryKeepsContract`
is the refinement: every step of the delivery is a step of `EventContract` or leaves its
variables alone, with `RecordedInv` (only recorded events are in rows, stream and
handlers) as the further invariant.

**StatusCopy.** `CopiesAreSound` is the invariant `CopyInv`: what a push or a late
call holds, and what the record got last, are copies of changes the instance made.
`RecordIsFaithful` (`RecordFollowsHistory`) needs that a copy applied leads from the
record's state along such a change. `DebtsAreKept` (`DebtKept`) is inductive with
`DebtInv`: unless a change overtook a copy, there is one copy at a time, a push that got
through has only its job left to remove, and a copy owed has its job.

**AutomationChains.** `ChainsStayBounded` (`ChainsAreBounded`) rests on `ChainsInv`: for
each event, each handler and a copy that is owed, the automations that led to it are no more
than its depth and `MAX_DEPTH` for each copy on the way that was made with a smaller one
(`Bounded`); and a handler that got past the start of a run has an event whose depth is
below the limit (`HandlersBounded`). Only a copy made with a smaller depth (`PushState`,
`SchedulerPush`) raises `lost`, which makes the seventh finding the only way past the limit.

### 4.3 Jobs_proofs

**AutomationRuns.** `RunTypes`, `OncePerAttempt`, `OneOwner`, `CreateOnce` and
`ResultsAreFinal` prove the parts of `RunsAreSafe` and `ResultsStay`. `OneExecutor` is not
inductive: the invariant `RunsInv` follows the run to its owner (`OwnersInv`). A handler
between creating or retrying a run and its result owns it, the run then says "running",
nobody else owns it, and an owner that is not past the condition has an attempt left over.
A new owner needs a run that is absent or "failed", so nobody has it. The proof has a lemma
for each way a handler can go on: start an attempt, move on, return, return with a result.
`RunsStaySafe` (`RunsAreSafe`) adds the last part, `OkMeansDone`, with `DoneInv`: an owner
at a step has seen the steps before it take effect, and an effect is never undone.

**Schedules.** `SchedulesAreAlwaysKept` (`SchedulesAreKept`) is `SchedulesInv`: a replica at
work has a claimed job (`ClaimsHold`); as long as no execution threw, a job falls due at the
time it stands for, so that what was run for a record and a time has its key and a second
pass finds it (`KeyedBySlot`); and a scheduled automation without a job has a publish
event to come, or a sync that read it switched on and has not found the job, unless one that
had read otherwise removed it late (`JobFollows`).

**Exports.** `ExportsRunOnce` proves `ExportedOnce` and `NoExportForgotten`. `ExportsInv`
says with `OneAtATime` that a job is in one worker's hands unless its lease was outlived.

**ReportSchedules.** `ReportsAreSentOnce` (`SentAsScheduled`) is `ReportsInv`: what is being
sent was due (`SentWhenDue`), by one worker, which holds the lease as long as that time is
the next one (`OneSender`); a due time of which mail was sent is over or somebody is at it
(`NoSecondMail`); and whoever sends has the present settings unless an edit raced it
(`SettingsKept`).

**Notifications.** `RequestsAreDeliveredOnce` (`DeliveredOnce`): a handler has
served what it has behind it, unless it will throw (`BehindIsServed`); and one handler at a
time works on a user and channel, and what went out is being marked or was, unless the
marker could not be written (`GoesOutOnce`).

`OutputsAreSentOnce` puts the last three together for `OutputsGoOutOnce`.

### 4.4 Records_proofs: AuditChain

`ChainNeverForks` (`OneChain`) and `EventsAreChainedOnce`
(`MarkedIsChained`) rest on `AppendInv`: a replica that read the head and still finds its
number there has the hash of the last record, and the marker, the record and the head are
written by one transaction. `TamperInv` says what a change in the database can and cannot
reach: a record not touched is as it was appended and names the hash of the one before it
as it was appended. `VerifyFindsChanges` (`VerifyDetects`) adds `WalkInv`, about the walk
itself: what it has passed without complaint is a prefix of the chain, so a record that was
changed or deleted before the walk began is not in it. `QuietChainsAreAccepted`
(`QuietVerifyAccepts`) is the other direction, with `CleanInv` and `CleanWalkInv`: while
nobody touches the database, appends between two reads of the walk never make it complain.
`ReportsPointAtChanges` (`VerifyPointsAtChange`) says where the walk stops: `LinkInv` holds
what untouched records and the head agree on, and `PointInv` that the walk has the hash of
the last record it read, unless that was touched meanwhile, and is not past the first change
made before it started. `AppendsAreNotDropped` adds `DropInv`: no append saw the
position after the head in use. `ChainsAreSound` is the whole of `ChainIsSound`.

### 4.5 OrgPaths_proofs

`TreeStaysSound` and `TreeStaysSoundBesideCopies` (`TreeIsSound`, of the tree alone and of the
tree with its copies) and `CopiesStayInStep` (`CopiesInStep`) hold for any tree that can have
been built, any number of commands and any bounds. `OrgInv` has four parts: paths, depths,
parents and activity agree (`TreeIsSound`), commands hold units and paths of the right shape
(`CommandsInv`), the root has no parent and is its path (`RootInv`), and what a command found
in its checks is still true unless another one wrote since its first read (`ChecksInv` with
`StillTrue`). That a move makes no cycle is an argument over the paths: the new parent's path
does not begin with the unit's. `PathsInv` adds that the paths have a history, one map for
each event (`HistoryInv`), and that the copies have applied the first n events and the rest
take each of them to the path of its unit (`CopiesInv`), unless events were applied out of
order (`mixed`). That the paths of the units on a path are its beginnings is shown by
taking a unit of least depth for which it fails.

### 4.6 ConfigPublish_proofs

**ConfigPublish.** `RequestsAreSound` is `PublishInv`: the types, and for each
request that a revision it read was a revision of the draft and, while the draft still
has that revision, the configuration is the draft's. Every write of the draft raises the
revision, so an older one never comes back: `RevisionsIdentifyDrafts`. In
`NothingPublishedIsDropped` (`PublishedStays`) the guard on the number is what counts: a
request that saves a version saw the newest one, so what it was validated against is what
it follows. `PackChangesCanBePublished` (`PackChangesPublish`) needs of the state that
versions are configurations in which locks hold (`VersionsHold`, of `PublishedStays`); the rest
is about `PackLayers`: an installation, a removal and a rollback archive just the items of
packs that would be missing (`RetireKeepsPacks`, `LeftoversPublish`), and leave the company's
own items there, so that only a type or a lock can be in the way.

**ConfigReads.** `CallsGetTheNewest` (`ReadsAreCurrent`) is `ReadsInv`: what a replica
remembers while no other publishes is the newest version, or the one before the version
that it is publishing itself (`MemoryIsNew`); versions about to be answered are different
and not yet told (`AnswersDiffer`); and a call that is not excused has got no version older
than what was told before it (`CallsAreCurrent`).

**Numbering.** `NumbersAreUnique` (`NumbersDiffer`) is `NumbersInv`: each number was made by a
request with a count that its counter has reached, and no two of them share counter and count
(`NumbersMade`). The counter of a request is what its number is meant to count, a fiscal year
in months being the one the code finds (`CountsWhatIsMeant`, `FiscalYearOfMonths`), unless the
layer changed between its reads. So two numbers with one text are one number, or the patterns
print different counts alike.

### 4.7 Records_proofs: RecordWrites

`RequestsRelyOnTheRecord` is `WritesInv`: the stamps of records
are those of writes made, and the record an update has read is as it was, unless a later
write gave it another stamp. `LockedRecordsAreKept` (`LockedKeepsItsValue`) follows: a
commit under an unchanged stamp is on the record that was looked at, which was not
locked. `ValuesHaveOneHolder` (`OneHolder`) is inductive as two parts, `ValuesHeld` and
`KeysHeld`: each transaction that changes a record's value or removes it does the same in
`uniques`, and the indexes refuse a second holder.

`EventsTellTheRecord` (`EventsReplay`) is `ReplayInv`: for each record there is a sequence
of views, one after each event of the log, that every event of the record continues, and
the last of which is the record as stored. A transaction appends to it (`EventFollows`): an
update commits only on the record it read (`WritesInv`), a status change only from the
status it names, and a delete whatever the record has become, which is why its event is
asked to continue nothing. That such a sequence is what the recursive function `Views`
computes is `ViewsReplay`: two of them would have a first place where they differ
(`OneReplay`).

### 4.8 Access_proofs

**Sessions.** `TokensAreAChain` (`OneTokenChain`) rests on `SessionsInv`: every
session is at the end of its chain (`InChain`), that is, its token is the next after
those exchanged, in order, and what it remembers are the latest of them (`Latest`,
whether or not the oldest was forgotten). `RevokedSessionsAreOver` (`RevokedIsOver`) is
the second half of the guard: no action opens a session again or exchanges its token.

**BrowserSignIn.** `SignInIsKept` (`SignInKept`) is about a browser in which nothing but
refreshes overlapped and nothing was lost (`Tidy`). `BrowserInv` says that as long as this
is so, `SignInInv` holds: beside `SessionsInv`, a login or logout in flight is the only
request, and without overlap any request is (`OneAtATime`), the cookie and the refreshes are
of the one session (`OfOneSession`), an answer that grants has its present token
(`GrantsAreCurrent`), without such an answer on its way the cookie has it (`JarIsCurrent`),
and without overlap nothing takes the cookie away (`NothingTakesIt`).

**OneTimeCodes.** `CodesWorkOnce` (`CodeWorksOnce`) is `CodesInv`: the tries of a code are
counted, and one that let somebody in is used (`TriesCounted`); the codes of an hour and
the requests past the check of the rate are fewer than the limit and all requests together
(`RateKept`).

**RoleAssignments.** `RolesAreWhole` (`RolesStayWhole`) is `AccessInv`: a role's key is
there once (`KeysOnce`), and unless two requests crossed, assignments name roles there are
and an administrator is left (`Whole`), because what a request had checked is still so
(`StillSo`).

**Signup.** `SignupIsWhole` (`SignupAllOrNothing`) is `SignupInv`: the URL belongs to the
tenant that has not failed, and the parts of a saga that did not go astray are those of the
steps it completed (`SagaIsTidy`).

**PackSamples.** `SamplesAreWhole` (`SamplesAllOrNothing`) is `SamplesInv`: when requests do
not overlap, an addition finds no note and has its records made in order, a removal that
purged left none, and what is there without a note came with a crash or by a call that had been
given up (`InTurn`).

`CredentialsAreUsedOnce` and `SetUpsAreWhole` put the parts together for
`CredentialsWorkOnce` and `AllOrNothing`.

### 4.9 Metadata_proofs

Both modules compute: a step has no interleaving in it, and what has to be shown is about
lists of rules and about days, for which there is an argument by induction. The induction
theorems of the library take the statement as an operator, so `Induction` says it with a set
instead: a set that holds 0 and with each number the next has no least number missing
(`WFMin`, the natural numbers being well-founded).

**RecordRules.** `RulesAreAlwaysObeyed` (`SavesObeyRules`, and so `RulesAreObeyed`) holds for lists of any number of
rules, in any order, and for any prices, notes and bodies. `PassSteps` and `RevertSteps` show
that the loops over the rules go from one rule to the next. `RulesInv` is the inductive
invariant: nothing empty is stored, which `ValidateRecord` sees to and the rest relies on.

- `SaveObeys`: rules that block are evaluated on what `ValidateRecord` gives, after which
  nothing is changed any more.
- `SaveProtects`: without rules that set values, the first loop changes nothing and finds
  every field that a rule protects whose condition holds (`PassFinds`); after the second,
  each of them has its old value or none (`RevertRestores`). Then the linked record
  (`FilledField`) and the default (`ValidatedField`) may fill one that is empty, and
  nothing else may.
- `SaveKeepsRest`: a value that no rule sets passes both loops (`PassKeeps`, `RevertKeeps`).

`RecordsHaveTheirTypes` (`RulesTypeOK`) takes the types of values through the same steps
(`PassFits`, `RevertFits`, `SaveFits`).

**Periods.** `PeriodsAreAlwaysRight` (`PeriodsFit`, and so `PeriodsAreRight`) is about every day from 2002 on, every
month a fiscal year can start in, any days off and any length of the walk.

- The calendar: `MonthLengths` has the length of each month from the closed form, leap years
  included; so months follow each other without a gap (`MonthsPass`), each day is in one
  (`MonthExists`, by `Induction`), and that is `MonthOf` (`MonthOfDay`).
- `KeysSplit` (`KeysSplitTheDays`) has two halves: a day is in the range of its own key
  (`InRange`), and the days of a range have its key (`SameKey`). Months, quarters and years
  are blocks of months whose first is computed from any of them (`InBucket`, `SameBucket`);
  for weeks, the range of a key starts on the Monday of any of its days, because the fourth
  of January and the Thursday that gave the year are in weeks of one count
  (`WeekRange`). `DatabaseAgrees` compares the formulas of the database: its week one of a
  year has begun exactly when the Thursday of the week is in that year or a later one
  (`DatabaseWeekAgrees`).
- `Follow` (`PeriodsFollow`): the days before a range are those of the key before
  (`BeforeBucket`), which is where as many months back (`PreviousMonths`), or as many days,
  lead (`PreviousDays`: no week is a whole number of months).
- `TimeCounts` (`WorkingTimeCounts`), for any start and any number of hours and not only those
  the property names: after each day of the walk, the working hours passed and what is
  left are what was asked for (`WalkOn`, `WorkIsCounted`).

### 4.10 What is only model-checked

- Liveness under fairness, which the prover cannot do: the liveness half of
  `KeepsTheContract` (`DeliveryKeepsContract` proves the rest), `SettledCopyConverges`, and
  the temporal violation runs.
- `ConfigurationTypeOK` and `ServicesTypeOK` as they are written: the types of the parts side
  by side. The type of each part that has theorems is proved in its invariant.

No module has a RECURSIVE operator.

## 5. What is not modelled, and why

- The pages of the web application, the data of the industry packs, type definitions and
  constant tables: more than half of the lines of the repository. They have no state
  that two actors share, and nothing to say about them in a model that reading them does
  not say. That is why the share of lines that `map` names stays small.
- Rendering and parsing: PDF and spreadsheets, print templates, the parser of formulas,
  number formats, tax computation. Their hazards are of input, not of order.
- The aggregation pipelines of reports, but for the keys of dates (`Periods`).
- Authorization: models let any person act that the configuration lets act.
- Password hashing, the lock after failed logins, SSO protocols, invitations.
- file-service, document-service, reference-data-service, api-gateway: one object and one
  row, or no state at all.
- Renaming and reactivating units, roles and settings: they change nothing that the
  properties tell apart or repeat a pattern that is modelled.
- MongoDB transactions are atomic and a write conflict aborts one of them; replica set
  failover, and reads from a secondary, are outside the models.

What the models assume of the environment: two writes of one record are at least a
millisecond apart (`RecordWrites`); an answer to a refresh arrives, and its request
reaches the service, within the grace (`BrowserSignIn`); hashes do not collide.

## 6. What is left

In the order in which it would add most:

1. Reading the records of a scheduled automation page by page, while records come and go.
