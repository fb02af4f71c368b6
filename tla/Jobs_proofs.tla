---------------------------- MODULE Jobs_proofs ----------------------------
(***************************************************************************)
(* Theorems about work that is taken more than once and done once: runs of *)
(* automations and their schedules, exports, scheduled reports and         *)
(* notifications, for any number of workers, jobs, attempts, failures and  *)
(* crashes.                                                                *)
(***************************************************************************)
EXTENDS AutomationRuns, Schedules, Services, FiniteSetTheorems, TLAPS

-----------------------------------------------------------------------------
(* Exports *)

Worker == [job : {{}} \cup {{j} : j \in ExportIds}, attempt : Nat,
           pc : {"idle", "run", "announce"}]

Row == [status : {"none", "queued", "running", "done", "failed"},
        lease : {"none", "held", "over"}, attempts : Nat]

ExportsTyped ==
    /\ exports \in [ExportIds -> Row]
    /\ exporters \in [Exporters -> Worker]
    /\ announced \in [ExportIds -> Nat]

\* Who works at an export that nobody outlived, by its status.
OneAtATime ==
    \A j \in ExportIds \ outlived :
        /\ \A v, w \in Exporters : At(v, j) /\ At(w, j) => v = w
        /\ \A w \in Exporters : At(w, j) =>
             /\ announced[j] = 0
             /\ \/ exporters[w].pc = "run" /\ exports[j].status = "running"
                     /\ exports[j].lease = "held"
                \/ exporters[w].pc = "announce" /\ exports[j].status = "done"
        /\ announced[j] # 0 => announced[j] = 1 /\ exports[j].status = "done"

ExportsInv == ExportsTyped /\ OneAtATime /\ NoExportForgotten

LEMMA LeavesWork == NoExport \in Worker /\ NoExport.job = {}
BY DEF NoExport, Worker

LEMMA ExportsBegin == ExportsInit => ExportsInv
<1> SUFFICES ASSUME ExportsInit PROVE ExportsInv OBVIOUS
<1>1. exports \in [ExportIds -> Row] /\ \A j \in ExportIds : exports[j].status = "none"
  BY DEF ExportsInit, Row
<1>2. exporters \in [Exporters -> Worker] /\ \A w \in Exporters : exporters[w].job = {}
  BY LeavesWork DEF ExportsInit
<1>3. announced \in [ExportIds -> Nat] /\ \A j \in ExportIds : announced[j] = 0
  BY DEF ExportsInit
<1> QED BY <1>1, <1>2, <1>3 DEF ExportsInv, ExportsTyped, OneAtATime, NoExportForgotten, At

\* A step about one export and one of the workers.
LEMMA WorkerMoves ==
  ASSUME ExportsInv, NEW j \in ExportIds, NEW w \in Exporters,
         NEW e \in Row, NEW x \in Worker, NEW n \in Nat,
         exports' = [exports EXCEPT ![j] = e], exporters' = [exporters EXCEPT ![w] = x],
         announced' = [announced EXCEPT ![j] = n], outlived \subseteq outlived',
         x.job \in {{}, {j}}, exporters[w].job \in {{}, {j}},
         e.status = "running" => e.lease # "none",
         j \notin outlived' =>
           /\ x.job = {j} => /\ \A v \in Exporters : At(v, j) => v = w
                             /\ n = 0
                             /\ \/ x.pc = "run" /\ e.status = "running" /\ e.lease = "held"
                                \/ x.pc = "announce" /\ e.status = "done"
           /\ x.job = {} => \A v \in Exporters : At(v, j) => v = w
           /\ n # 0 => n = 1 /\ e.status = "done"
  PROVE  ExportsInv'
<1>1. /\ \A v \in Exporters : exporters'[v] = IF v = w THEN x ELSE exporters[v]
      /\ \A k \in ExportIds : exports'[k] = IF k = j THEN e ELSE exports[k]
      /\ \A k \in ExportIds : announced'[k] = IF k = j THEN n ELSE announced[k]
  BY DEF ExportsInv, ExportsTyped
<1>2. ExportsTyped'
  BY DEF ExportsInv, ExportsTyped
<1>3. OneAtATime'
  <2> SUFFICES ASSUME NEW k \in ExportIds \ outlived'
               PROVE  /\ \A u, v \in Exporters : At(u, k)' /\ At(v, k)' => u = v
                      /\ \A v \in Exporters : At(v, k)' =>
                           /\ announced'[k] = 0
                           /\ \/ exporters'[v].pc = "run" /\ exports'[k].status = "running"
                                   /\ exports'[k].lease = "held"
                              \/ exporters'[v].pc = "announce" /\ exports'[k].status = "done"
                      /\ announced'[k] # 0 => announced'[k] = 1 /\ exports'[k].status = "done"
    BY DEF OneAtATime
  <2>1. CASE k = j
    <3>1. \A v \in Exporters : At(v, k)' => v = w
      BY <1>1, <2>1 DEF At
    <3>2. At(w, k)' => x.job = {j}
      BY <1>1, <2>1 DEF At
    <3> QED BY <1>1, <2>1, <3>1, <3>2
  <2>2. CASE k # j
    <3>1. \A v \in Exporters : At(v, k)' => v # w /\ At(v, k) /\ exporters'[v] = exporters[v]
      BY <1>1, <2>2 DEF At
    <3> QED BY <1>1, <2>2, <3>1 DEF ExportsInv, OneAtATime
  <2> QED BY <2>1, <2>2
<1>4. NoExportForgotten'
  BY <1>1 DEF ExportsInv, NoExportForgotten
<1> QED BY <1>2, <1>3, <1>4 DEF ExportsInv

\* A step of an export at which no worker that counts is.
LEMMA RowMoves ==
  ASSUME ExportsInv, NEW j \in ExportIds, NEW e \in Row, exports' = [exports EXCEPT ![j] = e],
         exporters' = exporters, announced' = announced, outlived \subseteq outlived',
         e.status = "running" => e.lease # "none",
         j \notin outlived' => /\ \A v \in Exporters : ~At(v, j)
                               /\ exports[j].status = "done" => e.status = "done"
  PROVE  ExportsInv'
<1>1. \A k \in ExportIds : exports'[k] = IF k = j THEN e ELSE exports[k]
  BY DEF ExportsInv, ExportsTyped
<1>2. ExportsTyped'
  BY DEF ExportsInv, ExportsTyped
<1>3. OneAtATime'
  BY <1>1 DEF ExportsInv, OneAtATime, At
<1>4. NoExportForgotten'
  BY <1>1 DEF ExportsInv, NoExportForgotten
<1> QED BY <1>2, <1>3, <1>4 DEF ExportsInv

LEMMA RequestExportKeeps ==
  ASSUME ExportsInv, NEW j \in ExportIds, RequestExport(j)
  PROVE  ExportsInv'
<1> DEFINE e == [exports[j] EXCEPT !.status = "queued"]
<1>1. /\ exports[j].status = "none" /\ exports' = [exports EXCEPT ![j] = e]
      /\ UNCHANGED <<exporters, announced, outlived>>
  BY DEF RequestExport, ExportsInv, ExportsTyped
<1>2. e \in Row /\ e.status = "queued"
  BY DEF ExportsInv, ExportsTyped, Row
<1>3. j \notin outlived => \A v \in Exporters : ~At(v, j)
  BY <1>1 DEF ExportsInv, OneAtATime
<1> HIDE DEF e
<1> QED BY <1>1, <1>2, <1>3, RowMoves

LEMMA LeaseEndsKeeps ==
  ASSUME ExportsInv, NEW j \in ExportIds, LeaseEnds(j)
  PROVE  ExportsInv'
<1> DEFINE e == [exports[j] EXCEPT !.lease = "over"]
<1>1. /\ exports' = [exports EXCEPT ![j] = e]
      /\ outlived' = IF WorkersAt(j) = {} THEN outlived ELSE outlived \cup {j}
      /\ UNCHANGED <<exporters, announced>>
  BY DEF LeaseEnds, ExportsInv, ExportsTyped
<1>2. e \in Row /\ e.status = exports[j].status /\ e.lease = "over"
  BY DEF ExportsInv, ExportsTyped, Row
<1>3. outlived \subseteq outlived' /\ (j \notin outlived' => \A v \in Exporters : ~At(v, j))
  BY <1>1 DEF WorkersAt
<1> HIDE DEF e
<1> QED BY <1>1, <1>2, <1>3, RowMoves

LEMMA TakeKeeps ==
  ASSUME ExportsInv, NEW w \in Exporters, NEW j \in ExportIds, Take(w, j)
  PROVE  ExportsInv'
<1> DEFINE x == [job |-> {j}, attempt |-> exports[j].attempts + 1, pc |-> "run"]
           e == [status |-> "running", lease |-> "held", attempts |-> exports[j].attempts + 1]
<1>1. /\ \/ exports[j].status = "queued" /\ exports[j].lease # "held"
         \/ exports[j].status = "running" /\ exports[j].lease = "over"
      /\ exporters[w].job = {}
      /\ exports' = [exports EXCEPT ![j] = e]
      /\ exporters' = [exporters EXCEPT ![w] = x]
      /\ announced' = announced /\ outlived' = outlived
  BY DEF Take, TakeIf, NoExport
<1>2. x \in Worker /\ x.job = {j} /\ x.pc = "run"
  BY DEF Worker, ExportsInv, ExportsTyped, Row
<1>3. e \in Row /\ e.status = "running" /\ e.lease = "held"
  BY DEF ExportsInv, ExportsTyped, Row
<1>4. j \notin outlived => announced[j] = 0 /\ \A v \in Exporters : ~At(v, j)
  BY <1>1 DEF ExportsInv, OneAtATime
<1>5. announced[j] \in Nat /\ announced' = [announced EXCEPT ![j] = announced[j]]
  BY <1>1 DEF ExportsInv, ExportsTyped
<1> HIDE DEF x, e
<1> QED BY <1>1, <1>2, <1>3, <1>4, <1>5, WorkerMoves

\* A worker that is at the export, when nobody outlived it.
LEMMA AtWork ==
  ASSUME ExportsInv, NEW w \in Exporters, NEW j \in ExportIds, At(w, j)
  PROVE  /\ exporters[w].job = {j} /\ exporters[w] \in Worker /\ exports[j] \in Row
         /\ announced[j] \in Nat
         /\ j \notin outlived => /\ \A v \in Exporters : At(v, j) => v = w
                                 /\ announced[j] = 0
                                 /\ exporters[w].pc = "run" => exports[j].status = "running"
                                 /\ exporters[w].pc = "announce" => exports[j].status = "done"
BY DEF ExportsInv, ExportsTyped, OneAtATime, At

LEMMA FinishExportKeeps ==
  ASSUME ExportsInv, NEW w \in Exporters, NEW j \in ExportIds, FinishExport(w, j)
  PROVE  ExportsInv'
<1> DEFINE e == [exports[j] EXCEPT !.status = "done", !.lease = "none"]
           x == [exporters[w] EXCEPT !.pc = "announce"]
<1>1. /\ At(w, j) /\ exports' = [exports EXCEPT ![j] = e]
      /\ exporters' = [exporters EXCEPT ![w] = x]
      /\ announced' = [announced EXCEPT ![j] = announced[j]] /\ outlived' = outlived
  BY DEF FinishExport, ExportsInv, ExportsTyped
<1>2. exporters[w].job = {j} /\ exporters[w] \in Worker /\ exports[j] \in Row /\ announced[j] \in Nat
  BY <1>1, AtWork
<1>3. e \in Row /\ e.status = "done"
  BY <1>2 DEF Row
<1>4. x \in Worker /\ x.job = {j} /\ x.pc = "announce"
  BY <1>2 DEF Worker
<1>5. j \notin outlived => announced[j] = 0 /\ \A v \in Exporters : At(v, j) => v = w
  BY <1>1, AtWork
<1> HIDE DEF e, x
<1> QED BY <1>1, <1>2, <1>3, <1>4, <1>5, WorkerMoves

LEMMA AnnounceKeeps ==
  ASSUME ExportsInv, NEW w \in Exporters, NEW j \in ExportIds, AnnounceExport(w, j)
  PROVE  ExportsInv'
<1>1. /\ At(w, j) /\ exporters[w].pc = "announce"
      /\ exports' = [exports EXCEPT ![j] = exports[j]]
      /\ exporters' = [exporters EXCEPT ![w] = NoExport]
      /\ announced' = [announced EXCEPT ![j] = announced[j] + 1] /\ outlived' = outlived
  BY DEF AnnounceExport, Leave, ExportsInv, ExportsTyped
<1>2. exports[j].status = "running" => exports[j].lease # "none"
  BY DEF ExportsInv, NoExportForgotten
<1>3. announced[j] + 1 \in Nat /\ announced[j] \in Nat
  BY <1>1, AtWork
<1>4. j \notin outlived => announced[j] + 1 = 1
  BY <1>1, AtWork
<1>5. exporters[w].job = {j} /\ exports[j] \in Row
  BY <1>1, AtWork
<1>6. j \notin outlived => exports[j].status = "done" /\ \A v \in Exporters : At(v, j) => v = w
  BY <1>1, AtWork
<1> QED BY <1>1, <1>2, <1>3, <1>4, <1>5, <1>6, LeavesWork, WorkerMoves

LEMMA FailKeeps ==
  ASSUME ExportsInv, NEW w \in Exporters, NEW j \in ExportIds, Fail(w, j)
  PROVE  ExportsInv'
<1>1. PICK e \in Row : e.status \in {"failed", "queued"} /\ exports' = [exports EXCEPT ![j] = e]
  <2>1. [exports[j] EXCEPT !.status = "failed", !.lease = "none"] \in Row
    BY DEF ExportsInv, ExportsTyped, Row
  <2>2. [exports[j] EXCEPT !.status = "queued", !.lease = "held"] \in Row
    BY DEF ExportsInv, ExportsTyped, Row
  <2>3. CASE exports' = [exports EXCEPT ![j].status = "failed", ![j].lease = "none"]
    <3>1. exports' = [exports EXCEPT ![j] =
                        [exports[j] EXCEPT !.status = "failed", !.lease = "none"]]
      BY <2>3 DEF ExportsInv, ExportsTyped
    <3>2. [exports[j] EXCEPT !.status = "failed", !.lease = "none"].status = "failed"
      BY DEF ExportsInv, ExportsTyped, Row
    <3> QED BY <2>1, <3>1, <3>2
  <2>4. CASE exports' = [exports EXCEPT ![j].status = "queued", ![j].lease = "held"]
    <3>1. exports' = [exports EXCEPT ![j] =
                        [exports[j] EXCEPT !.status = "queued", !.lease = "held"]]
      BY <2>4 DEF ExportsInv, ExportsTyped
    <3>2. [exports[j] EXCEPT !.status = "queued", !.lease = "held"].status = "queued"
      BY DEF ExportsInv, ExportsTyped, Row
    <3> QED BY <2>2, <3>1, <3>2
  <2> QED BY <2>3, <2>4 DEF Fail, FailTo
<1>2. /\ At(w, j) /\ exporters' = [exporters EXCEPT ![w] = NoExport]
      /\ announced' = [announced EXCEPT ![j] = announced[j]]
      /\ outlived' = IF exporters[w].pc = "announce" THEN outlived \cup {j} ELSE outlived
  BY DEF Fail, FailTo, Leave, ExportsInv, ExportsTyped
<1>3. j \notin outlived' => announced[j] = 0 /\ \A v \in Exporters : At(v, j) => v = w
  BY <1>2, AtWork
<1>4. exporters[w].job = {j} /\ announced[j] \in Nat /\ outlived \subseteq outlived'
  BY <1>2, AtWork
<1>5. e.status # "running"
  BY <1>1
<1> QED BY <1>1, <1>2, <1>3, <1>4, <1>5, LeavesWork, WorkerMoves

LEMMA ExporterCrashKeeps ==
  ASSUME ExportsInv, NEW w \in Exporters, ExporterCrash(w)
  PROVE  ExportsInv'
<1>1. /\ exporters' = [exporters EXCEPT ![w] = NoExport]
      /\ UNCHANGED <<exports, announced, outlived>>
  BY DEF ExporterCrash, Leave
<1>2. ASSUME NEW j \in ExportIds, At(w, j) PROVE ExportsInv'
  <2>1. /\ exports' = [exports EXCEPT ![j] = exports[j]]
        /\ announced' = [announced EXCEPT ![j] = announced[j]]
    BY <1>1 DEF ExportsInv, ExportsTyped
  <2>2. exports[j].status = "running" => exports[j].lease # "none"
    BY DEF ExportsInv, NoExportForgotten
  <2>3. j \notin outlived /\ announced[j] # 0 => announced[j] = 1 /\ exports[j].status = "done"
    BY DEF ExportsInv, OneAtATime
  <2>4. exporters[w].job = {j} /\ announced[j] \in Nat /\ exports[j] \in Row
    BY <1>2, AtWork
  <2>5. j \notin outlived => \A v \in Exporters : At(v, j) => v = w
    BY <1>2, AtWork
  <2>6. outlived' = outlived /\ exporters' = [exporters EXCEPT ![w] = NoExport]
    BY <1>1
  <2> QED BY <2>1, <2>2, <2>3, <2>4, <2>5, <2>6, LeavesWork, WorkerMoves
<1>3. ASSUME \A j \in ExportIds : ~At(w, j) PROVE ExportsInv'
  <2>1. exporters' \in [Exporters -> Worker]
    BY <1>1, LeavesWork DEF ExportsInv, ExportsTyped
  <2>2. \A v \in Exporters : \A j \in ExportIds : At(v, j)' => v # w /\ At(v, j)
    BY <1>1, LeavesWork DEF ExportsInv, ExportsTyped, At
  <2>3. \A v \in Exporters : v # w => exporters'[v] = exporters[v]
    BY <1>1 DEF ExportsInv, ExportsTyped
  <2>4. OneAtATime'
    BY <1>1, <2>2, <2>3 DEF ExportsInv, OneAtATime
  <2> QED BY <1>1, <2>1, <2>4 DEF ExportsInv, ExportsTyped, NoExportForgotten
<1> QED BY <1>2, <1>3

\* An export that no worker outlived is run by one worker at a time, not taken again once
\* it ended, and announced once; none is forgotten (exports.service.ts).
THEOREM ExportsRunOnce == ExportsSpec => [](ExportedOnce /\ NoExportForgotten)
<1>1. ExportsInv /\ [ExportsNext]_exportVars => ExportsInv'
  <2> SUFFICES ASSUME ExportsInv, [ExportsNext]_exportVars PROVE ExportsInv' OBVIOUS
  <2>1. CASE ExportsNext
    BY <2>1, RequestExportKeeps, TakeKeeps, FinishExportKeeps, AnnounceKeeps, FailKeeps,
       LeaseEndsKeeps, ExporterCrashKeeps DEF ExportsNext
  <2>2. CASE UNCHANGED exportVars
    BY <2>2 DEF exportVars, ExportsInv, ExportsTyped, OneAtATime, NoExportForgotten, At
  <2> QED BY <2>1, <2>2
<1>2. ExportsInv => ExportedOnce /\ NoExportForgotten
  <2> SUFFICES ASSUME ExportsInv, NEW j \in ExportIds \ outlived
               PROVE  /\ Cardinality(WorkersAt(j)) <= 1
                      /\ announced[j] <= 1
                      /\ exports[j].status \in Ended =>
                           \A w \in WorkersAt(j) : exporters[w].pc = "announce"
    BY DEF ExportsInv, ExportedOnce
  <2>1. Cardinality(WorkersAt(j)) <= 1
    <3>1. CASE WorkersAt(j) = {}
      BY <3>1, FS_EmptySet
    <3>2. ASSUME NEW w \in WorkersAt(j) PROVE Cardinality(WorkersAt(j)) <= 1
      <4>1. WorkersAt(j) = {w}
        BY DEF WorkersAt, ExportsInv, OneAtATime
      <4> QED BY <4>1, FS_Singleton
    <3> QED BY <3>1, <3>2
  <2>2. announced[j] <= 1
    BY DEF ExportsInv, ExportsTyped, OneAtATime
  <2>3. exports[j].status \in Ended => \A w \in WorkersAt(j) : exporters[w].pc = "announce"
    BY DEF WorkersAt, Ended, ExportsInv, OneAtATime
  <2> QED BY <2>1, <2>2, <2>3
<1> QED BY ExportsBegin, <1>1, <1>2, PTL DEF ExportsSpec

-----------------------------------------------------------------------------
(* ReportSchedules *)

Sender == [pc : {"send"}, due : Nat, settings : Nat, rest : SUBSET Groups]

Sending(w) == senders[w] # NotSending

ScheduleRow == [stored : BOOLEAN, active : BOOLEAN, settings : Nat, next : Nat, by : Nat,
                lease : {"none", "held", "over"}]

ReportsTyped ==
    /\ MaxSlot \in Nat
    /\ schedule \in ScheduleRow
    /\ slot \in 1..MaxSlot /\ schedule.next \in 1..(slot + 1)
    /\ senders \in [Senders -> Sender \cup {NotSending}]
    /\ mailed \in [Slots \X Groups -> 0..2]

\* What is being sent was due.
SentWhenDue ==
    \A w \in Senders : Sending(w) =>
        senders[w].due \in Slots /\ senders[w].due <= slot /\ senders[w].due <= schedule.next

\* One worker is at a due time, and it holds the lease while that time is the next one.
OneSender ==
    \A w \in Senders : Sending(w) /\ senders[w].due \notin troubled =>
        /\ senders[w].due = schedule.next => schedule.lease = "held"
        /\ \A v \in Senders : Sending(v) /\ senders[v].due = senders[w].due => v = w

\* Mail that is still to be sent was not sent, and a due time of which mail was sent is
\* over, or a worker is at it.
NoSecondMail ==
    \A d \in Slots \ troubled, g \in Groups :
        /\ mailed[<<d, g>>] <= 1
        /\ \A w \in Senders : Sending(w) /\ senders[w].due = d /\ g \in senders[w].rest =>
             mailed[<<d, g>>] = 0
        /\ mailed[<<d, g>>] # 0 =>
             \/ d < schedule.next
             \/ ~schedule.stored
             \/ \E w \in Senders : Sending(w) /\ senders[w].due = d

SettingsKept ==
    ~raced => /\ schedule.by = schedule.settings
              /\ \A w \in Senders : Sending(w) => senders[w].settings = schedule.settings

ReportsInv == ReportsTyped /\ SentWhenDue /\ OneSender /\ NoSecondMail /\ SettingsKept

\* A worker that sends is not free.
LEMMA SenderSends == \A s \in Sender : s # NotSending /\ s.pc = "send"
BY DEF Sender, NotSending

LEMMA ReportsBegin == MaxSlot \in Nat \ {0} /\ ReportsInit => ReportsInv
<1> SUFFICES ASSUME MaxSlot \in Nat \ {0}, ReportsInit PROVE ReportsInv OBVIOUS
<1>1. schedule \in ScheduleRow /\ schedule.next = 1 /\ schedule.by = schedule.settings
  BY DEF ReportsInit, ScheduleRow
<1>2. \A w \in Senders : ~Sending(w)
  BY DEF ReportsInit, Sending
<1>3. mailed \in [Slots \X Groups -> 0..2] /\ \A d \in Slots, g \in Groups : mailed[<<d, g>>] = 0
  BY DEF ReportsInit
<1>4. slot \in 1..MaxSlot /\ slot = 1 /\ senders \in [Senders -> Sender \cup {NotSending}]
  BY DEF ReportsInit
<1> QED BY <1>1, <1>2, <1>3, <1>4
        DEF ReportsInv, ReportsTyped, SentWhenDue, OneSender, NoSecondMail, SettingsKept

\* One column of the schedule is written.
LEMMA ColumnWritten ==
  ASSUME NEW r \in ScheduleRow, NEW n \in Nat, NEW active \in BOOLEAN
  PROVE  /\ LET s == [r EXCEPT !.settings = n]
            IN s \in ScheduleRow /\ s.settings = n /\ s.stored = r.stored /\ s.next = r.next
               /\ s.by = r.by /\ s.lease = r.lease
         /\ LET s == [r EXCEPT !.active = active]
            IN s \in ScheduleRow /\ s.settings = r.settings /\ s.stored = r.stored
               /\ s.next = r.next /\ s.by = r.by /\ s.lease = r.lease
         /\ LET s == [r EXCEPT !.next = n]
            IN s \in ScheduleRow /\ s.settings = r.settings /\ s.stored = r.stored
               /\ s.next = n /\ s.by = r.by /\ s.lease = r.lease
         /\ LET s == [r EXCEPT !.by = n]
            IN s \in ScheduleRow /\ s.settings = r.settings /\ s.stored = r.stored
               /\ s.next = r.next /\ s.by = n /\ s.lease = r.lease
         /\ LET s == [r EXCEPT !.lease = "none"]
            IN s \in ScheduleRow /\ s.settings = r.settings /\ s.stored = r.stored
               /\ s.next = r.next /\ s.by = r.by /\ s.lease = "none"
BY DEF ScheduleRow

\* What update() writes, and the end of a run.
LEMMA Edited ==
  ASSUME schedule \in ScheduleRow, slot + 1 \in Nat, NEW active \in BOOLEAN,
         schedule' = [schedule EXCEPT !.settings = @ + 1, !.active = active,
                                      !.next = slot + 1, !.by = schedule.settings + 1]
  PROVE  /\ schedule' \in ScheduleRow /\ schedule'.stored = schedule.stored
         /\ schedule'.next = slot + 1 /\ schedule'.by = schedule'.settings
<1> DEFINE a1 == [schedule EXCEPT !.settings = @ + 1]
           a2 == [a1 EXCEPT !.active = active]
           a3 == [a2 EXCEPT !.next = slot + 1]
           a4 == [a3 EXCEPT !.by = schedule.settings + 1]
<1>1. schedule' = a4
  OBVIOUS
<1>2. schedule.settings + 1 \in Nat /\ a1 = [schedule EXCEPT !.settings = schedule.settings + 1]
  BY DEF ScheduleRow
<1>3. a1 \in ScheduleRow /\ a1.stored = schedule.stored /\ a1.settings = schedule.settings + 1
  BY <1>2, ColumnWritten
<1> HIDE DEF a1
<1>4. a2 \in ScheduleRow /\ a2.stored = a1.stored /\ a2.settings = a1.settings
  BY <1>3, ColumnWritten
<1> HIDE DEF a2
<1>5. a3 \in ScheduleRow /\ a3.stored = a2.stored /\ a3.settings = a2.settings /\ a3.next = slot + 1
  BY <1>4, ColumnWritten
<1> HIDE DEF a3
<1>6. /\ a4 \in ScheduleRow /\ a4.stored = a3.stored /\ a4.settings = a3.settings
      /\ a4.next = a3.next /\ a4.by = schedule.settings + 1
  BY <1>2, <1>5, ColumnWritten
<1> HIDE DEF a4
<1> QED BY <1>1, <1>3, <1>4, <1>5, <1>6

LEMMA RunEnded ==
  ASSUME schedule \in ScheduleRow, slot + 1 \in Nat, NEW w, senders[w].settings \in Nat,
         schedule' = [schedule EXCEPT !.lease = "none", !.next = slot + 1,
                                      !.by = senders[w].settings]
  PROVE  /\ schedule' \in ScheduleRow /\ schedule'.stored = schedule.stored
         /\ schedule'.next = slot + 1 /\ schedule'.by = senders[w].settings
         /\ schedule'.settings = schedule.settings
<1> DEFINE a1 == [schedule EXCEPT !.lease = "none"]
           a2 == [a1 EXCEPT !.next = slot + 1]
           a3 == [a2 EXCEPT !.by = senders[w].settings]
<1>1. schedule' = a3
  OBVIOUS
<1>2. a1 \in ScheduleRow /\ a1.stored = schedule.stored /\ a1.settings = schedule.settings
  BY ColumnWritten
<1> HIDE DEF a1
<1>3. a2 \in ScheduleRow /\ a2.stored = a1.stored /\ a2.settings = a1.settings /\ a2.next = slot + 1
  BY <1>2, ColumnWritten
<1> HIDE DEF a2
<1>4. /\ a3 \in ScheduleRow /\ a3.stored = a2.stored /\ a3.settings = a2.settings
      /\ a3.next = a2.next /\ a3.by = senders[w].settings
  BY <1>3, ColumnWritten
<1> HIDE DEF a3
<1> QED BY <1>1, <1>2, <1>3, <1>4

\* The owner writes the schedule; the time of the next mail goes on or stays.
LEMMA EditScheduleKeeps ==
  ASSUME ReportsInv, NEW active \in BOOLEAN, EditSchedule(active)
  PROVE  ReportsInv'
<1>1. /\ schedule' = [schedule EXCEPT !.settings = @ + 1, !.active = active,
                                      !.next = slot + 1, !.by = schedule.settings + 1]
      /\ schedule.stored
      /\ raced' = (raced \/ BusySenders # {})
      /\ UNCHANGED <<slot, senders, mailed, troubled>>
  BY DEF EditSchedule, NextSlot
<1>2. /\ schedule' \in ScheduleRow /\ schedule'.next = slot + 1 /\ slot \in Nat
      /\ schedule'.by = schedule'.settings /\ schedule'.stored = schedule.stored
  <2>1. schedule \in ScheduleRow /\ slot \in Nat /\ slot + 1 \in Nat
    BY DEF ReportsInv, ReportsTyped
  <2>2. /\ schedule' \in ScheduleRow /\ schedule'.stored = schedule.stored
        /\ schedule'.next = slot + 1 /\ schedule'.by = schedule'.settings
    BY <1>1, <2>1, Edited
  <2> QED BY <2>1, <2>2
<1>3. ReportsTyped'
  BY <1>1, <1>2 DEF ReportsInv, ReportsTyped
<1>4. \A w \in Senders : (Sending(w)' <=> Sending(w))
  BY <1>1 DEF Sending
<1>5. \A w \in Senders : Sending(w) => senders[w] \in Sender
  BY DEF ReportsInv, ReportsTyped, Sending
<1>6. SentWhenDue' /\ OneSender'
  BY <1>1, <1>2, <1>4, <1>5 DEF ReportsInv, SentWhenDue, OneSender, Sender, Slots
<1>7. NoSecondMail'
  <2>1. schedule.next <= schedule'.next /\ schedule.next \in Nat /\ schedule'.next \in Nat
    BY <1>2 DEF ReportsInv, ReportsTyped
  <2>2. \A d \in Slots : d < schedule.next => d < schedule'.next
    BY <2>1 DEF Slots
  <2>3. UNCHANGED <<senders, mailed, troubled>>
    BY <1>1
  <2> QED BY ZenonT(20), <1>2, <1>4, <2>2, <2>3 DEF ReportsInv, NoSecondMail
<1>8. ~raced' => ~raced /\ \A w \in Senders : ~Sending(w)
  BY <1>1 DEF BusySenders, Sending
<1>9. SettingsKept'
  BY <1>2, <1>4, <1>8 DEF SettingsKept
<1> QED BY <1>3, <1>6, <1>7, <1>9 DEF ReportsInv

LEMMA RemoveScheduleKeeps ==
  ASSUME ReportsInv, RemoveSchedule
  PROVE  ReportsInv'
<1>1. /\ schedule' = [schedule EXCEPT !.stored = FALSE]
      /\ UNCHANGED <<slot, senders, mailed, troubled, raced>>
  BY DEF RemoveSchedule
<1>2. /\ schedule' \in ScheduleRow /\ schedule'.next = schedule.next /\ ~schedule'.stored
      /\ schedule'.lease = schedule.lease /\ schedule'.by = schedule.by
      /\ schedule'.settings = schedule.settings
  BY <1>1 DEF ReportsInv, ReportsTyped, ScheduleRow
<1> QED BY <1>1, <1>2 DEF ReportsInv, ReportsTyped, SentWhenDue, OneSender, NoSecondMail,
                          SettingsKept, Sending

LEMMA TimePassesKeeps ==
  ASSUME ReportsInv, TimePasses, MaxSlot \in Nat
  PROVE  ReportsInv'
<1>1. /\ slot < MaxSlot /\ slot' = slot + 1
      /\ UNCHANGED <<schedule, senders, mailed, troubled, raced>>
  BY DEF TimePasses
<1>2. ReportsTyped'
  BY <1>1 DEF ReportsInv, ReportsTyped
<1>3. SentWhenDue'
  BY <1>1 DEF ReportsInv, ReportsTyped, SentWhenDue, Sending, Slots
<1> QED BY <1>1, <1>2, <1>3 DEF ReportsInv, OneSender, NoSecondMail, SettingsKept, Sending

\* The lease is over: every mail that is under way is troubled from now on.
LEMMA ReportLeaseEndsKeeps ==
  ASSUME ReportsInv, ReportLeaseEnds
  PROVE  ReportsInv'
<1>1. /\ schedule' = [schedule EXCEPT !.lease = "over"]
      /\ troubled' = troubled \cup {senders[w].due : w \in BusySenders}
      /\ UNCHANGED <<slot, senders, mailed, raced>>
  BY DEF ReportLeaseEnds
<1>2. /\ schedule' \in ScheduleRow /\ schedule'.next = schedule.next
      /\ schedule'.stored = schedule.stored /\ schedule'.by = schedule.by
      /\ schedule'.settings = schedule.settings
  BY <1>1 DEF ReportsInv, ReportsTyped, ScheduleRow
<1>3. \A w \in Senders : (Sending(w)' <=> Sending(w)) /\ (Sending(w) => senders[w].due \in troubled')
  BY <1>1 DEF Sending, BusySenders
<1>4. ReportsTyped' /\ SentWhenDue' /\ OneSender' /\ SettingsKept'
  BY <1>1, <1>2, <1>3 DEF ReportsInv, ReportsTyped, SentWhenDue, OneSender, SettingsKept
<1>5. NoSecondMail'
  BY <1>1, <1>2, <1>3 DEF ReportsInv, NoSecondMail
<1> QED BY <1>4, <1>5 DEF ReportsInv

\* A worker leaves: at a due time that is over, or troubled, or of a removed schedule.
LEMMA LeaveKeeps ==
  ASSUME ReportsInv, NEW w \in Senders, Sending(w),
         senders' = [senders EXCEPT ![w] = NotSending], schedule' \in ScheduleRow,
         schedule'.next \in 1..(slot + 1), schedule.next <= schedule'.next,
         schedule'.stored = schedule.stored,
         \/ schedule'.next = slot + 1
         \/ schedule'.next = schedule.next /\ schedule'.lease = schedule.lease,
         \/ schedule'.next = slot + 1 \/ ~schedule.stored \/ senders[w].due \in troubled',
         ~raced => schedule'.by = schedule.settings /\ schedule'.settings = schedule.settings,
         troubled \subseteq troubled', UNCHANGED <<slot, mailed, raced>>
  PROVE  ReportsInv'
<1>1. \A v \in Senders : (Sending(v)' <=> v # w /\ Sending(v))
                         /\ (v # w => senders'[v] = senders[v])
  BY DEF ReportsInv, ReportsTyped, Sending
<1>2. \A v \in Senders : Sending(v) => senders[v].due \in Nat
  BY DEF ReportsInv, ReportsTyped, Sending, Sender
<1>3. slot \in Nat /\ schedule.next \in Nat /\ schedule'.next \in Nat
  BY DEF ReportsInv, ReportsTyped
<1>4. ReportsTyped'
  BY DEF ReportsInv, ReportsTyped
<1>5. SentWhenDue'
  BY <1>1, <1>2, <1>3 DEF ReportsInv, SentWhenDue
<1>6. OneSender'
  <2> SUFFICES ASSUME NEW u \in Senders, u # w, Sending(u), senders[u].due \notin troubled
               PROVE  senders[u].due = schedule'.next => schedule'.lease = "held"
    BY <1>1 DEF ReportsInv, OneSender
  <2> QED BY <1>2, <1>3 DEF ReportsInv, SentWhenDue, OneSender
<1>7. NoSecondMail'
  <2> SUFFICES ASSUME NEW d \in Slots \ troubled', NEW g \in Groups
               PROVE  /\ mailed[<<d, g>>] <= 1
                      /\ \A u \in Senders : Sending(u)' /\ senders'[u].due = d /\ g \in senders'[u].rest =>
                           mailed[<<d, g>>] = 0
                      /\ mailed[<<d, g>>] # 0 =>
                           \/ d < schedule'.next
                           \/ ~schedule'.stored
                           \/ \E u \in Senders : Sending(u)' /\ senders'[u].due = d
    BY DEF NoSecondMail
  <2>1. d \in Nat /\ d \notin troubled
    BY DEF Slots
  <2>2. /\ mailed[<<d, g>>] <= 1
        /\ \A u \in Senders : Sending(u)' /\ senders'[u].due = d /\ g \in senders'[u].rest =>
             mailed[<<d, g>>] = 0
    BY <1>1, <2>1 DEF ReportsInv, NoSecondMail
  <2>3. ASSUME mailed[<<d, g>>] # 0, schedule.stored, ~(d < schedule'.next)
        PROVE  \E u \in Senders : Sending(u)' /\ senders'[u].due = d
    <3>1. PICK u \in Senders : Sending(u) /\ senders[u].due = d
      BY <1>3, <2>1, <2>3 DEF ReportsInv, NoSecondMail
    <3>2. d <= slot
      BY <3>1 DEF ReportsInv, SentWhenDue
    <3>3. u # w
      BY <1>3, <2>1, <2>3, <3>1, <3>2
    <3> QED BY <1>1, <3>1, <3>3
  <2> QED BY <2>2, <2>3
<1>8. SettingsKept'
  BY <1>1 DEF ReportsInv, SettingsKept
<1> QED BY <1>4, <1>5, <1>6, <1>7, <1>8 DEF ReportsInv

LEMMA FinishScheduleKeeps ==
  ASSUME ReportsInv, NEW w \in Senders, FinishSchedule(w)
  PROVE  ReportsInv'
<1>1. /\ senders[w].pc = "send" /\ senders' = [senders EXCEPT ![w] = NotSending]
      /\ UNCHANGED <<slot, mailed, troubled, raced>>
  BY DEF FinishSchedule
<1>2. Sending(w) /\ senders[w] \in Sender
  BY <1>1 DEF Sending, NotSending, ReportsInv, ReportsTyped
<1>3. senders[w].settings \in Nat /\ slot \in Nat /\ schedule.next <= slot + 1
  BY <1>2 DEF Sender, ReportsInv, ReportsTyped
<1>4. CASE schedule.stored
  <2>1. schedule' = [schedule EXCEPT !.lease = "none", !.next = slot + 1,
                                     !.by = senders[w].settings]
    BY <1>4 DEF FinishSchedule, NextSlot
  <2>2. /\ schedule' \in ScheduleRow /\ schedule'.next = slot + 1
        /\ schedule'.stored = schedule.stored /\ schedule'.by = senders[w].settings
        /\ schedule'.settings = schedule.settings
    <3>1. schedule \in ScheduleRow /\ slot + 1 \in Nat
      BY <1>3 DEF ReportsInv, ReportsTyped
    <3> QED BY <1>3, <2>1, <3>1, RunEnded
  <2>3. ~raced => schedule'.by = schedule.settings
    BY <1>2, <2>2 DEF ReportsInv, SettingsKept
  <2>4. /\ schedule.next <= schedule'.next /\ schedule'.next \in 1..(slot + 1)
        /\ troubled \subseteq troubled'
    BY <1>1, <1>3, <2>2
  <2> QED BY <1>1, <1>2, <2>2, <2>3, <2>4, LeaveKeeps
<1>5. CASE ~schedule.stored
  <2>1. schedule' = schedule
    BY <1>5 DEF FinishSchedule
  <2>2. schedule \in ScheduleRow /\ schedule.next \in 1..(slot + 1) /\ schedule.next \in Nat
    BY DEF ReportsInv, ReportsTyped
  <2>3. ~raced => schedule.by = schedule.settings
    BY DEF ReportsInv, SettingsKept
  <2>4. schedule.next <= schedule.next /\ troubled \subseteq troubled'
    BY <1>1, <2>2
  <2> QED BY <1>1, <1>2, <1>5, <2>1, <2>2, <2>3, <2>4, LeaveKeeps
<1> QED BY <1>4, <1>5

LEMMA SenderCrashKeeps ==
  ASSUME ReportsInv, NEW w \in Senders, SenderCrash(w)
  PROVE  ReportsInv'
<1>1. /\ Sending(w) /\ senders' = [senders EXCEPT ![w] = NotSending]
      /\ troubled' = troubled \cup {senders[w].due}
      /\ schedule' = schedule /\ UNCHANGED <<slot, mailed, raced>>
  BY DEF SenderCrash, Sending
<1>2. schedule \in ScheduleRow /\ schedule.next \in 1..(slot + 1) /\ schedule.next \in Nat
  BY DEF ReportsInv, ReportsTyped
<1>3. ~raced => schedule.by = schedule.settings
  BY DEF ReportsInv, SettingsKept
<1>4. senders[w].due \in troubled' /\ troubled \subseteq troubled'
  BY <1>1
<1>5. schedule.next <= schedule.next
  BY <1>2
<1> QED BY <1>1, <1>2, <1>3, <1>4, <1>5, LeaveKeeps

\* A worker takes the schedule: nobody untroubled is at its time, and no mail of it is out.
LEMMA LeaseScheduleKeeps ==
  ASSUME ReportsInv, NEW w \in Senders, LeaseSchedule(w)
  PROVE  ReportsInv'
<1> DEFINE s == [pc |-> "send", due |-> schedule.next, settings |-> schedule.settings,
                 rest |-> Groups]
<1>1. /\ schedule.stored /\ schedule.next <= slot /\ schedule.lease # "held"
      /\ senders[w] = NotSending /\ senders' = [senders EXCEPT ![w] = s]
      /\ schedule' = [schedule EXCEPT !.lease = "held"]
      /\ UNCHANGED <<slot, mailed, troubled, raced>>
  BY DEF LeaseSchedule, LeaseIf
<1>2. /\ s \in Sender /\ s.due = schedule.next /\ s.settings = schedule.settings
      /\ s # NotSending
  BY SenderSends DEF ReportsInv, ReportsTyped, ScheduleRow, Sender
<1>3. /\ schedule' \in ScheduleRow /\ schedule'.next = schedule.next /\ schedule'.lease = "held"
      /\ schedule'.stored = schedule.stored /\ schedule'.by = schedule.by
      /\ schedule'.settings = schedule.settings
  BY <1>1 DEF ReportsInv, ReportsTyped, ScheduleRow
<1> HIDE DEF s
<1>4. \A v \in Senders : /\ senders'[v] = IF v = w THEN s ELSE senders[v]
                         /\ Sending(v)' <=> v = w \/ Sending(v)
  BY <1>1, <1>2 DEF ReportsInv, ReportsTyped, Sending
<1>5. \A v \in Senders : Sending(v) /\ senders[v].due = schedule.next =>
                           schedule.next \in troubled
  BY <1>1 DEF ReportsInv, OneSender
<1>6. schedule.next \in Slots /\ schedule.next \in Nat
  BY <1>1 DEF ReportsInv, ReportsTyped, Slots
<1>7. schedule.next \notin troubled => \A g \in Groups : mailed[<<schedule.next, g>>] = 0
  BY <1>1, <1>5, <1>6 DEF ReportsInv, NoSecondMail
<1>8. ReportsTyped'
  BY <1>1, <1>2, <1>3 DEF ReportsInv, ReportsTyped
<1>9. SentWhenDue'
  BY <1>1, <1>2, <1>3, <1>4, <1>6 DEF ReportsInv, SentWhenDue
<1>10. OneSender'
  BY <1>1, <1>2, <1>3, <1>4, <1>5 DEF ReportsInv, OneSender
<1>11. NoSecondMail'
  <2> SUFFICES ASSUME NEW d \in Slots \ troubled, NEW g \in Groups
               PROVE  /\ mailed[<<d, g>>] <= 1
                      /\ \A u \in Senders : Sending(u)' /\ senders'[u].due = d /\ g \in senders'[u].rest =>
                           mailed[<<d, g>>] = 0
                      /\ mailed[<<d, g>>] # 0 =>
                           \/ d < schedule.next
                           \/ ~schedule.stored
                           \/ \E u \in Senders : Sending(u)' /\ senders'[u].due = d
    BY ZenonT(20), <1>1, <1>3 DEF NoSecondMail
  <2>1. mailed[<<d, g>>] <= 1
    BY DEF ReportsInv, NoSecondMail
  <2>2. \A u \in Senders : Sending(u)' /\ senders'[u].due = d /\ g \in senders'[u].rest =>
          mailed[<<d, g>>] = 0
    BY <1>2, <1>4, <1>7 DEF ReportsInv, NoSecondMail
  <2>3. mailed[<<d, g>>] # 0 =>
          d < schedule.next \/ ~schedule.stored \/ \E u \in Senders : Sending(u)' /\ senders'[u].due = d
    <3>1. \A u \in Senders : Sending(u) => u # w /\ Sending(u)' /\ senders'[u] = senders[u]
      BY <1>1, <1>4 DEF Sending
    <3> QED BY <3>1 DEF ReportsInv, NoSecondMail
  <2> QED BY <2>1, <2>2, <2>3
<1>12. SettingsKept'
  BY <1>1, <1>2, <1>3, <1>4 DEF ReportsInv, SettingsKept
<1> QED BY <1>8, <1>9, <1>10, <1>11, <1>12 DEF ReportsInv

LEMMA SendGroupKeeps ==
  ASSUME ReportsInv, NEW w \in Senders, NEW g \in Groups, SendGroup(w, g)
  PROVE  ReportsInv'
<1> DEFINE d == senders[w].due
           s == [senders[w] EXCEPT !.rest = @ \ {g}]
<1>1. /\ senders[w].pc = "send" /\ g \in senders[w].rest
      /\ senders' = [senders EXCEPT ![w].rest = @ \ {g}]
      /\ \/ mailed' = [mailed EXCEPT ![<<d, g>>] = IF @ = 2 THEN 2 ELSE @ + 1]
         \/ mailed' = mailed
      /\ UNCHANGED <<schedule, slot, troubled, raced>>
  BY DEF SendGroup
<1>2. Sending(w) /\ senders[w] \in Sender
  BY <1>1 DEF Sending, NotSending, ReportsInv, ReportsTyped
<1>3. /\ s \in Sender /\ s.due = d /\ s.settings = senders[w].settings
      /\ s.rest = senders[w].rest \ {g}
  BY <1>2 DEF Sender
<1>4. senders' = [senders EXCEPT ![w] = s]
  BY <1>1 DEF ReportsInv, ReportsTyped
<1>5. d \in Slots
  BY <1>2 DEF ReportsInv, SentWhenDue
<1> HIDE DEF d, s
<1>6. \A v \in Senders : /\ senders'[v] = IF v = w THEN s ELSE senders[v]
                         /\ Sending(v)' <=> Sending(v)
  BY <1>2, <1>3, <1>4, SenderSends DEF ReportsInv, ReportsTyped, Sending
<1>7. \A v \in Senders : Sending(v) => /\ senders'[v].due = senders[v].due
                                       /\ senders'[v].settings = senders[v].settings
  BY <1>3, <1>6 DEF d
<1>8. \A m \in Slots \X Groups : /\ m # <<d, g>> => mailed'[m] = mailed[m]
                                 /\ mailed'[m] \in 0..2
                                 /\ m = <<d, g>> /\ mailed[m] = 0 => mailed'[m] <= 1
                                 /\ mailed'[m] # mailed[m] => m = <<d, g>>
  BY <1>1, <1>5 DEF ReportsInv, ReportsTyped
<1>9. ReportsTyped'
  <2>1. mailed' \in [Slots \X Groups -> 0..2]
    BY <1>1, <1>8 DEF ReportsInv, ReportsTyped
  <2> QED BY <1>1, <1>3, <1>4, <2>1 DEF ReportsInv, ReportsTyped
<1>10. SentWhenDue' /\ OneSender' /\ SettingsKept'
  BY <1>1, <1>6, <1>7 DEF ReportsInv, SentWhenDue, OneSender, SettingsKept
<1>11. NoSecondMail'
  <2> SUFFICES ASSUME NEW c \in Slots \ troubled, NEW h \in Groups
               PROVE  /\ mailed'[<<c, h>>] <= 1
                      /\ \A u \in Senders : Sending(u)' /\ senders'[u].due = c /\ h \in senders'[u].rest =>
                           mailed'[<<c, h>>] = 0
                      /\ mailed'[<<c, h>>] # 0 =>
                           \/ c < schedule'.next
                           \/ ~schedule'.stored
                           \/ \E u \in Senders : Sending(u)' /\ senders'[u].due = c
    <3>1. UNCHANGED <<schedule, troubled>>
      BY <1>1
    <3> QED BY <3>1 DEF NoSecondMail
  <2>1. CASE <<c, h>> # <<d, g>>
    <3>1. mailed'[<<c, h>>] = mailed[<<c, h>>]
      BY <1>8, <2>1
    <3>2. \A u \in Senders : Sending(u) /\ h \in senders'[u].rest => h \in senders[u].rest
      BY <1>3, <1>6
    <3>3. UNCHANGED schedule
      BY <1>1
    <3>4. /\ mailed[<<c, h>>] <= 1
          /\ \A u \in Senders : Sending(u) /\ senders[u].due = c /\ h \in senders[u].rest =>
               mailed[<<c, h>>] = 0
          /\ mailed[<<c, h>>] # 0 =>
               \/ c < schedule.next
               \/ ~schedule.stored
               \/ \E u \in Senders : Sending(u) /\ senders[u].due = c
      BY DEF ReportsInv, NoSecondMail
    <3> QED BY <1>6, <1>7, <3>1, <3>2, <3>3, <3>4
  <2>2. CASE c = d /\ h = g
    <3>1. mailed[<<d, g>>] = 0
      BY <1>1, <1>2, <2>2 DEF d, ReportsInv, NoSecondMail
    <3>2. mailed'[<<d, g>>] <= 1
      BY <1>5, <1>8, <3>1
    <3>3. \A u \in Senders : Sending(u) /\ senders[u].due = c => u = w
      BY <1>2, <2>2 DEF d, ReportsInv, OneSender
    <3>4. g \notin senders'[w].rest
      BY <1>3, <1>6
    <3> QED BY <1>2, <1>6, <1>7, <2>2, <3>2, <3>3, <3>4 DEF d
  <2> QED BY <2>1, <2>2
<1> QED BY <1>9, <1>10, <1>11 DEF ReportsInv

\* However often the owner changes the schedule and whoever sends, a group gets at most one
\* mail for one due time that no worker outlived or crashed on, and the due time comes from
\* the present settings (schedules.service.ts).
THEOREM ReportsAreSentOnce ==
  ASSUME MaxSlot \in Nat \ {0}
  PROVE  ReportsSpec => []SentAsScheduled
<1>1. ReportsInv /\ [ReportsNext]_reportVars => ReportsInv'
  <2> SUFFICES ASSUME ReportsInv, [ReportsNext]_reportVars PROVE ReportsInv' OBVIOUS
  <2>1. CASE ReportsNext
    BY <2>1, EditScheduleKeeps, RemoveScheduleKeeps, TimePassesKeeps, ReportLeaseEndsKeeps,
       LeaseScheduleKeeps, FinishScheduleKeeps, SenderCrashKeeps, SendGroupKeeps
       DEF ReportsNext
  <2>2. CASE UNCHANGED reportVars
    BY <2>2 DEF reportVars, ReportsInv, ReportsTyped, SentWhenDue, OneSender, NoSecondMail,
                SettingsKept, Sending
  <2> QED BY <2>1, <2>2
<1>2. ReportsInv => SentAsScheduled
  BY DEF ReportsInv, ReportsTyped, NoSecondMail, SettingsKept, SentAsScheduled
<1> QED BY ReportsBegin, <1>1, <1>2, PTL DEF ReportsSpec

-----------------------------------------------------------------------------
(* Notifications *)

Handling == [pc : {"each", "send", "mark"}, wanted : SUBSET Pairs, rest : SUBSET Pairs,
             pair : SUBSET Pairs, failed : BOOLEAN]

NotifyTyped ==
    /\ sent \subseteq Outside
    /\ outside \in [Outside -> Nat]
    /\ running \in [Notifiers -> Handling \cup {Off}]
    /\ \A h \in Notifiers : running[h].pc \in {"send", "mark"} =>
         \E p \in Outside : running[h].pair = {p}

Served(p) == p \in sent \/ (p[2] = "inapp" /\ p[1] \in inbox)

\* What a handler has behind it was served, unless it will throw; so was what the handlers
\* that returned wanted.
BehindIsServed ==
    /\ \A p \in returned : Served(p)
    /\ \A h \in Notifiers : running[h].pc # "off" /\ ~running[h].failed =>
         \A p \in running[h].wanted \ running[h].rest : Served(p)

WorksOn(h, p) == Is(h, "send", p) \/ Is(h, "mark", p)

\* One handler at a time works on a pair; a message that went out is being marked, or was.
GoesOutOnce(p) ==
    /\ \A g, h \in Notifiers : WorksOn(g, p) /\ WorksOn(h, p) => g = h
    /\ outside[p] <= 1
    /\ p \in sent => /\ \A h \in Notifiers : ~WorksOn(h, p)
                     /\ p[2] # "push" => outside[p] = 1
    /\ \A h \in Notifiers : Is(h, "mark", p) /\ p[2] # "push" => outside[p] = 1
    /\ outside[p] # 0 /\ p \notin sent => \E h \in Notifiers : Is(h, "mark", p)

NotifyInv == NotifyTyped /\ BehindIsServed /\ \A p \in Outside \ unmarked : GoesOutOnce(p)

\* What a step of a handler does to what is served.
LEMMA HandlerServes ==
  ASSUME NotifyInv, NEW h \in Notifiers, NEW x \in Handling \cup {Off},
         running' = [running EXCEPT ![h] = x],
         inbox \subseteq inbox', sent \subseteq sent', returned' = returned,
         x.pc # "off" /\ ~x.failed => \A p \in x.wanted \ x.rest : Served(p)'
  PROVE  BehindIsServed'
<1>1. \A p : Served(p) => Served(p)'
  BY DEF Served
<1>2. \A g \in Notifiers : running'[g] = IF g = h THEN x ELSE running[g]
  BY DEF NotifyInv, NotifyTyped
<1> QED BY <1>1, <1>2 DEF NotifyInv, BehindIsServed

\* A pair that a step leaves alone.
LEMMA PairStays ==
  ASSUME NEW p, GoesOutOnce(p), p \in sent' <=> p \in sent, outside'[p] = outside[p],
         \A g \in Notifiers : /\ Is(g, "send", p)' <=> Is(g, "send", p)
                              /\ Is(g, "mark", p)' <=> Is(g, "mark", p)
  PROVE  GoesOutOnce(p)'
BY DEF GoesOutOnce, WorksOn

\* A handler that was at no pair, and is at none now.
LEMMA BetweenPairs ==
  ASSUME NotifyInv, NEW h \in Notifiers, NEW x \in Handling \cup {Off},
         running' = [running EXCEPT ![h] = x], x.pc \in {"off", "each"},
         running[h].pc \in {"off", "each"},
         inbox \subseteq inbox', UNCHANGED <<sent, outside, unmarked, returned>>,
         x.pc # "off" /\ ~x.failed => \A p \in x.wanted \ x.rest : Served(p)'
  PROVE  NotifyInv'
<1>1. BehindIsServed'
  BY HandlerServes
<1>2. \A g \in Notifiers : running'[g] = IF g = h THEN x ELSE running[g]
  BY DEF NotifyInv, NotifyTyped
<1>3. NotifyTyped'
  BY <1>2 DEF NotifyInv, NotifyTyped
<1>4. ASSUME NEW p \in Outside \ unmarked' PROVE GoesOutOnce(p)'
  <2>1. \A g \in Notifiers : /\ Is(g, "send", p)' <=> Is(g, "send", p)
                             /\ Is(g, "mark", p)' <=> Is(g, "mark", p)
    BY <1>2 DEF Is
  <2> QED BY <2>1, PairStays DEF NotifyInv
<1> QED BY <1>1, <1>3, <1>4 DEF NotifyInv

LEMMA OffIsOff == Off.pc = "off" /\ \A x \in Handling : x # Off
BY DEF Off, Handling

LEMMA NotifyBegins == NotifyInit => NotifyInv
<1> SUFFICES ASSUME NotifyInit PROVE NotifyInv OBVIOUS
<1>1. \A h \in Notifiers : running[h] = Off /\ running[h].pc = "off"
  BY OffIsOff DEF NotifyInit
<1>2. outside \in [Outside -> Nat] /\ \A p \in Outside : outside[p] = 0
  BY DEF NotifyInit
<1>3. NotifyTyped
  BY <1>1, <1>2 DEF NotifyInit, NotifyTyped
<1>4. BehindIsServed
  BY <1>1 DEF NotifyInit, BehindIsServed
<1>5. \A p \in Outside : GoesOutOnce(p)
  BY <1>1, <1>2 DEF NotifyInit, GoesOutOnce, WorksOn, Is
<1> QED BY <1>3, <1>4, <1>5 DEF NotifyInv

LEMMA DeliverRequestKeeps ==
  ASSUME NotifyInv, NEW h \in Notifiers, NEW wanted \in SUBSET Pairs, DeliverRequest(h, wanted)
  PROVE  NotifyInv'
<1> DEFINE x == [pc |-> "each", wanted |-> wanted, rest |-> wanted, pair |-> {},
                 failed |-> FALSE]
<1>1. x \in Handling /\ x.pc = "each" /\ x.wanted \ x.rest = {}
  BY DEF Handling
<1>2. running[h].pc = "off" /\ running' = [running EXCEPT ![h] = x]
  BY OffIsOff DEF DeliverRequest, Goes
<1>3. UNCHANGED <<inbox, sent, outside, unmarked, returned>>
  BY DEF DeliverRequest
<1> HIDE DEF x
<1> QED BY <1>1, <1>2, <1>3, BetweenPairs

\* The pair had its turn.
LEMMA DoneHas ==
  ASSUME NEW h, NEW p, running[h] \in Handling
  PROVE  /\ Done(h, p) \in Handling /\ Done(h, p).pc = "each" /\ Done(h, p).pair = {}
         /\ Done(h, p).wanted = running[h].wanted /\ Done(h, p).rest = running[h].rest \ {p}
         /\ Done(h, p).failed = running[h].failed
BY DEF Done, Handling

LEMMA HandlerAt ==
  ASSUME NotifyInv, NEW h \in Notifiers, running[h].pc # "off"
  PROVE  running[h] \in Handling
BY OffIsOff DEF NotifyInv, NotifyTyped

LEMMA TurnPassesKeeps ==
  ASSUME NotifyInv, NEW h \in Notifiers, NEW p \in Pairs, Turn(h, p), Goes(h, Done(h, p)),
         inbox \subseteq inbox', UNCHANGED <<sent, outside, unmarked, returned>>, Served(p)'
  PROVE  NotifyInv'
<1>1. running[h].pc = "each" /\ running[h] \in Handling
  BY HandlerAt DEF Turn
<1>2. \A q : Served(q) => Served(q)'
  BY DEF Served
<1>3. ~running[h].failed => \A q \in Done(h, p).wanted \ Done(h, p).rest : Served(q)'
  BY <1>1, <1>2, DoneHas DEF NotifyInv, BehindIsServed
<1> QED BY <1>1, <1>3, DoneHas, BetweenPairs DEF Goes

LEMMA PutInInboxKeeps ==
  ASSUME NotifyInv, NEW h \in Notifiers, NEW p \in Pairs, PutInInbox(h, p)
  PROVE  NotifyInv'
<1>1. Served(p)' /\ inbox \subseteq inbox'
  BY DEF PutInInbox, Served
<1> QED BY <1>1, TurnPassesKeeps DEF PutInInbox

LEMMA SkipSentKeeps ==
  ASSUME NotifyInv, NEW h \in Notifiers, NEW p \in Pairs, SkipSent(h, p)
  PROVE  NotifyInv'
<1>1. Served(p)' /\ inbox \subseteq inbox'
  BY DEF SkipSent, Served
<1> QED BY <1>1, TurnPassesKeeps DEF SkipSent

LEMMA TurnFailsKeeps ==
  ASSUME NotifyInv, NEW h \in Notifiers, NEW p \in Pairs, TurnFails(h, p)
  PROVE  NotifyInv'
<1> DEFINE x == [Done(h, p) EXCEPT !.failed = TRUE]
<1>1. running[h].pc = "each" /\ running[h] \in Handling
  BY HandlerAt DEF TurnFails, Turn
<1>2. x \in Handling /\ x.pc = "each" /\ x.failed = TRUE
  <2> DEFINE c == Done(h, p)
  <2>1. c \in Handling /\ c.pc = "each" BY <1>1, DoneHas
  <2>2. x = [c EXCEPT !.failed = TRUE] OBVIOUS
  <2> HIDE DEF c, x
  <2> QED BY <2>1, <2>2 DEF Handling
<1>3. running' = [running EXCEPT ![h] = x] /\ inbox \subseteq inbox'
      /\ UNCHANGED <<sent, outside, unmarked, returned>>
  BY DEF TurnFails, Goes
<1> HIDE DEF x
<1> QED BY <1>1, <1>2, <1>3, BetweenPairs

LEMMA FinishRequestKeeps ==
  ASSUME NotifyInv, NEW h \in Notifiers, FinishRequest(h)
  PROVE  NotifyInv'
<1>1. /\ running[h].pc = "each" /\ running[h].rest = {} /\ running' = [running EXCEPT ![h] = Off]
      /\ returned' = IF ~running[h].failed THEN returned \cup running[h].wanted ELSE returned
      /\ UNCHANGED <<inbox, sent, outside, unmarked>>
  BY DEF FinishRequest, FinishRequestIf, Goes
<1>2. \A g \in Notifiers : running'[g] = IF g = h THEN Off ELSE running[g]
  BY <1>1 DEF NotifyInv, NotifyTyped
<1>3. \A p \in returned' : Served(p)
  BY <1>1 DEF NotifyInv, BehindIsServed
<1>4. \A p : Served(p)' <=> Served(p)
  BY <1>1 DEF Served
<1>5. BehindIsServed'
  BY <1>2, <1>3, <1>4, OffIsOff DEF NotifyInv, BehindIsServed
<1>6. NotifyTyped'
  BY <1>1, <1>2, OffIsOff DEF NotifyInv, NotifyTyped
<1>7. ASSUME NEW p \in Outside \ unmarked' PROVE GoesOutOnce(p)'
  <2>1. \A g \in Notifiers : /\ Is(g, "send", p)' <=> Is(g, "send", p)
                             /\ Is(g, "mark", p)' <=> Is(g, "mark", p)
    BY <1>1, <1>2, OffIsOff DEF Is
  <2> QED BY <1>1, <1>7, <2>1, PairStays DEF NotifyInv
<1> QED BY <1>5, <1>6, <1>7 DEF NotifyInv

\* The pairs besides the one a handler works on.
LEMMA OtherPairsStay ==
  ASSUME NotifyInv, NEW h \in Notifiers, NEW p, NEW x \in Handling \cup {Off},
         running' = [running EXCEPT ![h] = x], unmarked \subseteq unmarked',
         running[h].pc \in {"send", "mark"} => running[h].pair = {p},
         x.pc \in {"send", "mark"} => x.pair = {p},
         \A q \in Outside : q # p => (q \in sent' <=> q \in sent) /\ outside'[q] = outside[q]
  PROVE  \A q \in Outside \ unmarked' : q # p => GoesOutOnce(q)'
<1> SUFFICES ASSUME NEW q \in Outside \ unmarked', q # p PROVE GoesOutOnce(q)'
  OBVIOUS
<1>1. \A g \in Notifiers : running'[g] = IF g = h THEN x ELSE running[g]
  BY DEF NotifyInv, NotifyTyped
<1>2. \A g \in Notifiers : /\ Is(g, "send", q)' <=> Is(g, "send", q)
                           /\ Is(g, "mark", q)' <=> Is(g, "mark", q)
  BY <1>1 DEF Is
<1> QED BY <1>2, PairStays DEF NotifyInv

\* A handler that goes on with one pair.
LEMMA OnePairMoves ==
  ASSUME NotifyInv, NEW h \in Notifiers, NEW p \in Outside, NEW x \in Handling \cup {Off},
         running' = [running EXCEPT ![h] = x], unmarked \subseteq unmarked',
         running[h].pc \in {"send", "mark"} => running[h].pair = {p},
         x.pc \in {"send", "mark"} => x.pair = {p},
         \A q \in Outside : q # p => (q \in sent' <=> q \in sent) /\ outside'[q] = outside[q],
         inbox' = inbox, sent \subseteq sent', sent' \subseteq Outside,
         outside' \in [Outside -> Nat], returned' = returned,
         x.pc # "off" /\ ~x.failed => \A q \in x.wanted \ x.rest : Served(q)',
         p \notin unmarked' => GoesOutOnce(p)'
  PROVE  NotifyInv'
<1>1. BehindIsServed'
  BY HandlerServes
<1>2. \A g \in Notifiers : running'[g] = IF g = h THEN x ELSE running[g]
  BY DEF NotifyInv, NotifyTyped
<1>3. NotifyTyped'
  BY <1>2 DEF NotifyInv, NotifyTyped
<1>4. \A q \in Outside \ unmarked' : GoesOutOnce(q)'
  BY OtherPairsStay
<1> QED BY <1>1, <1>3, <1>4 DEF NotifyInv

LEMMA BeginSendKeeps ==
  ASSUME NotifyInv, NEW h \in Notifiers, NEW p \in Pairs, BeginSend(h, p)
  PROVE  NotifyInv'
<1> DEFINE x == [running[h] EXCEPT !.pc = "send", !.pair = {p}]
<1>1. /\ running[h].pc = "each" /\ p \in Outside /\ p \notin sent
      /\ running' = [running EXCEPT ![h] = x]
      /\ UNCHANGED <<inbox, sent, outside, returned>>
  BY DEF BeginSend, StartSend, Turn, Goes
<1>2. running[h] \in Handling
  BY <1>1, HandlerAt
<1>3. /\ x \in Handling /\ x.pc = "send" /\ x.pair = {p} /\ x.wanted = running[h].wanted
      /\ x.rest = running[h].rest /\ x.failed = running[h].failed
  BY <1>1, <1>2 DEF Handling, Pairs
<1>4. /\ unmarked \subseteq unmarked'
      /\ p \notin unmarked' => p \notin unmarked /\ \A g \in Notifiers : ~WorksOn(g, p)
  BY DEF BeginSend, StartSend, WorksOn
<1> HIDE DEF x
<1>5. \A g \in Notifiers : running'[g] = IF g = h THEN x ELSE running[g]
  BY <1>1 DEF NotifyInv, NotifyTyped
<1>6. \A q : Served(q)' <=> Served(q)
  BY <1>1 DEF Served
<1>7. ~x.failed => \A q \in x.wanted \ x.rest : Served(q)'
  BY <1>1, <1>3, <1>6 DEF NotifyInv, BehindIsServed
<1>8. ASSUME p \notin unmarked' PROVE GoesOutOnce(p)'
  <2>1. GoesOutOnce(p) /\ \A g \in Notifiers : ~WorksOn(g, p)
    BY <1>1, <1>4, <1>8 DEF NotifyInv
  <2>2. outside[p] = 0
    BY <1>1, <2>1 DEF GoesOutOnce, WorksOn
  <2>3. \A g \in Notifiers : ~Is(g, "mark", p)' /\ (Is(g, "send", p)' => g = h)
    BY <1>3, <1>5, <2>1 DEF WorksOn, Is
  <2> QED BY <1>1, <2>2, <2>3 DEF GoesOutOnce, WorksOn
<1>9. outside \in [Outside -> Nat] /\ sent \subseteq Outside
  BY DEF NotifyInv, NotifyTyped
<1> QED BY <1>1, <1>3, <1>4, <1>7, <1>8, <1>9, OnePairMoves

\* A handler that leaves its pair to the retry.
LEMMA GivesUpHas ==
  ASSUME NEW h, NEW p, running[h] \in Handling
  PROVE  LET x == [Done(h, p) EXCEPT !.failed = TRUE]
         IN  x \in Handling /\ x.pc = "each" /\ x.failed
<1>1. Done(h, p) \in Handling /\ Done(h, p).pc = "each"
  BY DoneHas
<1>2. \A y \in Handling : y.pc = "each" =>
        LET x == [y EXCEPT !.failed = TRUE]
        IN  x \in Handling /\ x.pc = "each" /\ x.failed
  BY DEF Handling
<1> QED BY <1>1, <1>2

\* Nobody else is at a pair that one handler sends, and it did not go out yet.
LEMMA SenderAlone ==
  ASSUME NotifyInv, NEW h \in Notifiers, NEW p \in Outside, p \notin unmarked, Is(h, "send", p)
  PROVE  /\ GoesOutOnce(p) /\ p \notin sent /\ outside[p] = 0
         /\ \A g \in Notifiers : WorksOn(g, p) => g = h
<1>1. GoesOutOnce(p) /\ WorksOn(h, p) /\ ~Is(h, "mark", p)
  BY DEF NotifyInv, WorksOn, Is
<1>2. p \notin sent /\ \A g \in Notifiers : WorksOn(g, p) => g = h
  BY <1>1 DEF GoesOutOnce
<1>3. \A g \in Notifiers : ~Is(g, "mark", p)
  BY <1>1, <1>2 DEF WorksOn
<1>4. outside[p] = 0
  BY <1>1, <1>2, <1>3 DEF GoesOutOnce
<1> QED BY <1>1, <1>2, <1>4

LEMMA SendKeeps ==
  ASSUME NotifyInv, NEW h \in Notifiers, NEW p \in Outside, Send(h, p)
  PROVE  NotifyInv'
<1>1. /\ running[h].pc = "send" /\ running[h].pair = {p} /\ running[h] \in Handling
      /\ Is(h, "send", p)
  BY HandlerAt DEF Send, Is
<1>2. UNCHANGED <<inbox, sent, returned>>
  BY DEF Send
<1>3. outside \in [Outside -> Nat] /\ sent \subseteq Outside
  BY DEF NotifyInv, NotifyTyped
<1>4. \A q : Served(q)' <=> Served(q)
  BY <1>2 DEF Served
<1>5. ~running[h].failed =>
        \A q \in running[h].wanted \ running[h].rest : Served(q)'
  BY <1>1, <1>4 DEF NotifyInv, BehindIsServed
<1> DEFINE m == [running[h] EXCEPT !.pc = "mark"]
           f == [Done(h, p) EXCEPT !.failed = TRUE]
           w == [Done(h, p) EXCEPT !.wanted = @ \ {p}]
<1>6. /\ m \in Handling /\ m.pc = "mark" /\ m.pair = {p} /\ m.wanted = running[h].wanted
      /\ m.rest = running[h].rest /\ m.failed = running[h].failed
  BY <1>1 DEF Handling
<1>7. f \in Handling /\ f.pc = "each" /\ f.failed
  BY <1>1, GivesUpHas
<1>8. /\ w \in Handling /\ w.pc = "each" /\ w.failed = running[h].failed
      /\ w.wanted = running[h].wanted \ {p} /\ w.rest = running[h].rest \ {p}
  BY <1>1, DoneHas DEF Handling
<1> DEFINE Goes1(x) == running' = [running EXCEPT ![h] = x]
<1>9. \/ /\ outside' = [outside EXCEPT ![p] = IF @ = 2 THEN 2 ELSE @ + 1]
         /\ \/ Goes1(m) /\ unmarked' = unmarked
            \/ Goes1(f) /\ unmarked' = unmarked \cup {p}
      \/ /\ Goes1(f) \/ Goes1(w) \/ (p[2] = "push" /\ Goes1(m))
         /\ outside' = outside /\ unmarked' = unmarked
  BY DEF Send, Goes
<1> HIDE DEF m, f, w
<1>10. /\ outside' \in [Outside -> Nat] /\ unmarked \subseteq unmarked'
       /\ \A q \in Outside : q # p => outside'[q] = outside[q]
  BY <1>3, <1>9
<1>11. ASSUME NEW x \in Handling, Goes1(x), x \in {m, f, w},
              p \notin unmarked' => GoesOutOnce(p)'
       PROVE  NotifyInv'
  <2>1. /\ x.pc \in {"send", "mark"} => x.pair = {p}
        /\ ~x.failed => \A q \in x.wanted \ x.rest : Served(q)'
    BY <1>5, <1>6, <1>7, <1>8, <1>11
  <2> QED BY <1>1, <1>2, <1>3, <1>10, <1>11, <2>1, OnePairMoves
\* With the message gone, and only then unless it is a push, this handler marks it.
<1>12. ASSUME NEW x \in Handling, Goes1(x), x.pc = "mark" => x.pair = {p},
              x.pc \in {"each", "mark"}, p \notin unmarked',
              \/ outside'[p] = 1 /\ x.pc = "mark"
              \/ outside'[p] = outside[p] /\ (x.pc = "each" \/ p[2] = "push")
       PROVE  GoesOutOnce(p)'
  <2>1. /\ p \notin sent /\ outside[p] = 0
        /\ \A g \in Notifiers : WorksOn(g, p) => g = h
    BY <1>1, <1>10, <1>12, SenderAlone
  <2>2. \A g \in Notifiers : running'[g] = IF g = h THEN x ELSE running[g]
    BY <1>12 DEF NotifyInv, NotifyTyped
  <2>3. \A g \in Notifiers : ~Is(g, "send", p)' /\ (Is(g, "mark", p)' => g = h /\ x.pc = "mark")
    BY <1>12, <2>1, <2>2 DEF WorksOn, Is
  <2>4. x.pc = "mark" => Is(h, "mark", p)'
    BY <1>12, <2>2 DEF Is
  <2> QED BY <1>2, <1>12, <2>1, <2>3, <2>4 DEF GoesOutOnce, WorksOn
<1>13. CASE /\ outside' = [outside EXCEPT ![p] = IF @ = 2 THEN 2 ELSE @ + 1]
            /\ Goes1(m) /\ unmarked' = unmarked
  <2>1. p \notin unmarked => outside'[p] = 1
    BY <1>1, <1>3, <1>13, SenderAlone
  <2> QED BY <1>6, <1>11, <1>12, <1>13, <2>1
<1>14. CASE Goes1(f) /\ unmarked' = unmarked \cup {p}
  BY <1>7, <1>11, <1>14
<1>15. CASE Goes1(f) /\ outside' = outside /\ unmarked' = unmarked
  BY <1>7, <1>11, <1>12, <1>15
<1>16. CASE Goes1(w) /\ outside' = outside /\ unmarked' = unmarked
  BY <1>8, <1>11, <1>12, <1>16
<1>17. CASE p[2] = "push" /\ Goes1(m) /\ outside' = outside /\ unmarked' = unmarked
  BY <1>6, <1>11, <1>12, <1>17
<1> QED BY <1>9, <1>13, <1>14, <1>15, <1>16, <1>17

LEMMA MarkKeeps ==
  ASSUME NotifyInv, NEW h \in Notifiers, NEW p \in Outside, Mark(h, p)
  PROVE  NotifyInv'
<1>1. /\ running[h].pc = "mark" /\ running[h].pair = {p} /\ running[h] \in Handling
      /\ Is(h, "mark", p)
  BY HandlerAt DEF Mark, Is
<1>2. UNCHANGED <<inbox, outside, returned>>
  BY DEF Mark
<1>3. outside \in [Outside -> Nat] /\ sent \subseteq Outside
  BY DEF NotifyInv, NotifyTyped
<1> DEFINE d == Done(h, p)
           f == [Done(h, p) EXCEPT !.failed = TRUE]
<1>4. \/ running' = [running EXCEPT ![h] = d] /\ sent' = sent \cup {p} /\ unmarked' = unmarked
      \/ running' = [running EXCEPT ![h] = f] /\ sent' = sent /\ unmarked' = unmarked \cup {p}
  BY DEF Mark, Goes
<1>5. f \in Handling /\ f.pc = "each" /\ f.failed
  BY <1>1, GivesUpHas
<1>6. /\ d \in Handling /\ d.pc = "each" /\ d.wanted = running[h].wanted
      /\ d.rest = running[h].rest \ {p} /\ d.failed = running[h].failed
  BY <1>1, DoneHas
<1> HIDE DEF d, f
<1>7. CASE running' = [running EXCEPT ![h] = d] /\ sent' = sent \cup {p} /\ unmarked' = unmarked
  <2>1. Served(p)' /\ \A q : Served(q) => Served(q)'
    BY <1>2, <1>7 DEF Served
  <2>2. ~d.failed => \A q \in d.wanted \ d.rest : Served(q)'
    BY <1>1, <1>6, <2>1 DEF NotifyInv, BehindIsServed
  <2>3. ASSUME p \notin unmarked PROVE GoesOutOnce(p)'
    <3>1. GoesOutOnce(p)
      BY <2>3 DEF NotifyInv
    <3>2. \A g \in Notifiers : running'[g] = IF g = h THEN d ELSE running[g]
      BY <1>7 DEF NotifyInv, NotifyTyped
    <3>3. /\ \A g \in Notifiers : WorksOn(g, p) => g = h
          /\ p[2] # "push" => outside[p] = 1
      BY <1>1, <3>1 DEF GoesOutOnce, WorksOn
    <3>4. \A g \in Notifiers : ~Is(g, "send", p)' /\ ~Is(g, "mark", p)'
      BY <1>6, <3>2, <3>3 DEF WorksOn, Is
    <3>5. outside[p] <= 1 /\ p \in sent'
      BY <1>7, <3>1 DEF GoesOutOnce
    <3> QED BY <1>2, <3>3, <3>4, <3>5 DEF GoesOutOnce, WorksOn
  <2> QED BY <1>1, <1>2, <1>3, <1>6, <1>7, <2>2, <2>3, OnePairMoves
<1>8. CASE running' = [running EXCEPT ![h] = f] /\ sent' = sent /\ unmarked' = unmarked \cup {p}
  BY <1>1, <1>2, <1>3, <1>5, <1>8, OnePairMoves
<1> QED BY <1>4, <1>7, <1>8

LEMMA HandlerCrashKeeps ==
  ASSUME NotifyInv, NEW h \in Notifiers, HandlerCrash(h)
  PROVE  NotifyInv'
<1>0. running[h] \in Handling
  BY DEF HandlerCrash, NotifyInv, NotifyTyped
<1>1. /\ running[h].pc \in {"each", "send", "mark"} /\ running[h] \in Handling
      /\ running' = [running EXCEPT ![h] = Off]
      /\ unmarked' = IF running[h].pc = "mark" THEN unmarked \cup running[h].pair ELSE unmarked
      /\ UNCHANGED <<inbox, sent, outside, returned>>
  BY <1>0 DEF HandlerCrash, Goes, Handling
<1>2. CASE running[h].pc = "each"
  BY <1>1, <1>2, OffIsOff, BetweenPairs
<1>3. CASE running[h].pc \in {"send", "mark"}
  <2>1. PICK p \in Outside : running[h].pair = {p}
    BY <1>3 DEF NotifyInv, NotifyTyped
  <2>2. ASSUME p \notin unmarked' PROVE GoesOutOnce(p)'
    <3>1. Is(h, "send", p) /\ p \notin unmarked
      BY <1>1, <1>3, <2>1, <2>2 DEF Is
    <3>2. /\ p \notin sent /\ outside[p] = 0
          /\ \A g \in Notifiers : WorksOn(g, p) => g = h
      BY <2>1, <3>1, SenderAlone
    <3>3. \A g \in Notifiers : running'[g] = IF g = h THEN Off ELSE running[g]
      BY <1>1 DEF NotifyInv, NotifyTyped
    <3>4. \A g \in Notifiers : ~Is(g, "send", p)' /\ ~Is(g, "mark", p)'
      BY <3>2, <3>3, OffIsOff DEF WorksOn, Is
    <3> QED BY <1>1, <3>2, <3>4 DEF GoesOutOnce, WorksOn
  <2>3. unmarked \subseteq unmarked' /\ outside \in [Outside -> Nat] /\ sent \subseteq Outside
    BY <1>1 DEF NotifyInv, NotifyTyped
  <2> QED BY <1>1, <2>1, <2>2, <2>3, OffIsOff, OnePairMoves
<1> QED BY <1>1, <1>2, <1>3

\* Every pair that a handler that returned wanted was delivered, and no message goes out
\* twice unless two handlers send it at one time, an answer is lost or a marker is not
\* written (user-notify.ts): the marker, or the handler about to write it, is there.
THEOREM RequestsAreDeliveredOnce == NotifySpec => []DeliveredOnce
<1>1. NotifyInit => NotifyInv
  BY NotifyBegins
<1>2. NotifyInv /\ [NotifyNext]_notifyVars => NotifyInv'
  <2> SUFFICES ASSUME NotifyInv, [NotifyNext]_notifyVars PROVE NotifyInv'
    OBVIOUS
  <2>1. CASE UNCHANGED notifyVars
    BY <2>1 DEF notifyVars, NotifyInv, NotifyTyped, BehindIsServed, Served, GoesOutOnce,
                WorksOn, Is
  <2>2. ASSUME NEW h \in Notifiers, NEW wanted \in SUBSET Pairs, DeliverRequest(h, wanted)
        PROVE  NotifyInv'
    BY <2>2, DeliverRequestKeeps
  <2>3. ASSUME NEW h \in Notifiers, FinishRequest(h) \/ HandlerCrash(h) PROVE NotifyInv'
    BY <2>3, FinishRequestKeeps, HandlerCrashKeeps
  <2>4. ASSUME NEW h \in Notifiers, NEW p \in Pairs,
               PutInInbox(h, p) \/ SkipSent(h, p) \/ TurnFails(h, p) \/ BeginSend(h, p)
        PROVE  NotifyInv'
    BY <2>4, PutInInboxKeeps, SkipSentKeeps, TurnFailsKeeps, BeginSendKeeps
  <2>5. ASSUME NEW h \in Notifiers, NEW p \in Pairs, Send(h, p) \/ Mark(h, p)
        PROVE  NotifyInv'
    <3>1. p \in Outside
      BY <2>5 DEF Send, Mark, Is, NotifyInv, NotifyTyped
    <3> QED BY <2>5, <3>1, SendKeeps, MarkKeeps
  <2> QED BY <2>1, <2>2, <2>3, <2>4, <2>5 DEF NotifyNext
<1>3. NotifyInv => DeliveredOnce
  BY DEF NotifyInv, NotifyTyped, BehindIsServed, Served, GoesOutOnce, DeliveredOnce
<1> QED BY <1>1, <1>2, <1>3, PTL DEF NotifySpec

-----------------------------------------------------------------------------
(* The outputs together *)

\* What goes out goes out once: exports, scheduled reports and notifications together.
THEOREM OutputsAreSentOnce ==
  ASSUME MaxSlot \in Nat \ {0}
  PROVE  ExportsSpec /\ ReportsSpec /\ NotifySpec => []OutputsGoOutOnce
BY ExportsRunOnce, ReportsAreSentOnce, RequestsAreDeliveredOnce, PTL DEF OutputsGoOutOnce

-----------------------------------------------------------------------------
(* AutomationRuns *)

USE RunsAssumption

\* A handler that owns the run of its event.
Owning == Busy \union {"reRead"}

\* The owner of a run is the only one, the run says "running", and an owner that
\* has not started its steps has an attempt left for them.
OwnersInv ==
    /\ \A h \in Handlers : handler[h].pc # "idle" => EventOf(h) \in Events
    /\ \A h \in Handlers : handler[h].pc \in {"step", "reStep"} => handler[h].step \in Steps \union {NumSteps + 1}
    /\ \A h \in Handlers : handler[h].pc \in Owning => run[EventOf(h)].status = "running"
    /\ \A h, k \in Handlers :
         handler[h].pc \in Owning /\ handler[k].pc \in Owning /\ EventOf(h) = EventOf(k)
           => h = k
    /\ \A h \in Handlers : handler[h].pc \in {"prepare", "rePrepare", "reRead"}
         => executions[EventOf(h)] < run[EventOf(h)].attempts
    /\ \A e \in Events : run[e].status = "none" => run[e].attempts = 0

RunsInv == TypeOK /\ OwnersInv /\ RunOncePerAttempt

-----------------------------------------------------------------------------
LEMMA RunsInit == Init => RunsInv
BY DEF Init, RunsInv, TypeOK, OwnersInv, RunOncePerAttempt, Idle, NoRun, Owning, Busy, Steps, EventOf

\* Messages, with their deliveries, keep their type when they are answered.
LEMMA AnswerTypes ==
  ASSUME TypeOK, OwnersInv, NEW h \in Handlers, NEW pc, "idle" \notin pc,
         NEW st \in {"ready", "sent", "acked"}, Answer(h, pc, st)
  PROVE  /\ message' \in [Events -> [st : {"ready", "sent", "acked"}, tries : 0..MaxDeliver]]
         /\ handler' = [handler EXCEPT ![h] = Idle]
<1>1. CASE handler[h].pc \in pc /\ message[EventOf(h)].st = "sent"
  <2>1. EventOf(h) \in Events
    BY <1>1 DEF OwnersInv
  <2>2. message' = [message EXCEPT ![EventOf(h)].st = st]
    BY <1>1 DEF Answer
  <2>3. message[EventOf(h)] \in [st : {"ready", "sent", "acked"}, tries : 0..MaxDeliver]
    BY <2>1 DEF TypeOK
  <2> QED BY <2>1, <2>2, <2>3 DEF Answer, Return, TypeOK
<1>2. CASE ~(handler[h].pc \in pc /\ message[EventOf(h)].st = "sent")
  BY <1>2 DEF Answer, Return, TypeOK
<1> QED BY <1>1, <1>2

\* A handler that returns, gives up its run if it has it, and changes no run.
LEMMA ReturnKeeps ==
  ASSUME RunsInv, NEW h \in Handlers,
         message' \in [Events -> [st : {"ready", "sent", "acked"}, tries : 0..MaxDeliver]],
         handler' = [handler EXCEPT ![h] = Idle],
         UNCHANGED <<run, executions>>, effects' \in [Events -> [Steps -> Nat]],
         faults' \in 0..MaxFaults
  PROVE  RunsInv'
BY DEF RunsInv, TypeOK, OwnersInv, RunOncePerAttempt, Idle, Owning, Busy, EventOf

\* The owner of a run returns with a result.
LEMMA ResultKeeps ==
  ASSUME RunsInv, NEW h \in Handlers, handler[h].pc \in Owning,
         NEW outcome \in {"ok", "failed", "skipped"}, SetStatus(EventOf(h), outcome),
         message' \in [Events -> [st : {"ready", "sent", "acked"}, tries : 0..MaxDeliver]],
         NEW pc \in {"announce", "reAnnounce"},
         \/ handler' = [handler EXCEPT ![h] = Idle]
         \/ handler' = [handler EXCEPT ![h].pc = pc],
         UNCHANGED executions, effects' \in [Events -> [Steps -> Nat]],
         faults' \in 0..MaxFaults
  PROVE  RunsInv'
<1> DEFINE e == EventOf(h)
<1>1. e \in Events
  BY DEF RunsInv, OwnersInv, Owning, Busy
<1>2. run' = [run EXCEPT ![e].status = outcome]
  BY DEF SetStatus
<1>3. TypeOK'
  <2>1. run' \in [Events -> [status : {"none", "running", "ok", "failed", "skipped"},
                             attempts : 0..MaxAttempts]]
    <3>1. run \in [Events -> [status : {"none", "running", "ok", "failed", "skipped"},
                              attempts : 0..MaxAttempts]]
      BY DEF RunsInv, TypeOK
    <3>2. [run[e] EXCEPT !.status = outcome]
            \in [status : {"none", "running", "ok", "failed", "skipped"},
                 attempts : 0..MaxAttempts]
      BY <1>1, <3>1
    <3> QED BY <1>1, <1>2, <3>1, <3>2
  <2>2. handler' \in [Handlers -> [pc : {"idle", "start", "announce", "reAnnounce", "reRead"}
                                        \union Busy,
                                   event : Events \union {NoEvent}, step : 0..(NumSteps + 1)]]
    <3>1. CASE handler' = [handler EXCEPT ![h] = Idle]
      BY <3>1 DEF RunsInv, TypeOK, Idle
    <3>2. CASE handler' = [handler EXCEPT ![h].pc = pc]
      <4>1. handler[h] \in [pc : {"idle", "start", "announce", "reAnnounce", "reRead"}
                                   \union Busy,
                            event : Events \union {NoEvent}, step : 0..(NumSteps + 1)]
        BY DEF RunsInv, TypeOK
      <4> QED BY <3>2, <4>1 DEF RunsInv, TypeOK
    <3> QED BY <3>1, <3>2
  <2> QED BY <2>1, <2>2 DEF RunsInv, TypeOK
<1>4. \A k \in Handlers : k # h => handler'[k] = handler[k]
  BY DEF RunsInv, TypeOK
<1>5. handler'[h].pc \notin Owning /\ (handler'[h].pc # "idle" => handler'[h].event = e)
      /\ handler'[h].pc \notin {"step", "reStep"}
  BY DEF RunsInv, TypeOK, Owning, Busy, Idle, EventOf
<1>6. \A k \in Handlers : k # h /\ handler[k].pc \in Owning => EventOf(k) # e /\ EventOf(k) \in Events
  BY DEF RunsInv, OwnersInv, Owning, Busy
<1>7. \A d \in Events : run'[d].attempts = run[d].attempts /\ (d # e => run'[d] = run[d])
      /\ run'[e].status = outcome
  BY <1>1, <1>2 DEF RunsInv, TypeOK
<1>8. OwnersInv'
  <2>1. ASSUME NEW k \in Handlers
        PROVE  /\ handler'[k].pc # "idle" => handler'[k].event \in Events
               /\ handler'[k].pc \in {"step", "reStep"}
                    => handler'[k].step \in Steps \union {NumSteps + 1}
    BY <1>1, <1>4, <1>5 DEF RunsInv, OwnersInv, EventOf
  <2>2. ASSUME NEW k \in Handlers, handler'[k].pc \in Owning
        PROVE  k # h /\ handler[k].pc \in Owning /\ handler'[k] = handler[k]
               /\ run'[handler[k].event] = run[handler[k].event]
    BY <2>2, <1>4, <1>5, <1>6, <1>7 DEF EventOf
  <2>3. ASSUME NEW k \in Handlers, handler'[k].pc \in Owning
        PROVE  run'[handler'[k].event].status = "running"
    BY <2>3, <2>2 DEF RunsInv, OwnersInv, EventOf
  <2>4. ASSUME NEW k \in Handlers, NEW l \in Handlers, handler'[k].pc \in Owning,
               handler'[l].pc \in Owning, handler'[k].event = handler'[l].event
        PROVE  k = l
    BY <2>4, <2>2 DEF RunsInv, OwnersInv, EventOf
  <2>5. ASSUME NEW k \in Handlers, handler'[k].pc \in {"prepare", "rePrepare", "reRead"}
        PROVE  executions'[handler'[k].event] < run'[handler'[k].event].attempts
    <3>1. handler'[k].pc \in Owning
      BY <2>5 DEF Owning, Busy
    <3> QED BY <3>1, <2>5, <2>2 DEF RunsInv, OwnersInv, EventOf
  <2>6. \A d \in Events : run'[d].status = "none" => run'[d].attempts = 0
    BY <1>7 DEF RunsInv, OwnersInv
  <2> QED BY <2>1, <2>3, <2>4, <2>5, <2>6 DEF OwnersInv, EventOf
<1>9. RunOncePerAttempt'
  BY <1>1, <1>7 DEF RunsInv, RunOncePerAttempt
<1> QED BY <1>3, <1>8, <1>9 DEF RunsInv

\* A step changes how often it took effect, and nothing else of `effects`.
LEMMA EffectTypes ==
  ASSUME RunsInv, NEW h \in Handlers, NEW i \in Steps, Effect(h, i), EventOf(h) \in Events
  PROVE  effects' \in [Events -> [Steps -> Nat]]
<1>1. effects[EventOf(h)] \in [Steps -> Nat] /\ effects[EventOf(h)][i] \in Nat
  BY DEF RunsInv, TypeOK
<1> QED BY <1>1 DEF RunsInv, TypeOK, Effect

\* A handler moves on with the run it has, or with none, and neither its run nor
\* its event changes.
LEMMA MoveKeeps ==
  ASSUME RunsInv, NEW h \in Handlers,
         NEW pc \in {"start", "announce", "reAnnounce", "reRead"} \union Busy,
         NEW i \in 0..(NumSteps + 1),
         handler[h].pc \in Owning \/ pc \notin Owning, handler[h].pc # "idle",
         pc \in {"step", "reStep"} => i \in Steps \union {NumSteps + 1},
         pc \in {"prepare", "rePrepare", "reRead"} =>
            handler[h].pc \in {"prepare", "rePrepare", "reRead"},
         handler' = [handler EXCEPT ![h].pc = pc, ![h].step = i],
         UNCHANGED <<message, run>>,
         \/ UNCHANGED executions
         \/ /\ pc \in {"step", "reStep"}
            /\ handler[h].pc \in {"prepare", "rePrepare", "reRead"}
            /\ executions' = [executions EXCEPT ![EventOf(h)] = @ + 1],
         effects' \in [Events -> [Steps -> Nat]], faults' \in 0..MaxFaults
  PROVE  RunsInv'
<1> DEFINE e == EventOf(h)
<1>1. e \in Events
  BY DEF RunsInv, OwnersInv
<1>2. /\ \A k \in Handlers : k # h => handler'[k] = handler[k]
      /\ handler'[h].pc = pc /\ handler'[h].event = e /\ handler'[h].step = i
  BY DEF RunsInv, TypeOK, EventOf
<1>3. handler' \in [Handlers -> [pc : {"idle", "start", "announce", "reAnnounce", "reRead"}
                                      \union Busy,
                                 event : Events \union {NoEvent}, step : 0..(NumSteps + 1)]]
  <2>1. handler[h] \in [pc : {"idle", "start", "announce", "reAnnounce", "reRead"}
                               \union Busy,
                        event : Events \union {NoEvent}, step : 0..(NumSteps + 1)]
    BY DEF RunsInv, TypeOK
  <2> QED BY <2>1 DEF RunsInv, TypeOK
<1>4. executions' \in [Events -> Nat] /\ \A d \in Events : d # e => executions'[d] = executions[d]
  <2>1. CASE UNCHANGED executions
    BY <2>1 DEF RunsInv, TypeOK
  <2>2. CASE executions' = [executions EXCEPT ![EventOf(h)] = @ + 1]
    <3>1. executions[e] \in Nat
      BY <1>1 DEF RunsInv, TypeOK
    <3> QED BY <2>2, <3>1, <1>1 DEF RunsInv, TypeOK
  <2> QED BY <2>1, <2>2
<1>5. TypeOK'
  BY <1>3, <1>4 DEF RunsInv, TypeOK
<1>6. executions'[e] <= run[e].attempts
  <2>1. CASE UNCHANGED executions
    BY <2>1, <1>1 DEF RunsInv, RunOncePerAttempt
  <2>2. CASE /\ handler[h].pc \in {"prepare", "rePrepare", "reRead"}
             /\ executions' = [executions EXCEPT ![EventOf(h)] = @ + 1]
    <3>1. executions[e] < run[e].attempts
      BY <2>2 DEF RunsInv, OwnersInv
    <3>2. executions[e] \in Nat /\ run[e].attempts \in Nat /\ executions'[e] = executions[e] + 1
      BY <1>1, <2>2 DEF RunsInv, TypeOK
    <3> QED BY <3>1, <3>2
  <2> QED BY <2>1, <2>2
<1>7. RunOncePerAttempt'
  BY <1>4, <1>6 DEF RunsInv, RunOncePerAttempt
<1>8. ASSUME NEW k \in Handlers, handler'[k].pc \in Owning
      PROVE  handler[k].pc \in Owning /\ handler'[k].event = handler[k].event
  BY <1>2, <1>8 DEF EventOf
<1>9. \A k \in Handlers : handler'[k].pc \in Owning =>
        run'[handler'[k].event].status = "running"
  BY <1>8 DEF RunsInv, OwnersInv, EventOf
<1>10. \A k, l \in Handlers :
        handler'[k].pc \in Owning /\ handler'[l].pc \in Owning
        /\ handler'[k].event = handler'[l].event => k = l
  BY <1>8 DEF RunsInv, OwnersInv, EventOf
<1>11. ASSUME NEW k \in Handlers, handler'[k].pc \in {"prepare", "rePrepare", "reRead"}
       PROVE  executions'[handler'[k].event] < run'[handler'[k].event].attempts
  <2>1. handler[k].pc \in {"prepare", "rePrepare", "reRead"}
    BY <1>2, <1>11
  <2>2. executions[handler[k].event] < run[handler[k].event].attempts /\ handler[k].event \in Events
    BY <2>1 DEF RunsInv, OwnersInv, EventOf
  <2>3. handler'[k].pc \in Owning /\ handler[k].pc \in Owning /\ handler'[k].event = handler[k].event
    BY <1>8, <1>11, <2>1 DEF Owning, Busy
  <2>4. executions'[handler[k].event] = executions[handler[k].event]
    <3>1. CASE UNCHANGED executions
      BY <3>1
    <3>2. CASE pc \in {"step", "reStep"} /\ handler[h].pc \in {"prepare", "rePrepare", "reRead"}
      <4>1. k # h /\ handler[h].pc \in Owning
        BY <3>2, <1>2, <1>11 DEF Owning, Busy
      <4>2. handler[k].event # e
        BY <4>1, <2>3 DEF RunsInv, OwnersInv, EventOf
      <4> QED BY <4>2, <1>4, <2>2
    <3> QED BY <3>1, <3>2
  <2> QED BY <2>2, <2>3, <2>4
<1>12. \A k \in Handlers :
         /\ handler'[k].pc # "idle" => handler'[k].event \in Events
         /\ handler'[k].pc \in {"step", "reStep"}
              => handler'[k].step \in Steps \union {NumSteps + 1}
  BY <1>1, <1>2 DEF RunsInv, OwnersInv, EventOf
<1>13. OwnersInv'
  BY <1>9, <1>10, <1>11, <1>12 DEF RunsInv, OwnersInv, EventOf
<1> QED BY <1>5, <1>7, <1>13 DEF RunsInv

\* A handler starts on the run of e, which no handler has: a new attempt.
LEMMA AttemptKeeps ==
  ASSUME RunsInv, NEW h \in Handlers, NEW e \in Events,
         NEW pc \in {"prepare", "reRead"}, NEW i \in 0..(NumSteps + 1),
         run[e].status # "running", run[e].attempts < MaxAttempts,
         run' = [run EXCEPT ![e] = [status |-> "running", attempts |-> run[e].attempts + 1]],
         handler' = [handler EXCEPT ![h] = [pc |-> pc, event |-> e, step |-> i]],
         UNCHANGED <<message, effects, executions, faults>>
  PROVE  RunsInv'
<1>1. run[e].attempts \in 0..MaxAttempts /\ executions[e] \in Nat
  BY DEF RunsInv, TypeOK
<1>2. TypeOK'
  BY <1>1 DEF RunsInv, TypeOK, Busy
<1>3. /\ \A d \in Events : d # e => run'[d] = run[d]
      /\ run'[e] = [status |-> "running", attempts |-> run[e].attempts + 1]
  BY DEF RunsInv, TypeOK
<1>4. /\ \A k \in Handlers : k # h => handler'[k] = handler[k]
      /\ handler'[h] = [pc |-> pc, event |-> e, step |-> i]
  BY DEF RunsInv, TypeOK
<1>5. RunOncePerAttempt'
  BY <1>1, <1>3 DEF RunsInv, RunOncePerAttempt
<1>6. \A k \in Handlers : handler[k].pc \in Owning => handler[k].event # e
  BY DEF RunsInv, OwnersInv, EventOf
<1>7. \A k \in Handlers : k # h /\ handler'[k].pc \in Owning =>
        handler'[k] = handler[k] /\ handler[k].event # e /\ handler[k].event \in Events
  BY <1>4, <1>6 DEF RunsInv, OwnersInv, Owning, Busy, EventOf
<1>8. OwnersInv'
  <2>1. ASSUME NEW k \in Handlers
        PROVE  /\ handler'[k].pc # "idle" => handler'[k].event \in Events
               /\ handler'[k].pc \in {"step", "reStep"}
                    => handler'[k].step \in Steps \union {NumSteps + 1}
    BY <1>4 DEF RunsInv, OwnersInv, EventOf
  <2>2. ASSUME NEW k \in Handlers, handler'[k].pc \in Owning
        PROVE  run'[handler'[k].event].status = "running"
    BY <2>2, <1>3, <1>4, <1>7 DEF RunsInv, OwnersInv, EventOf
  <2>3. ASSUME NEW k \in Handlers, NEW l \in Handlers, handler'[k].pc \in Owning,
               handler'[l].pc \in Owning, handler'[k].event = handler'[l].event
        PROVE  k = l
    BY <2>3, <1>4, <1>7 DEF RunsInv, OwnersInv, EventOf
  <2>4. ASSUME NEW k \in Handlers, handler'[k].pc \in {"prepare", "rePrepare", "reRead"}
        PROVE  executions'[handler'[k].event] < run'[handler'[k].event].attempts
    <3>1. CASE k = h
      BY <3>1, <1>1, <1>3, <1>4 DEF RunsInv, RunOncePerAttempt
    <3>2. CASE k # h
      <4>1. handler'[k].pc \in Owning
        BY <2>4 DEF Owning, Busy
      <4> QED BY <4>1, <3>2, <2>4, <1>3, <1>7 DEF RunsInv, OwnersInv, EventOf
    <3> QED BY <3>1, <3>2
  <2>5. \A d \in Events : run'[d].status = "none" => run'[d].attempts = 0
    BY <1>3 DEF RunsInv, OwnersInv
  <2> QED BY <2>1, <2>2, <2>3, <2>4, <2>5 DEF OwnersInv, EventOf
<1> QED BY <1>2, <1>5, <1>8 DEF RunsInv

-----------------------------------------------------------------------------
\* A step with a result ends: announce it, or answer the delivery.
LEMMA FinishKeeps ==
  ASSUME RunsInv, NEW h \in Handlers, handler[h].pc \in {"step", "reStep"},
         NEW outcome \in {"ok", "failed"}, Finish(h, outcome),
         UNCHANGED executions, effects' \in [Events -> [Steps -> Nat]],
         faults' \in 0..MaxFaults
  PROVE  RunsInv'
<1>1. handler[h].pc \in Owning /\ SetStatus(EventOf(h), outcome)
  BY DEF Finish, Owning, Busy
<1>2. CASE outcome = "failed"
  <2>1. PICK pc \in {"announce", "reAnnounce"} : handler' = [handler EXCEPT ![h].pc = pc]
    BY <1>2 DEF Finish, Goto
  <2>2. message' \in [Events -> [st : {"ready", "sent", "acked"}, tries : 0..MaxDeliver]]
    BY <1>2 DEF Finish, RunsInv, TypeOK
  <2> QED BY <1>1, <2>1, <2>2, ResultKeeps
<1>3. CASE outcome # "failed"
  <2>1. Answer(h, {"step"}, "acked")
    BY <1>3 DEF Finish
  <2>2. /\ message' \in [Events -> [st : {"ready", "sent", "acked"}, tries : 0..MaxDeliver]]
        /\ handler' = [handler EXCEPT ![h] = Idle]
    BY <2>1, AnswerTypes DEF RunsInv
  <2> QED BY <1>1, <2>2, ResultKeeps
<1> QED BY <1>2, <1>3

LEMMA FaultTypes == ASSUME RunsInv, Fault PROVE faults' \in 0..MaxFaults
BY DEF RunsInv, TypeOK, Fault

-----------------------------------------------------------------------------
LEMMA DeliverKeeps ==
  ASSUME RunsInv, NEW h \in Handlers, NEW e \in Events, Deliver(h, e)
  PROVE  RunsInv'
<1>1. /\ message[e] \in [st : {"ready", "sent", "acked"}, tries : 0..MaxDeliver]
      /\ message[e].tries + 1 \in 0..MaxDeliver
  BY DEF RunsInv, TypeOK, Deliver
<1>2. message' \in [Events -> [st : {"ready", "sent", "acked"}, tries : 0..MaxDeliver]]
  BY <1>1 DEF RunsInv, TypeOK, Deliver
<1>3. /\ \A k \in Handlers : k # h => handler'[k] = handler[k]
      /\ handler'[h] = [pc |-> "start", event |-> e, step |-> 0]
  BY DEF RunsInv, TypeOK, Deliver
<1>4. TypeOK'
  BY <1>2 DEF RunsInv, TypeOK, Deliver
<1>5. OwnersInv'
  BY <1>3 DEF RunsInv, OwnersInv, Owning, Busy, EventOf, Deliver
<1>6. RunOncePerAttempt'
  BY DEF RunsInv, RunOncePerAttempt, Deliver
<1> QED BY <1>4, <1>5, <1>6 DEF RunsInv

LEMMA PrepareKeeps ==
  ASSUME RunsInv, NEW h \in Handlers, Prepare(h)
  PROVE  RunsInv'
<1>1. handler[h].pc \in Owning /\ handler[h].pc # "idle"
  BY DEF Prepare, Owning, Busy
<1>2. effects' \in [Events -> [Steps -> Nat]] /\ faults' \in 0..MaxFaults
  BY DEF Prepare, RunsInv, TypeOK
<1>3. CASE /\ GotoStep(h, IF handler[h].pc = "prepare" THEN "step" ELSE "reStep", 1)
           /\ executions' = [executions EXCEPT ![EventOf(h)] = @ + 1]
           /\ UNCHANGED <<run, message>>
  <2>1. PICK pc \in {"step", "reStep"} : handler' = [handler EXCEPT ![h].pc = pc, ![h].step = 1]
    BY <1>3 DEF GotoStep
  <2>2. pc \in {"start", "announce", "reAnnounce", "reRead"} \union Busy
        /\ pc \notin {"prepare", "rePrepare", "reRead"}
    BY DEF Busy
  <2>3. 1 \in 0..(NumSteps + 1) /\ 1 \in Steps \union {NumSteps + 1}
    BY DEF Steps
  <2>4. handler[h].pc \in {"prepare", "rePrepare", "reRead"}
    BY DEF Prepare
  <2> QED BY <1>1, <1>2, <1>3, <2>1, <2>2, <2>3, <2>4, MoveKeeps
<1>4. CASE SetStatus(EventOf(h), "skipped") /\ Answer(h, {"prepare"}, "acked") /\ UNCHANGED executions
  <2>1. /\ message' \in [Events -> [st : {"ready", "sent", "acked"}, tries : 0..MaxDeliver]]
        /\ handler' = [handler EXCEPT ![h] = Idle]
    BY <1>4, AnswerTypes DEF RunsInv
  <2> QED BY <1>1, <1>2, <1>4, <2>1, ResultKeeps
<1> QED BY <1>3, <1>4 DEF Prepare

LEMMA CreateRunKeeps ==
  ASSUME RunsInv, NEW h \in Handlers, CreateRun(h)
  PROVE  RunsInv'
<1> DEFINE e == EventOf(h)
<1>1. e \in Events
  BY DEF CreateRun, RunsInv, OwnersInv
<1>2. effects' \in [Events -> [Steps -> Nat]] /\ faults' \in 0..MaxFaults
  BY DEF CreateRun, RunsInv, TypeOK
<1>3. CASE run[e].status = "none"
  <2>1. run[e].attempts = 0
    BY <1>1, <1>3 DEF RunsInv, OwnersInv
  <2>2. handler[h] \in [pc : {"idle", "start", "announce", "reAnnounce", "reRead"} \union Busy,
                        event : Events \union {NoEvent}, step : 0..(NumSteps + 1)]
    BY DEF RunsInv, TypeOK
  <2>3. /\ handler[h].step \in 0..(NumSteps + 1)
        /\ handler' = [handler EXCEPT ![h] =
                         [pc |-> "prepare", event |-> e, step |-> handler[h].step]]
    BY <1>3, <2>2 DEF CreateRun, Goto, EventOf
  <2>4. run' = [run EXCEPT ![e] = [status |-> "running", attempts |-> run[e].attempts + 1]]
    BY <1>3, <2>1 DEF CreateRun
  <2>5. run[e].status # "running" /\ run[e].attempts < MaxAttempts
    BY <1>3, <2>1
  <2>6. UNCHANGED <<message, effects, executions, faults>>
    BY <1>3 DEF CreateRun
  <2> QED BY <1>1, <2>3, <2>4, <2>5, <2>6, AttemptKeeps
<1>4. CASE run[e].status # "none"
  <2>1. /\ message' \in [Events -> [st : {"ready", "sent", "acked"}, tries : 0..MaxDeliver]]
        /\ handler' = [handler EXCEPT ![h] = Idle]
    BY <1>4, AnswerTypes DEF RunsInv, CreateRun
  <2>2. UNCHANGED <<run, executions>>
    BY <1>4 DEF CreateRun
  <2> QED BY <1>2, <2>1, <2>2, ReturnKeeps
<1> QED BY <1>3, <1>4

LEMMA StepWorksKeeps ==
  ASSUME RunsInv, NEW h \in Handlers, StepWorks(h)
  PROVE  RunsInv'
<1>1. /\ handler[h].pc \in Owning /\ handler[h].pc # "idle"
      /\ handler[h].pc \in {"start", "announce", "reAnnounce", "reRead"} \union Busy
      /\ handler[h].pc \notin {"prepare", "rePrepare", "reRead"}
  BY DEF StepWorks, Owning, Busy
<1>2. handler[h].step \in Steps /\ EventOf(h) \in Events
  BY DEF StepWorks, RunsInv, OwnersInv, Steps
<1>3. effects' \in [Events -> [Steps -> Nat]]
  BY <1>2, EffectTypes DEF StepWorks
<1>4. handler[h].step + 1 \in 0..(NumSteps + 1) /\ handler[h].step + 1 \in Steps \union {NumSteps + 1}
  BY <1>2 DEF Steps
<1>5. /\ handler' = [handler EXCEPT ![h].pc = handler[h].pc, ![h].step = handler[h].step + 1]
      /\ UNCHANGED <<message, run>> /\ UNCHANGED executions /\ faults' \in 0..MaxFaults
  BY DEF StepWorks, GotoStep, RunsInv, TypeOK
<1> QED BY <1>1, <1>3, <1>4, <1>5, MoveKeeps

LEMMA RetryReadsKeeps ==
  ASSUME RunsInv, NEW h \in Handlers, RetryReads(h)
  PROVE  RunsInv'
<1>1. handler[h].pc = "reRead" /\ handler[h].pc \in Owning
  BY DEF RetryReads, Owning
<1>2. effects' \in [Events -> [Steps -> Nat]] /\ faults' \in 0..MaxFaults
      /\ UNCHANGED <<message, executions>>
      /\ message' \in [Events -> [st : {"ready", "sent", "acked"}, tries : 0..MaxDeliver]]
  BY DEF RetryReads, RunsInv, TypeOK
<1>3. CASE Goto(h, "rePrepare") /\ UNCHANGED run
  <2>1. handler[h] \in [pc : {"idle", "start", "announce", "reAnnounce", "reRead"} \union Busy,
                        event : Events \union {NoEvent}, step : 0..(NumSteps + 1)]
    BY DEF RunsInv, TypeOK
  <2>2. [handler[h] EXCEPT !.pc = "rePrepare"]
          = [handler[h] EXCEPT !.pc = "rePrepare", !.step = handler[h].step]
        /\ handler[h].step \in 0..(NumSteps + 1)
    BY <2>1
  <2>3. handler' = [handler EXCEPT ![h].pc = "rePrepare", ![h].step = handler[h].step]
    BY <1>3, <2>2 DEF Goto, RunsInv, TypeOK
  <2>4. "rePrepare" \in {"start", "announce", "reAnnounce", "reRead"} \union Busy
    BY DEF Busy
  <2> QED BY <1>1, <1>2, <1>3, <2>2, <2>3, <2>4, MoveKeeps
<1>4. CASE SetStatus(EventOf(h), "failed") /\ Return(h)
  <2>1. handler' = [handler EXCEPT ![h] = Idle]
    BY <1>4 DEF Return
  <2> QED BY <1>1, <1>2, <1>4, <2>1, ResultKeeps
<1> QED BY <1>3, <1>4 DEF RetryReads

-----------------------------------------------------------------------------
\* Every step of the subscription, of a handler and of an admin keeps RunsInv.
LEMMA RunsNext == RunsInv /\ [Next]_vars => RunsInv'
<1> SUFFICES ASSUME RunsInv, [Next]_vars PROVE RunsInv'
  OBVIOUS
<1>1. ASSUME NEW e \in Events, AckWaitEnds(e) PROVE RunsInv'
  <2>1. message[e] \in [st : {"ready", "sent", "acked"}, tries : 0..MaxDeliver]
    BY DEF RunsInv, TypeOK
  <2>2. message' \in [Events -> [st : {"ready", "sent", "acked"}, tries : 0..MaxDeliver]]
    BY <1>1, <2>1 DEF RunsInv, TypeOK, AckWaitEnds
  <2>3. faults' \in 0..MaxFaults
    BY <1>1, FaultTypes DEF AckWaitEnds
  <2>4. TypeOK'
    BY <1>1, <2>2, <2>3 DEF AckWaitEnds, RunsInv, TypeOK
  <2> QED BY <1>1, <2>4 DEF AckWaitEnds, RunsInv, OwnersInv, RunOncePerAttempt, EventOf
<1>2. ASSUME NEW h \in Handlers,
             \/ NothingToRun(h)
             \/ Announce(h)
             \/ Throws(h)
      PROVE  RunsInv'
  <2>1. /\ message' \in [Events -> [st : {"ready", "sent", "acked"}, tries : 0..MaxDeliver]]
        /\ handler' = [handler EXCEPT ![h] = Idle]
    <3>1. CASE NothingToRun(h)
      BY <3>1, AnswerTypes DEF NothingToRun, RunsInv
    <3>2. CASE Announce(h)
      BY <3>2, AnswerTypes DEF Announce, RunsInv
    <3>3. CASE Throws(h)
      BY <3>3, AnswerTypes DEF Throws, RunsInv
    <3> QED BY <1>2, <3>1, <3>2, <3>3
  <2>2. UNCHANGED <<run, executions>> /\ effects' \in [Events -> [Steps -> Nat]]
        /\ faults' \in 0..MaxFaults
    BY <1>2, FaultTypes DEF NothingToRun, Announce, Throws, RunsInv, TypeOK
  <2> QED BY <2>1, <2>2, ReturnKeeps
<1>3. ASSUME NEW h \in Handlers, StepFails(h) PROVE RunsInv'
  <2>1. handler[h].step \in Steps /\ EventOf(h) \in Events
    BY <1>3 DEF StepFails, RunsInv, OwnersInv, Steps
  <2>2. effects' \in [Events -> [Steps -> Nat]]
    BY <1>3, <2>1, EffectTypes DEF StepFails, RunsInv, TypeOK
  <2>3. faults' \in 0..MaxFaults
    BY <1>3, FaultTypes DEF StepFails
  <2> QED BY <1>3, <2>2, <2>3, FinishKeeps DEF StepFails
<1>4. ASSUME NEW h \in Handlers, AllStepsDone(h) PROVE RunsInv'
  <2>1. effects' \in [Events -> [Steps -> Nat]] /\ faults' \in 0..MaxFaults
    BY <1>4 DEF AllStepsDone, RunsInv, TypeOK
  <2> QED BY <1>4, <2>1, FinishKeeps DEF AllStepsDone
<1>5. ASSUME NEW h \in Handlers, NEW e \in Events, RetryRun(h, e) PROVE RunsInv'
  <2>1. /\ "reRead" \in {"prepare", "reRead"} /\ 0 \in 0..(NumSteps + 1)
        /\ run[e].status # "running" /\ run[e].attempts < MaxAttempts
        /\ run' = [run EXCEPT ![e] = [status |-> "running", attempts |-> run[e].attempts + 1]]
        /\ handler' = [handler EXCEPT ![h] = [pc |-> "reRead", event |-> e, step |-> 0]]
        /\ UNCHANGED <<message, effects, executions, faults>>
    BY <1>5 DEF RetryRun
  <2> QED BY <2>1, AttemptKeeps
<1>6. CASE UNCHANGED vars
  BY <1>6 DEF vars, RunsInv, TypeOK, OwnersInv, RunOncePerAttempt, EventOf
<1> QED BY <1>1, <1>2, <1>3, <1>4, <1>5, <1>6, CreateRunKeeps, PrepareKeeps, StepWorksKeeps,
           RetryReadsKeeps, DeliverKeeps DEF Next, Works

LEMMA RunsInvariant == Spec => []RunsInv
<1>1. Init => RunsInv
  BY RunsInit
<1>2. RunsInv /\ [Next]_vars => RunsInv'
  BY RunsNext
<1> QED BY <1>1, <1>2, PTL DEF Spec

-----------------------------------------------------------------------------
\* Messages, runs, handlers and counters keep their types.
THEOREM RunTypes == Spec => []TypeOK
<1>1. RunsInv => TypeOK
  BY DEF RunsInv
<1> QED BY <1>1, RunsInvariant, PTL

\* The steps of a run are gone through once for its event and once for each retry
\* of an admin, whatever is delivered again or fails (run, retryRun).
THEOREM OncePerAttempt == Spec => []RunOncePerAttempt
<1>1. RunsInv => RunOncePerAttempt
  BY DEF RunsInv
<1> QED BY <1>1, RunsInvariant, PTL

\* Two handlers never work on one run at the same time (run, retryRun).
THEOREM OneOwner == Spec => []OneExecutor
<1>1. RunsInv => OneExecutor
  BY DEF RunsInv, OwnersInv, OneExecutor, Owning
<1> QED BY <1>1, RunsInvariant, PTL

\* A record an automation creates exists once per run: every create carries the
\* source key of the run and step (createRecord's sourceKey).
THEOREM CreateOnce == Spec => []CreatedOnce
<1>1. Init => CreatedOnce
  BY RunsAssumption DEF Init, CreatedOnce, Steps
<1>2. ASSUME RunsInv, CreatedOnce, [Next]_vars PROVE CreatedOnce'
  <2>1. ASSUME NEW h \in Handlers, NEW i \in Steps, Effect(h, i), EventOf(h) \in Events
        PROVE  CreatedOnce'
    <3>1. effects[EventOf(h)] \in [Steps -> Nat]
      BY <1>2, <2>1 DEF RunsInv, TypeOK
    <3>2. effects'[EventOf(h)] = [effects[EventOf(h)] EXCEPT ![i] =
                                   IF i \in CreateSteps /\ @ > 0 THEN @ ELSE @ + 1]
          /\ \A d \in Events : d # EventOf(h) => effects'[d] = effects[d]
      BY <1>2, <2>1 DEF Effect, RunsInv, TypeOK
    <3>3. ASSUME NEW j \in CreateSteps PROVE effects'[EventOf(h)][j] <= 1
      <4>1. j \in Steps /\ effects[EventOf(h)][j] <= 1 /\ effects[EventOf(h)][j] \in Nat
        BY <1>2, <2>1, <3>1, RunsAssumption DEF CreatedOnce, Steps
      <4> QED BY <3>1, <3>2, <4>1
    <3> QED BY <1>2, <2>1, <3>2, <3>3 DEF CreatedOnce
  <2>2. ASSUME NEW h \in Handlers, StepWorks(h) \/ StepFails(h) PROVE CreatedOnce'
    <3>1. handler[h].step \in Steps /\ EventOf(h) \in Events
      BY <1>2, <2>2 DEF StepWorks, StepFails, RunsInv, OwnersInv, Steps
    <3>2. CASE Effect(h, handler[h].step)
      BY <2>1, <3>1, <3>2
    <3>3. CASE UNCHANGED effects
      BY <1>2, <3>3 DEF CreatedOnce
    <3> QED BY <2>2, <3>2, <3>3 DEF StepWorks, StepFails
  <2>3. CASE UNCHANGED effects
    BY <1>2, <2>3 DEF CreatedOnce
  <2>4. (\E h \in Handlers : StepWorks(h) \/ StepFails(h)) \/ UNCHANGED effects
    BY <1>2 DEF Next, Works, vars, AckWaitEnds, NothingToRun, CreateRun, Prepare, AllStepsDone,
                Announce, RetryReads, Throws, Deliver, RetryRun
  <2> QED BY <2>2, <2>3, <2>4
<1> QED BY <1>1, <1>2, RunsInvariant, PTL DEF Spec

\* "ok" and "skipped" stay, and a failed run only runs again as a new attempt.
THEOREM ResultsAreFinal == Spec => ResultsStay
<1> DEFINE Kept(e) ==
      /\ run[e].status \in {"ok", "skipped"} => run'[e] = run[e]
      /\ run[e].status = "failed" /\ run'[e] # run[e]
           => run'[e] = [status |-> "running", attempts |-> run[e].attempts + 1]
<1>1. ASSUME RunsInv, [Next]_vars PROVE \A e \in Events : Kept(e)
  <2>1. ASSUME NEW h \in Handlers, NEW outcome, handler[h].pc \in Owning,
               SetStatus(EventOf(h), outcome)
        PROVE  \A e \in Events : Kept(e)
    <3>1. run[EventOf(h)].status = "running" /\ EventOf(h) \in Events
      BY <1>1, <2>1 DEF RunsInv, OwnersInv, Owning, Busy
    <3>2. \A e \in Events : e # EventOf(h) => run'[e] = run[e]
      BY <1>1, <2>1 DEF SetStatus, RunsInv, TypeOK
    <3> QED BY <3>1, <3>2
  <2>2. CASE UNCHANGED run
    BY <2>2
  <2>3. ASSUME NEW h \in Handlers,
               Prepare(h) \/ StepFails(h) \/ AllStepsDone(h) \/ RetryReads(h)
        PROVE  \A e \in Events : Kept(e)
    <3>1. handler[h].pc \in Owning
      BY <2>3 DEF Prepare, StepFails, AllStepsDone, RetryReads, Owning, Busy
    <3>2. UNCHANGED run \/ \E outcome \in {"ok", "failed", "skipped"} : SetStatus(EventOf(h), outcome)
      BY <2>3 DEF Prepare, StepFails, AllStepsDone, RetryReads, Finish
    <3> QED BY <2>1, <2>2, <3>1, <3>2
  <2>4. ASSUME NEW h \in Handlers, CreateRun(h) PROVE \A e \in Events : Kept(e)
    BY <1>1, <2>4 DEF CreateRun, RunsInv, TypeOK
  <2>5. ASSUME NEW h \in Handlers, NEW d \in Events, RetryRun(h, d)
        PROVE  \A e \in Events : Kept(e)
    BY <1>1, <2>5 DEF RetryRun, RunsInv, TypeOK
  <2>6. \/ UNCHANGED run
        \/ \E h \in Handlers : \/ Prepare(h) \/ StepFails(h) \/ AllStepsDone(h)
                               \/ RetryReads(h) \/ CreateRun(h)
                               \/ \E d \in Events : RetryRun(h, d)
    BY <1>1 DEF Next, Works, vars, AckWaitEnds, NothingToRun, StepWorks, Announce, Throws, Deliver
  <2> QED BY <2>2, <2>3, <2>4, <2>5, <2>6
<1>2. RunsInv /\ [Next]_vars => [\A e \in Events : Kept(e)]_vars
  BY <1>1
<1> QED BY <1>2, RunsInvariant, PTL DEF Spec, ResultsStay

-----------------------------------------------------------------------------
\* An owner has done the steps before the one it is at.
DoneInv == OkMeansDone /\
    \A h \in Handlers : handler[h].pc \in {"step", "reStep"} =>
      \A i \in Steps : i < handler[h].step => effects[EventOf(h)][i] > 0

\* A step takes effect, and what took effect before stays.
LEMMA EffectGrows ==
  ASSUME RunsInv, NEW h \in Handlers, NEW j \in Steps, Effect(h, j), EventOf(h) \in Events
  PROVE  /\ effects'[EventOf(h)][j] > 0
         /\ \A e \in Events : \A i \in Steps : effects[e][i] > 0 => effects'[e][i] > 0
<1>1. effects[EventOf(h)] \in [Steps -> Nat] /\ effects[EventOf(h)][j] \in Nat
  BY DEF RunsInv, TypeOK
<1> DEFINE n == effects[EventOf(h)][j]
           m == IF j \in CreateSteps /\ n > 0 THEN n ELSE n + 1
<1>2. effects' = [effects EXCEPT ![EventOf(h)] = [effects[EventOf(h)] EXCEPT ![j] = m]]
  BY DEF Effect
<1>3. m > 0
  BY <1>1
<1> HIDE DEF m
<1>4. effects'[EventOf(h)] = [effects[EventOf(h)] EXCEPT ![j] = m]
      /\ \A e \in Events : e # EventOf(h) => effects'[e] = effects[e]
  BY <1>2 DEF RunsInv, TypeOK
<1> QED BY <1>1, <1>3, <1>4

\* A step that leaves the effects alone, ends no run with "ok", and brings no handler
\* to another step.
LEMMA DoneKeeps ==
  ASSUME RunsInv, DoneInv, UNCHANGED effects,
         \A e \in Events : run'[e].status = "ok" => run[e].status = "ok",
         \A h \in Handlers : handler'[h].pc \in {"step", "reStep"} =>
           handler'[h] = handler[h] \/ handler'[h].step = 1
  PROVE  DoneInv'
<1>1. OkMeansDone'
  BY DEF DoneInv, OkMeansDone
<1>2. ASSUME NEW h \in Handlers, handler'[h].pc \in {"step", "reStep"},
             NEW i \in Steps, i < handler'[h].step
      PROVE  effects[handler'[h].event][i] > 0
  <2>1. handler'[h] = handler[h]
    BY <1>2 DEF Steps
  <2> QED BY <1>2, <2>1 DEF DoneInv, EventOf
<1> QED BY <1>1, <1>2 DEF DoneInv, EventOf

\* A handler goes on to a step of its plan, and the others stay where they are.
LEMMA GotoStepSets ==
  ASSUME TypeOK, NEW h \in Handlers, NEW pc, NEW i, GotoStep(h, pc, i)
  PROVE  /\ handler'[h].step = i /\ handler'[h].event = handler[h].event
         /\ \A k \in Handlers : k # h => handler'[k] = handler[k]
<1> DEFINE HandlerType == [pc : {"idle", "start", "announce", "reAnnounce", "reRead"} \union Busy,
                           event : Events \union {NoEvent}, step : 0..(NumSteps + 1)]
<1>1. handler \in [Handlers -> HandlerType]
  BY DEF TypeOK
<1>2. handler[h] \in HandlerType
  BY <1>1
<1>3. handler[h] = [pc |-> handler[h].pc, event |-> handler[h].event, step |-> handler[h].step]
  BY <1>2
<1>4. handler' = [handler EXCEPT ![h] = [[handler[h] EXCEPT !.pc = pc] EXCEPT !.step = i]]
  BY <1>1 DEF GotoStep
<1>5. handler'[h] = [[handler[h] EXCEPT !.pc = pc] EXCEPT !.step = i]
  BY <1>1, <1>4
<1>6. \A k \in Handlers : k # h => handler'[k] = handler[k]
  BY <1>1, <1>4
<1> QED BY <1>3, <1>5, <1>6

LEMMA DoneNext == RunsInv /\ DoneInv /\ [Next]_vars => DoneInv'
<1> SUFFICES ASSUME RunsInv, DoneInv, [Next]_vars PROVE DoneInv'
  OBVIOUS
<1> DEFINE Same(h) == \A k \in Handlers : k # h => handler'[k] = handler[k]
<1>0. handler = [h \in Handlers |-> handler[h]]
  BY DEF RunsInv, TypeOK
<1>1. ASSUME NEW h \in Handlers, Return(h), UNCHANGED <<run, effects>> PROVE DoneInv'
  <2>1. Same(h) /\ handler'[h].pc = "idle"
    BY <1>0, <1>1 DEF Return, Idle
  <2> QED BY <1>1, <2>1, DoneKeeps
<1>2. ASSUME NEW h \in Handlers, NothingToRun(h) \/ Announce(h) \/ Throws(h) PROVE DoneInv'
  BY <1>1, <1>2 DEF NothingToRun, Announce, Throws, Answer
<1>3. ASSUME NEW h \in Handlers, NEW e \in Events, Deliver(h, e) PROVE DoneInv'
  <2>1. Same(h) /\ handler'[h].pc = "start" /\ UNCHANGED <<run, effects>>
    BY <1>0, <1>3 DEF Deliver
  <2> QED BY <2>1, DoneKeeps
<1>4. ASSUME NEW h \in Handlers, NEW e \in Events, RetryRun(h, e) PROVE DoneInv'
  <2>1. Same(h) /\ handler'[h].pc = "reRead" /\ UNCHANGED effects
    BY <1>0, <1>4 DEF RetryRun
  <2>2. run' = [run EXCEPT ![e] = [status |-> "running", attempts |-> run[e].attempts + 1]]
    BY <1>4 DEF RetryRun
  <2>3. \A d \in Events : run'[d].status = "ok" => run[d].status = "ok"
    BY <2>2 DEF RunsInv, TypeOK
  <2> QED BY <2>1, <2>3, DoneKeeps
<1>5. ASSUME NEW h \in Handlers, CreateRun(h) PROVE DoneInv'
  <2>1. CASE run[EventOf(h)].status = "none"
    <3>1. Same(h) /\ handler'[h].pc = "prepare" /\ UNCHANGED effects
      BY <1>0, <1>5, <2>1 DEF CreateRun, Goto, RunsInv, TypeOK
    <3>2. \A d \in Events : run'[d].status = "ok" => run[d].status = "ok"
      <4>1. run' = [run EXCEPT ![EventOf(h)] = [status |-> "running", attempts |-> 1]]
        BY <1>5, <2>1 DEF CreateRun
      <4> QED BY <4>1 DEF RunsInv, TypeOK
    <3> QED BY <3>1, <3>2, DoneKeeps
  <2>2. CASE run[EventOf(h)].status # "none"
    BY <1>1, <1>5, <2>2 DEF CreateRun, Answer
  <2> QED BY <2>1, <2>2
<1>6. ASSUME NEW h \in Handlers, NEW outcome \in {"failed", "skipped"},
             SetStatus(EventOf(h), outcome)
      PROVE  \A d \in Events : run'[d].status = "ok" => run[d].status = "ok"
  BY <1>6 DEF SetStatus, RunsInv, TypeOK
<1>7. ASSUME NEW h \in Handlers, Prepare(h) PROVE DoneInv'
  <2>1. CASE /\ GotoStep(h, IF handler[h].pc = "prepare" THEN "step" ELSE "reStep", 1)
             /\ UNCHANGED run
    <3>1. Same(h) /\ handler'[h].step = 1
      BY <2>1, GotoStepSets DEF RunsInv
    <3> QED BY <1>7, <2>1, <3>1, DoneKeeps DEF Prepare
  <2>2. CASE SetStatus(EventOf(h), "skipped") /\ Answer(h, {"prepare"}, "acked")
    <3>1. Same(h) /\ handler'[h].pc = "idle"
      BY <1>0, <2>2 DEF Answer, Return, Idle
    <3> QED BY <1>6, <1>7, <2>2, <3>1, DoneKeeps DEF Prepare
  <2> QED BY <1>7, <2>1, <2>2 DEF Prepare
<1>8. ASSUME NEW h \in Handlers, RetryReads(h) PROVE DoneInv'
  <2>1. CASE Goto(h, "rePrepare") /\ UNCHANGED run
    <3>1. Same(h) /\ handler'[h].pc = "rePrepare"
      BY <1>0, <2>1 DEF Goto, RunsInv, TypeOK
    <3> QED BY <1>8, <2>1, <3>1, DoneKeeps DEF RetryReads
  <2>2. CASE SetStatus(EventOf(h), "failed") /\ Return(h)
    <3>1. Same(h) /\ handler'[h].pc = "idle"
      BY <1>0, <2>2 DEF Return, Idle
    <3> QED BY <1>6, <1>8, <2>2, <3>1, DoneKeeps DEF RetryReads
  <2> QED BY <1>8, <2>1, <2>2 DEF RetryReads
<1>9. ASSUME NEW h \in Handlers, StepWorks(h) PROVE DoneInv'
  <2> DEFINE j == handler[h].step
  <2>1. j \in Steps /\ EventOf(h) \in Events /\ handler[h].pc \in {"step", "reStep"}
    BY <1>9 DEF StepWorks, RunsInv, OwnersInv, Steps
  <2>2. /\ effects'[EventOf(h)][j] > 0
        /\ \A e \in Events : \A i \in Steps : effects[e][i] > 0 => effects'[e][i] > 0
    BY <1>9, <2>1, EffectGrows DEF StepWorks
  <2>3. Same(h) /\ handler'[h].step = j + 1 /\ handler'[h].event = EventOf(h)
        /\ UNCHANGED run
    <3>1. GotoStep(h, handler[h].pc, j + 1) /\ UNCHANGED run
      BY <1>9 DEF StepWorks
    <3> QED BY <3>1, GotoStepSets DEF RunsInv, EventOf
  <2>4. OkMeansDone'
    BY <2>2, <2>3 DEF DoneInv, OkMeansDone
  <2>5. ASSUME NEW i \in Steps, i < j + 1 PROVE effects'[EventOf(h)][i] > 0
    <3>1. i = j \/ i < j
      BY <2>1, <2>5 DEF Steps
    <3> QED BY <2>1, <2>2, <3>1 DEF DoneInv
  <2>6. ASSUME NEW k \in Handlers, handler'[k].pc \in {"step", "reStep"},
               NEW i \in Steps, i < handler'[k].step
        PROVE  effects'[handler'[k].event][i] > 0
    <3>1. CASE k = h
      BY <2>3, <2>5, <2>6, <3>1
    <3>2. CASE k # h
      <4>1. handler'[k] = handler[k] /\ handler[k].event \in Events
        BY <2>3, <2>6, <3>2 DEF RunsInv, OwnersInv, EventOf
      <4> QED BY <2>2, <2>6, <4>1 DEF DoneInv, EventOf
    <3> QED BY <3>1, <3>2
  <2> QED BY <2>4, <2>6 DEF DoneInv, EventOf
<1>10. ASSUME NEW h \in Handlers, StepFails(h) PROVE DoneInv'
  <2>1. handler[h].step \in Steps /\ EventOf(h) \in Events
    BY <1>10 DEF StepFails, RunsInv, OwnersInv, Steps
  <2>2. \A e \in Events : \A i \in Steps : effects[e][i] > 0 => effects'[e][i] > 0
    <3>1. CASE Effect(h, handler[h].step)
      BY <2>1, <3>1, EffectGrows
    <3>2. CASE UNCHANGED effects
      BY <3>2
    <3> QED BY <1>10, <3>1, <3>2 DEF StepFails
  <2>3. PICK pc \in {"announce", "reAnnounce"} : handler' = [handler EXCEPT ![h].pc = pc]
    BY <1>10 DEF StepFails, Finish, Goto
  <2>4. Same(h) /\ handler'[h].pc \notin {"step", "reStep"}
    BY <1>0, <2>3 DEF RunsInv, TypeOK
  <2>5. \A d \in Events : run'[d].status = "ok" => run[d].status = "ok"
    BY <1>6, <1>10 DEF StepFails, Finish
  <2>6. OkMeansDone'
    BY <2>2, <2>5 DEF DoneInv, OkMeansDone
  <2>7. ASSUME NEW k \in Handlers, handler'[k].pc \in {"step", "reStep"},
               NEW i \in Steps, i < handler'[k].step
        PROVE  effects'[handler'[k].event][i] > 0
    <3>1. k # h
      BY <2>4, <2>7
    <3>2. handler'[k] = handler[k] /\ handler[k].event \in Events
      BY <2>4, <2>7, <3>1 DEF RunsInv, OwnersInv, EventOf
    <3> QED BY <2>2, <2>7, <3>2 DEF DoneInv, EventOf
  <2> QED BY <2>6, <2>7 DEF DoneInv, EventOf
<1>11. ASSUME NEW h \in Handlers, AllStepsDone(h) PROVE DoneInv'
  <2>1. EventOf(h) \in Events /\ handler[h].pc \in {"step", "reStep"}
        /\ handler[h].step = NumSteps + 1
    BY <1>11 DEF AllStepsDone, RunsInv, OwnersInv, Steps
  <2>2. \A i \in Steps : effects[EventOf(h)][i] > 0
    <3>1. \A i \in Steps : i < NumSteps + 1
      BY DEF Steps
    <3> QED BY <2>1, <3>1 DEF DoneInv
  <2>3. Same(h) /\ handler'[h].pc = "idle" /\ UNCHANGED effects
    BY <1>0, <1>11 DEF AllStepsDone, Finish, Answer, Return, Idle
  <2>4. \A d \in Events : d # EventOf(h) => run'[d] = run[d]
    BY <1>11 DEF AllStepsDone, Finish, SetStatus, RunsInv, TypeOK
  <2>5. OkMeansDone'
    BY <2>2, <2>3, <2>4 DEF DoneInv, OkMeansDone
  <2> QED BY <2>3, <2>5 DEF DoneInv, EventOf
<1>12. (\E e \in Events : AckWaitEnds(e)) \/ UNCHANGED vars => DoneInv'
  BY DoneKeeps DEF AckWaitEnds, vars
<1> QED BY <1>2, <1>3, <1>4, <1>5, <1>7, <1>8, <1>9, <1>10, <1>11, <1>12 DEF Next, Works

\* Whatever is delivered again, fails late or is retried: a run is gone through once
\* per attempt and by one handler, creates its records once, and is "ok" only when
\* each of its steps took effect (run, step, finish, retryRun).
THEOREM RunsStaySafe == Spec => []RunsAreSafe
<1>1. Init => DoneInv
  BY DEF Init, DoneInv, OkMeansDone, NoRun, Idle
<1>2. RunsInv /\ DoneInv /\ [Next]_vars => DoneInv'
  BY DoneNext
<1>3. Spec => []DoneInv
  BY <1>1, <1>2, RunsInvariant, PTL DEF Spec
<1>4. DoneInv /\ RunOncePerAttempt /\ OneExecutor /\ CreatedOnce => RunsAreSafe
  BY DEF DoneInv, RunsAreSafe
<1> QED BY <1>3, <1>4, OncePerAttempt, OneOwner, CreateOnce, PTL

-----------------------------------------------------------------------------
(* Schedules *)

HasClaim(c) == c.pc # "idle" /\ c.job.id # 0 /\ c.at # 0

\* A replica at work has claimed a job and is at one of its records, or behind them.
ClaimsHold ==
    /\ job # NoJob => job.id # 0
    /\ \A w \in Replicas : claimer[w] = IdleWorker \/ HasClaim(claimer[w])

\* While no execution threw, a job falls due at the time it stands for, so what was run
\* for a record and a time has its key.
KeyedBySlot ==
    counts.failures = 0 =>
        /\ job.due = job.slot
        /\ \A w \in Replicas : claimer[w].job.due = claimer[w].job.slot
        /\ \A s \in Times, r \in Records :
              worked[s][r] = IF <<s, r>> \in keyed THEN 1 ELSE 0

\* A sync that will put a missing job: it read that the automation is scheduled, and did
\* not find the job, if it has looked.
WillPut(c) == c.on /\ (c.pc = "list" \/ (c.pc = "write" /\ ~c.found))

\* A scheduled automation without a job, unless it was removed late, has a publish event
\* to come or a sync that will put the job.
JobFollows ==
    /\ job # NoJob => job.due <= now + Period \/ job.due <= now + Backoff
    /\ unsynced <= counts.publishes + counts.faults
    /\ \A s \in Syncers : sync[s].pc = "write" => sync[s].due <= now + Period
    /\ on /\ job = NoJob /\ ~removedLate =>
          unsynced > 0 \/ \E s \in Syncers : WillPut(sync[s])

Syncing == [pc : {"idle", "list", "write"}, on : BOOLEAN, found : BOOLEAN, due : Times]

SchedulesInv == SchedulesTypeOK /\ ClaimsHold /\ KeyedBySlot /\ JobFollows

LEMMA ScheduleConstants ==
  /\ NumRecords \in Nat /\ Backoff \in Nat /\ MaxTime \in Nat /\ MaxPublishes \in Nat
  /\ MaxFailures \in Nat /\ MaxStops \in Nat
  /\ Period \in Nat /\ Period > 0 /\ StartsOn \in BOOLEAN
BY ScheduleAssumption

\* The next scheduled time is within a period.
LEMMA NextRunIsNear ==
  ASSUME NEW t \in 0..MaxTime
  PROVE  NextRun(t) \in Times /\ NextRun(t) <= t + Period
<1>1. (t \div Period) * Period <= t /\ t \div Period \in Nat BY ScheduleConstants
<1>2. (t \div Period) * Period \in Nat BY <1>1, ScheduleConstants
<1> QED BY <1>1, <1>2, ScheduleConstants DEF NextRun, Times

LEMMA NoJobIs == NoJob \in Job /\ NoJob.id = 0 /\ NoJob.due = NoJob.slot /\ ~NoJob.leased
BY ScheduleConstants DEF NoJob, Job, Times

\* What the store does to the job: it is put anew, removed, or its lease and time change.
LEMMA PutIs ==
  ASSUME SchedulesInv, NEW due \in Times, PutJob(due)
  PROVE  /\ job' \in Job /\ lastId' \in Nat /\ job'.id # 0 /\ job' # NoJob
         /\ job'.due = due /\ job'.slot = due /\ removedLate' \in BOOLEAN
<1>1. job \in Job /\ lastId \in Nat /\ (job # NoJob => job.id # 0)
  BY DEF SchedulesInv, SchedulesTypeOK, ClaimsHold
<1> DEFINE id == IF job = NoJob THEN lastId + 1 ELSE job.id
<1>2. id \in Nat /\ id # 0 BY <1>1 DEF Job
<1>3. job' = [id |-> id, due |-> due, slot |-> due, leased |-> FALSE] BY DEF PutJob
<1>4. lastId' \in Nat BY <1>1 DEF PutJob
<1>6. removedLate' \in BOOLEAN BY DEF PutJob
<1> HIDE DEF id
<1>5. job' \in Job /\ job'.id = id /\ job'.due = due /\ job'.slot = due BY <1>2, <1>3 DEF Job
<1> QED BY <1>2, <1>4, <1>5, <1>6, NoJobIs

-----------------------------------------------------------------------------
\* What the actions do to the job, and to what the replicas hold: each conjunct of the
\* invariant needs no more of them.
Held(j) == j \in Job /\ (j # NoJob => j.id # 0)

LEMMA RetryIs ==
  ASSUME SchedulesInv, NEW w \in Replicas, claimer[w] # IdleWorker, RetryLater(claimer[w].job)
  PROVE  /\ Held(job') /\ UNCHANGED lastId /\ (job' = NoJob <=> job = NoJob)
         /\ job' = job \/ job'.due = now + Backoff
<1>1. /\ job \in Job /\ claimer[w].job.id # 0 /\ now \in 0..MaxTime
      /\ job # NoJob => job.id # 0
  BY DEF SchedulesInv, SchedulesTypeOK, ClaimsHold, HasClaim
<1>2. CASE job.id # claimer[w].job.id
  BY <1>1, <1>2 DEF RetryLater, Held
<1>3. CASE job.id = claimer[w].job.id
  <2> DEFINE new == [job EXCEPT !.due = now + Backoff, !.leased = FALSE]
  <2>1. job' = new /\ UNCHANGED lastId BY <1>3 DEF RetryLater
  <2>2. now + Backoff \in Times BY <1>1, ScheduleConstants DEF Times
  <2>3. new \in Job /\ new.id = job.id /\ new.due = now + Backoff BY <1>1, <2>2 DEF Job
  <2> HIDE DEF new
  <2> QED BY <1>1, <1>3, <2>1, <2>3, NoJobIs DEF Held
<1> QED BY <1>2, <1>3

LEMMA LeaseIs ==
  ASSUME SchedulesInv, NEW l \in BOOLEAN, job # NoJob, job' = [job EXCEPT !.leased = l]
  PROVE  /\ Held(job') /\ job' # NoJob /\ job'.id = job.id
         /\ job'.due = job.due /\ job'.slot = job.slot
<1>1. job \in Job /\ job.id # 0 BY DEF SchedulesInv, SchedulesTypeOK, ClaimsHold
<1>2. /\ job' \in Job /\ job'.id = job.id /\ job'.due = job.due /\ job'.slot = job.slot
  BY <1>1 DEF Job
<1> QED BY <1>1, <1>2, NoJobIs DEF Held

\* A replica that is idle holds no job, so what it claims or drops keeps the types.
Claimer == [pc : {"idle", "read", "run", "remove"}, job : Job, at : 0..(NumRecords + 1)]
Sound(c) == c \in Claimer /\ (c = IdleWorker \/ HasClaim(c))

LEMMA ClaimersSound ==
  ASSUME SchedulesInv, NEW w \in Replicas, NEW c, Sound(c),
         claimer' = [claimer EXCEPT ![w] = c]
  PROVE  /\ claimer' \in [Replicas -> Claimer]
         /\ \A v \in Replicas : Sound(claimer'[v])
         /\ claimer'[w] = c /\ \A v \in Replicas : v # w => claimer'[v] = claimer[v]
BY DEF SchedulesInv, SchedulesTypeOK, ClaimsHold, Sound, Claimer

LEMMA IdleIsSound == Sound(IdleWorker) /\ IdleWorker.job = NoJob /\ IdleWorker.pc = "idle"
BY NoJobIs, ScheduleConstants DEF Sound, Claimer, IdleWorker

LEMMA IdleSyncIs == IdleSync \in Syncing /\ IdleSync.pc = "idle"
BY ScheduleConstants DEF IdleSync, Syncing, Times

LEMMA CountsKept ==
  ASSUME SchedulesInv, NEW f \in {"publishes", "failures", "faults"},
         NEW max, Counted(f, max),
         max = CASE f = "publishes" -> MaxPublishes [] f = "failures" -> MaxFailures
                 [] OTHER -> MaxStops
  PROVE  /\ counts' \in [publishes : 0..MaxPublishes, failures : 0..MaxFailures,
                         faults : 0..MaxStops]
         /\ f = "failures" => counts'.failures # 0
         /\ f # "failures" => counts'.failures = counts.failures
         /\ f = "publishes" => counts'.publishes = counts.publishes + 1
         /\ f # "publishes" => counts'.publishes = counts.publishes
         /\ f = "faults" => counts'.faults = counts.faults + 1
         /\ f # "faults" => counts'.faults = counts.faults
         /\ counts.publishes \in Nat /\ counts.faults \in Nat
<1>1. /\ counts \in [publishes : 0..MaxPublishes, failures : 0..MaxFailures, faults : 0..MaxStops]
      /\ counts[f] < max /\ counts' = [counts EXCEPT ![f] = @ + 1]
  BY DEF SchedulesInv, SchedulesTypeOK, Counted
<1>2. CASE f = "publishes" BY <1>1, <1>2, ScheduleConstants
<1>3. CASE f = "failures" BY <1>1, <1>3, ScheduleConstants
<1>4. CASE f = "faults" BY <1>1, <1>4, ScheduleConstants
<1> QED BY <1>2, <1>3, <1>4

-----------------------------------------------------------------------------
LEMMA SchedulesBegin == SchedulesInit => SchedulesInv
<1> SUFFICES ASSUME SchedulesInit PROVE SchedulesInv OBVIOUS
<1>1. 0 \in 0..MaxTime /\ NextRun(0) \in Times /\ NextRun(0) <= now + Period
  BY ScheduleConstants, NextRunIsNear DEF SchedulesInit
<1>2. /\ Held(job) /\ job.due = job.slot
      /\ job # NoJob => job.due <= now + Period
      /\ on => job # NoJob
  <2> DEFINE first == [id |-> 1, due |-> NextRun(0), slot |-> NextRun(0), leased |-> FALSE]
  <2>1. first \in Job /\ first.id = 1 /\ first.due = NextRun(0) /\ first.slot = NextRun(0)
    BY <1>1 DEF Job
  <2>2. job = IF StartsOn THEN first ELSE NoJob BY DEF SchedulesInit
  <2> HIDE DEF first
  <2>3. on = StartsOn /\ now = 0 BY DEF SchedulesInit
  <2>4. CASE StartsOn BY <1>1, <2>1, <2>2, <2>3, <2>4, NoJobIs DEF Held
  <2>5. CASE ~StartsOn BY <1>1, <2>2, <2>3, <2>5, NoJobIs DEF Held
  <2> QED BY <2>4, <2>5
<1>3. \A w \in Replicas : Sound(claimer[w]) /\ claimer[w].job = NoJob
  BY IdleIsSound DEF SchedulesInit
<1>4. SchedulesTypeOK
  <2>1. /\ now \in 0..MaxTime /\ on \in BOOLEAN /\ unsynced \in 0..(MaxPublishes + MaxStops)
        /\ sync \in [Syncers -> Syncing]
        /\ removedLate \in BOOLEAN /\ keyed \subseteq Times \X Records
    <3>1. on \in BOOLEAN /\ removedLate \in BOOLEAN BY ScheduleConstants DEF SchedulesInit
    <3>2. now \in 0..MaxTime /\ unsynced \in 0..(MaxPublishes + MaxStops) /\ keyed = {}
      BY ScheduleConstants DEF SchedulesInit
    <3>3. sync \in [Syncers -> Syncing] BY IdleSyncIs DEF SchedulesInit
    <3> QED BY <3>1, <3>2, <3>3
  <2>2. job \in Job /\ lastId \in Nat BY <1>2, ScheduleConstants DEF SchedulesInit, Held
  <2>3. claimer \in [Replicas -> Claimer] BY <1>3 DEF SchedulesInit, Sound
  <2>4. worked \in [Times -> [Records -> Nat]] BY DEF SchedulesInit
  <2>5. counts \in [publishes : 0..MaxPublishes, failures : 0..MaxFailures, faults : 0..MaxStops]
    BY ScheduleConstants DEF SchedulesInit
  <2> QED BY <2>1, <2>2, <2>3, <2>4, <2>5 DEF SchedulesTypeOK, Claimer, Syncing
<1>5. ClaimsHold BY <1>2, <1>3 DEF ClaimsHold, Held, Sound
<1>6. KeyedBySlot BY <1>2, <1>3, NoJobIs DEF SchedulesInit, KeyedBySlot
<1>7. JobFollows BY <1>2, IdleSyncIs DEF SchedulesInit, JobFollows
<1> QED BY <1>4, <1>5, <1>6, <1>7 DEF SchedulesInv

LEMMA TickStep == ASSUME SchedulesInv, Tick PROVE SchedulesInv'
<1>1. SchedulesTypeOK'
  BY ScheduleConstants DEF SchedulesInv, SchedulesTypeOK, Tick
<1>2. ClaimsHold' BY DEF SchedulesInv, ClaimsHold, Tick
<1>3. KeyedBySlot' BY DEF SchedulesInv, KeyedBySlot, Tick
<1>4. JobFollows'
  <2>1. /\ now \in Nat /\ now' = now + 1 /\ job.due \in Nat
        /\ \A s \in Syncers : sync[s].due \in Nat
    BY ScheduleConstants DEF SchedulesInv, SchedulesTypeOK, Tick, Job, Times
  <2>2. \A s \in Syncers : sync[s].pc = "write" => sync[s].due <= now' + Period
    BY <2>1, ScheduleConstants DEF SchedulesInv, JobFollows
  <2>3. job # NoJob => job.due <= now' + Period \/ job.due <= now' + Backoff
    BY <2>1, ScheduleConstants DEF SchedulesInv, JobFollows
  <2> QED BY <2>2, <2>3 DEF SchedulesInv, JobFollows, Tick
<1> QED BY <1>1, <1>2, <1>3, <1>4 DEF SchedulesInv

LEMMA JobLeaseEndsStep == ASSUME SchedulesInv, JobLeaseEnds PROVE SchedulesInv'
<1>1. job # NoJob BY NoJobIs DEF JobLeaseEnds
<1>2. /\ Held(job') /\ job' # NoJob /\ job'.id = job.id
      /\ job'.due = job.due /\ job'.slot = job.slot
  BY <1>1, LeaseIs DEF JobLeaseEnds
<1>3. /\ counts' \in [publishes : 0..MaxPublishes, failures : 0..MaxFailures,
                      faults : 0..MaxStops]
      /\ counts'.failures = counts.failures /\ counts'.publishes = counts.publishes
      /\ counts'.faults = counts.faults + 1 /\ {counts.publishes, counts.faults} \subseteq Nat
  BY CountsKept DEF JobLeaseEnds
<1>4. SchedulesTypeOK' BY <1>2, <1>3 DEF SchedulesInv, SchedulesTypeOK, JobLeaseEnds, Held
<1>5. ClaimsHold' BY <1>2 DEF SchedulesInv, ClaimsHold, JobLeaseEnds, Held
<1>6. KeyedBySlot' BY <1>2, <1>3 DEF SchedulesInv, KeyedBySlot, JobLeaseEnds
<1>7. JobFollows'
  BY <1>1, <1>2, <1>3 DEF SchedulesInv, SchedulesTypeOK, JobFollows, JobLeaseEnds
<1> QED BY <1>4, <1>5, <1>6, <1>7 DEF SchedulesInv

LEMMA PublishStep == ASSUME SchedulesInv, Publish PROVE SchedulesInv'
<1>1. /\ counts' \in [publishes : 0..MaxPublishes, failures : 0..MaxFailures,
                      faults : 0..MaxStops]
      /\ counts'.failures = counts.failures /\ counts'.publishes = counts.publishes + 1
      /\ counts'.faults = counts.faults /\ {counts.publishes, counts.faults} \subseteq Nat
  BY CountsKept DEF Publish
<1>2. SchedulesTypeOK'
  <2>1. on' \in BOOLEAN BY DEF Publish
  <2>2. unsynced' \in 0..(MaxPublishes + MaxStops)
    <3>1. unsynced' <= counts'.publishes + counts'.faults /\ unsynced' \in Nat
      BY <1>1, ScheduleConstants DEF SchedulesInv, SchedulesTypeOK, JobFollows, Publish
    <3> QED BY <1>1, <3>1, ScheduleConstants
  <2> QED BY <1>1, <2>1, <2>2 DEF SchedulesInv, SchedulesTypeOK, Publish
<1>3. ClaimsHold' BY DEF SchedulesInv, ClaimsHold, Publish
<1>4. KeyedBySlot' BY <1>1 DEF SchedulesInv, KeyedBySlot, Publish
<1>5. JobFollows' BY <1>1 DEF SchedulesInv, SchedulesTypeOK, JobFollows, Publish
<1> QED BY <1>2, <1>3, <1>4, <1>5 DEF SchedulesInv

\* One sync goes on, the others stay.
LEMMA SyncsAre ==
  ASSUME SchedulesInv, NEW s \in Syncers, NEW c \in Syncing, sync' = [sync EXCEPT ![s] = c]
  PROVE  /\ sync' \in [Syncers -> Syncing] /\ sync'[s] = c
         /\ \A r \in Syncers : r # s => sync'[r] = sync[r]
BY DEF SchedulesInv, SchedulesTypeOK, Syncing

LEMMA SyncReadStep ==
  ASSUME SchedulesInv, NEW s \in Syncers, SyncRead(s) PROVE SchedulesInv'
<1> DEFINE c == [IdleSync EXCEPT !.pc = "list", !.on = on]
<1>1. on \in BOOLEAN /\ unsynced \in 0..(MaxPublishes + MaxStops) /\ unsynced > 0
  BY DEF SchedulesInv, SchedulesTypeOK, SyncRead
<1>2. c \in Syncing /\ c.pc = "list" /\ c.on = on
  BY <1>1, IdleSyncIs DEF Syncing
<1>3. sync' = [sync EXCEPT ![s] = c] BY DEF SyncRead
<1> HIDE DEF c
<1>4. /\ sync' \in [Syncers -> Syncing] /\ sync'[s] = c
      /\ \A r \in Syncers : r # s => sync'[r] = sync[r]
  BY <1>2, <1>3, SyncsAre
<1>5. unsynced' \in 0..(MaxPublishes + MaxStops) /\ unsynced' <= unsynced
  BY <1>1, ScheduleConstants DEF SyncRead
<1>6. SchedulesTypeOK' BY <1>4, <1>5 DEF SchedulesInv, SchedulesTypeOK, SyncRead, Syncing
<1>7. ClaimsHold' BY DEF SchedulesInv, ClaimsHold, SyncRead
<1>8. KeyedBySlot' BY DEF SchedulesInv, KeyedBySlot, SyncRead
<1>9. JobFollows'
  <2>1. unsynced' <= counts'.publishes + counts'.faults
    BY <1>1, <1>5, ScheduleConstants DEF SchedulesInv, SchedulesTypeOK, JobFollows, SyncRead
  <2>2. \A r \in Syncers : sync'[r].pc = "write" => sync'[r].due <= now + Period
    BY <1>2, <1>4 DEF SchedulesInv, JobFollows
  <2>3. on => WillPut(sync'[s]) BY <1>2, <1>4 DEF WillPut
  <2> QED BY <2>1, <2>2, <2>3 DEF SchedulesInv, JobFollows, SyncRead
<1> QED BY <1>6, <1>7, <1>8, <1>9 DEF SchedulesInv

LEMMA SyncListStep ==
  ASSUME SchedulesInv, NEW s \in Syncers, SyncList(s) PROVE SchedulesInv'
<1>1. PICK found \in BOOLEAN : found = (job # NoJob) OBVIOUS
<1> DEFINE c == [pc |-> "write", on |-> sync[s].on, found |-> found, due |-> NextRun(now)]
<1>2. sync[s] \in Syncing /\ sync[s].pc = "list" /\ now \in 0..MaxTime
  BY DEF SchedulesInv, SchedulesTypeOK, Syncing, SyncList
<1>3. NextRun(now) \in Times /\ NextRun(now) <= now + Period BY <1>2, NextRunIsNear
<1>4. /\ c \in Syncing /\ c.pc = "write" /\ c.on = sync[s].on /\ c.found = found
      /\ c.due = NextRun(now)
  BY <1>2, <1>3 DEF Syncing
<1>5. sync' = [sync EXCEPT ![s] = c] BY <1>1 DEF SyncList
<1> HIDE DEF c
<1>6. /\ sync' \in [Syncers -> Syncing] /\ sync'[s] = c
      /\ \A r \in Syncers : r # s => sync'[r] = sync[r]
  BY <1>4, <1>5, SyncsAre
<1>7. SchedulesTypeOK' BY <1>6 DEF SchedulesInv, SchedulesTypeOK, SyncList, Syncing
<1>8. ClaimsHold' BY DEF SchedulesInv, ClaimsHold, SyncList
<1>9. KeyedBySlot' BY DEF SchedulesInv, KeyedBySlot, SyncList
<1>10. JobFollows'
  <2>1. \A r \in Syncers : sync'[r].pc = "write" => sync'[r].due <= now + Period
    BY <1>3, <1>4, <1>6 DEF SchedulesInv, JobFollows
  <2>2. ASSUME job = NoJob, NEW r \in Syncers, WillPut(sync[r])
        PROVE  WillPut(sync'[r])
    BY <1>1, <1>2, <1>4, <1>6, <2>2 DEF WillPut
  <2> QED BY <2>1, <2>2 DEF SchedulesInv, JobFollows, SyncList
<1> QED BY <1>7, <1>8, <1>9, <1>10 DEF SchedulesInv

LEMMA SyncWriteStep ==
  ASSUME SchedulesInv, NEW s \in Syncers, SyncWrite(s) PROVE SchedulesInv'
<1>1. /\ now \in 0..MaxTime /\ job \in Job /\ lastId \in Nat
      /\ sync[s] \in Syncing /\ sync[s].pc = "write" /\ removedLate \in BOOLEAN
      /\ on \in BOOLEAN
      /\ job # NoJob => job.id # 0
      /\ counts.failures = 0 => job.due = job.slot
      /\ job # NoJob => job.due <= now + Period \/ job.due <= now + Backoff
      /\ sync[s].due <= now + Period
  BY DEF SchedulesInv, SchedulesTypeOK, ClaimsHold, KeyedBySlot, JobFollows, SyncWrite, Syncing
<1>2. sync[s].due \in Times BY <1>1 DEF Syncing
<1>3. /\ sync' \in [Syncers -> Syncing] /\ sync'[s] = IdleSync
      /\ \A r \in Syncers : r # s => sync'[r] = sync[r]
      /\ UNCHANGED <<now, on, unsynced, claimer, keyed, worked, counts>>
  BY IdleSyncIs, SyncsAre DEF SyncWrite
<1>4. /\ Held(job') /\ lastId' \in Nat /\ removedLate' \in BOOLEAN
      /\ counts.failures = 0 => job'.due = job'.slot
      /\ job' # NoJob => job'.due <= now + Period \/ job'.due <= now + Backoff
      /\ on /\ ~removedLate' /\ job' = NoJob =>
            job = NoJob /\ ~removedLate /\ ~WillPut(sync[s])
  <2>1. CASE sync[s].on /\ ~sync[s].found /\ PutJob(sync[s].due)
    BY <1>1, <1>2, <2>1, PutIs DEF Held
  <2>2. CASE ~sync[s].on /\ sync[s].found /\ DropJob
    <3>1. job' = NoJob /\ lastId' = lastId /\ removedLate' = (removedLate \/ (on /\ job # NoJob))
      BY <2>2 DEF DropJob
    <3> QED BY <1>1, <2>2, <3>1, NoJobIs DEF Held, WillPut
  <2>3. CASE sync[s].on = sync[s].found /\ UNCHANGED <<job, lastId, removedLate>>
    BY <1>1, <2>3 DEF Held, WillPut
  <2> QED BY <2>1, <2>2, <2>3 DEF SyncWrite
<1>5. SchedulesTypeOK' BY <1>3, <1>4 DEF SchedulesInv, SchedulesTypeOK, Held, Syncing
<1>6. ClaimsHold' BY <1>3, <1>4 DEF SchedulesInv, ClaimsHold, Held
<1>7. KeyedBySlot' BY <1>3, <1>4 DEF SchedulesInv, KeyedBySlot
<1>8. JobFollows'
  <2>1. \A r \in Syncers : sync'[r].pc = "write" => sync'[r].due <= now + Period
    BY <1>3, IdleSyncIs DEF SchedulesInv, JobFollows
  <2>2. ASSUME on, ~removedLate', job' = NoJob, ~(unsynced > 0)
        PROVE  \E r \in Syncers : WillPut(sync'[r])
    <3>1. PICK r \in Syncers : WillPut(sync[r])
      BY <1>4, <2>2 DEF SchedulesInv, JobFollows
    <3>2. r # s BY <1>4, <2>2, <3>1
    <3> QED BY <1>3, <3>1, <3>2
  <2> QED BY <1>3, <1>4, <2>1, <2>2 DEF SchedulesInv, JobFollows
<1> QED BY <1>5, <1>6, <1>7, <1>8 DEF SchedulesInv

LEMMA SyncAgainStep ==
  ASSUME SchedulesInv, NEW s \in Syncers, SyncAgain(s) PROVE SchedulesInv'
<1>1. /\ counts' \in [publishes : 0..MaxPublishes, failures : 0..MaxFailures,
                      faults : 0..MaxStops]
      /\ counts'.failures = counts.failures /\ counts'.publishes = counts.publishes
      /\ counts'.faults = counts.faults + 1 /\ {counts.publishes, counts.faults} \subseteq Nat
  BY CountsKept DEF SyncAgain
<1>2. /\ sync' \in [Syncers -> Syncing]
      /\ \A r \in Syncers : sync'[r] \in {sync[r], IdleSync}
  <2>1. CASE sync' = [sync EXCEPT ![s] = IdleSync] BY <2>1, IdleSyncIs, SyncsAre
  <2>2. CASE UNCHANGED sync BY <2>2 DEF SchedulesInv, SchedulesTypeOK, Syncing
  <2> QED BY <2>1, <2>2 DEF SyncAgain
<1>3. /\ unsynced \in Nat /\ unsynced' = unsynced + 1
      /\ unsynced' <= counts'.publishes + counts'.faults
  BY <1>1, ScheduleConstants DEF SchedulesInv, SchedulesTypeOK, JobFollows, SyncAgain
<1>4. unsynced' \in 0..(MaxPublishes + MaxStops) BY <1>1, <1>3, ScheduleConstants
<1>5. SchedulesTypeOK' BY <1>1, <1>2, <1>4 DEF SchedulesInv, SchedulesTypeOK, SyncAgain, Syncing
<1>6. ClaimsHold' BY DEF SchedulesInv, ClaimsHold, SyncAgain
<1>7. KeyedBySlot' BY <1>1 DEF SchedulesInv, KeyedBySlot, SyncAgain
<1>8. JobFollows'
  <2>1. \A r \in Syncers : sync'[r].pc = "write" => sync'[r].due <= now + Period
    BY <1>2, IdleSyncIs DEF SchedulesInv, JobFollows
  <2> QED BY <1>3, <2>1 DEF SchedulesInv, JobFollows, SyncAgain
<1> QED BY <1>5, <1>6, <1>7, <1>8 DEF SchedulesInv

LEMMA ClaimStep == ASSUME SchedulesInv, NEW w \in Replicas, Claim(w) PROVE SchedulesInv'
<1>1. /\ Held(job') /\ job' # NoJob /\ job'.id = job.id
      /\ job'.due = job.due /\ job'.slot = job.slot /\ job # NoJob
  BY LeaseIs DEF Claim
<1> DEFINE c == [pc |-> "read", job |-> job', at |-> 1]
<1>2. Sound(c) /\ c.job = job'
  BY <1>1, ScheduleConstants DEF Sound, HasClaim, Claimer, Held
<1>3. claimer' = [claimer EXCEPT ![w] = c] BY DEF Claim
<1> HIDE DEF c
<1>4. /\ claimer' \in [Replicas -> Claimer]
      /\ \A v \in Replicas : Sound(claimer'[v])
      /\ claimer'[w] = c /\ \A v \in Replicas : v # w => claimer'[v] = claimer[v]
  BY <1>2, <1>3, ClaimersSound
<1>5. SchedulesTypeOK' BY <1>1, <1>4 DEF SchedulesInv, SchedulesTypeOK, Claim, Held, Claimer
<1>6. ClaimsHold' BY <1>1, <1>4 DEF ClaimsHold, Held, Sound
<1>7. KeyedBySlot' BY <1>1, <1>2, <1>4 DEF SchedulesInv, KeyedBySlot, Claim
<1>8. JobFollows' BY <1>1 DEF SchedulesInv, JobFollows, Claim
<1> QED BY <1>5, <1>6, <1>7, <1>8 DEF SchedulesInv

LEMMA ReadConfigStep ==
  ASSUME SchedulesInv, NEW w \in Replicas, ReadConfig(w) PROVE SchedulesInv'
<1> DEFINE c == [claimer[w] EXCEPT !.pc = IF on THEN "run" ELSE "remove"]
<1>1. claimer[w] \in Claimer /\ claimer[w].job.id # 0 /\ claimer[w].at # 0
  BY DEF SchedulesInv, SchedulesTypeOK, ClaimsHold, HasClaim, IdleWorker, ReadConfig, Claimer
<1>2. Sound(c) /\ c.job = claimer[w].job BY <1>1 DEF Sound, HasClaim, Claimer
<1>3. claimer' = [claimer EXCEPT ![w] = c] BY DEF ReadConfig
<1> HIDE DEF c
<1>4. /\ claimer' \in [Replicas -> Claimer]
      /\ \A v \in Replicas : Sound(claimer'[v])
      /\ claimer'[w] = c /\ \A v \in Replicas : v # w => claimer'[v] = claimer[v]
  BY <1>2, <1>3, ClaimersSound
<1>5. SchedulesTypeOK' BY <1>4 DEF SchedulesInv, SchedulesTypeOK, ReadConfig, Claimer
<1>6. ClaimsHold' BY <1>4 DEF SchedulesInv, ClaimsHold, ReadConfig, Sound
<1>7. KeyedBySlot' BY <1>2, <1>4 DEF SchedulesInv, KeyedBySlot, ReadConfig
<1>8. JobFollows' BY DEF SchedulesInv, JobFollows, ReadConfig
<1> QED BY <1>5, <1>6, <1>7, <1>8 DEF SchedulesInv

LEMMA RunRecordStep ==
  ASSUME SchedulesInv, NEW w \in Replicas, RunRecord(w) PROVE SchedulesInv'
<1> DEFINE c    == [claimer[w] EXCEPT !.at = @ + 1]
           due  == claimer[w].job.due
           time == claimer[w].job.slot
           at   == claimer[w].at
<1>1. /\ claimer[w] \in Claimer /\ claimer[w].job.id # 0 /\ at # 0
      /\ claimer[w].pc # "idle" /\ at <= NumRecords
  BY DEF SchedulesInv, SchedulesTypeOK, ClaimsHold, HasClaim, IdleWorker, RunRecord, Claimer
<1>2. at \in Records /\ due \in Times /\ time \in Times
  BY <1>1, ScheduleConstants DEF Claimer, Job, Records
<1>3. Sound(c) /\ c.job = claimer[w].job
  BY <1>1, ScheduleConstants DEF Sound, HasClaim, Claimer
<1>4. claimer' = [claimer EXCEPT ![w] = c] BY DEF RunRecord
<1> HIDE DEF c
<1>5. /\ claimer' \in [Replicas -> Claimer]
      /\ \A v \in Replicas : Sound(claimer'[v])
      /\ claimer'[w] = c /\ \A v \in Replicas : v # w => claimer'[v] = claimer[v]
  BY <1>3, <1>4, ClaimersSound
<1>6. /\ keyed' = keyed \union {<<due, at>>}
      /\ worked' = IF <<due, at>> \in keyed THEN worked
                   ELSE [worked EXCEPT ![time][at] = @ + 1]
      /\ UNCHANGED <<now, on, unsynced, sync, job, lastId, counts, removedLate>>
  BY DEF RunRecord, RunKey
<1>7. worked \in [Times -> [Records -> Nat]] /\ keyed \subseteq Times \X Records
  BY DEF SchedulesInv, SchedulesTypeOK
<1> HIDE DEF due, time, at
<1>8. worked' \in [Times -> [Records -> Nat]] /\ keyed' \subseteq Times \X Records
  BY <1>2, <1>6, <1>7
<1>9. SchedulesTypeOK' BY <1>5, <1>6, <1>8 DEF SchedulesInv, SchedulesTypeOK, Claimer
<1>10. ClaimsHold' BY <1>5, <1>6 DEF SchedulesInv, ClaimsHold, Sound
<1>11. KeyedBySlot'
  <2> SUFFICES ASSUME counts.failures = 0
               PROVE  /\ job.due = job.slot
                      /\ \A v \in Replicas : claimer'[v].job.due = claimer'[v].job.slot
                      /\ \A s \in Times, r \in Records :
                            worked'[s][r] = IF <<s, r>> \in keyed' THEN 1 ELSE 0
    BY <1>6 DEF KeyedBySlot
  <2>1. /\ job.due = job.slot
        /\ \A v \in Replicas : claimer[v].job.due = claimer[v].job.slot
        /\ \A s \in Times, r \in Records : worked[s][r] = IF <<s, r>> \in keyed THEN 1 ELSE 0
    BY DEF SchedulesInv, KeyedBySlot
  <2>2. \A v \in Replicas : claimer'[v].job.due = claimer'[v].job.slot
    BY <1>3, <1>5, <2>1
  <2>3. due = time BY <2>1 DEF due, time
  <2>4. ASSUME NEW s \in Times, NEW r \in Records
        PROVE  worked'[s][r] = IF <<s, r>> \in keyed' THEN 1 ELSE 0
    <3>1. worked[s][r] = IF <<s, r>> \in keyed THEN 1 ELSE 0 BY <2>1
    <3>2. CASE <<due, at>> \in keyed BY <1>6, <3>1, <3>2
    <3>3. CASE <<due, at>> \notin keyed /\ s = due /\ r = at
      <4>1. worked'[s][r] = worked[s][r] + 1 BY <1>2, <1>6, <1>7, <2>3, <3>3
      <4> QED BY <1>6, <3>1, <3>3, <4>1
    <3>4. CASE <<due, at>> \notin keyed /\ ~(s = due /\ r = at)
      <4>1. worked'[s][r] = worked[s][r] BY <1>2, <1>6, <1>7, <2>3, <3>4
      <4>2. <<s, r>> \in keyed' <=> <<s, r>> \in keyed BY <1>6, <3>4
      <4> QED BY <3>1, <4>1, <4>2
    <3> QED BY <3>2, <3>3, <3>4
  <2> QED BY <2>1, <2>2, <2>4
<1>12. JobFollows' BY <1>6 DEF SchedulesInv, JobFollows
<1> QED BY <1>9, <1>10, <1>11, <1>12 DEF SchedulesInv

LEMMA BookNextStep ==
  ASSUME SchedulesInv, NEW w \in Replicas, BookNext(w) PROVE SchedulesInv'
<1>1. NextRun(now) \in Times /\ NextRun(now) <= now + Period
  BY NextRunIsNear DEF SchedulesInv, SchedulesTypeOK
<1>2. /\ job' \in Job /\ lastId' \in Nat /\ job'.id # 0 /\ job' # NoJob
      /\ job'.due = NextRun(now) /\ job'.slot = NextRun(now) /\ removedLate' \in BOOLEAN
  BY <1>1, PutIs DEF BookNext
<1>3. /\ claimer' \in [Replicas -> Claimer]
      /\ \A v \in Replicas : Sound(claimer'[v])
      /\ claimer'[w] = IdleWorker /\ \A v \in Replicas : v # w => claimer'[v] = claimer[v]
  BY IdleIsSound, ClaimersSound DEF BookNext
<1>4. SchedulesTypeOK' BY <1>2, <1>3 DEF SchedulesInv, SchedulesTypeOK, BookNext, Claimer
<1>5. ClaimsHold' BY <1>2, <1>3 DEF ClaimsHold, Sound
<1>6. KeyedBySlot'
  BY <1>2, <1>3, IdleIsSound, NoJobIs DEF SchedulesInv, KeyedBySlot, BookNext
<1>7. JobFollows' BY <1>1, <1>2 DEF SchedulesInv, JobFollows, BookNext
<1> QED BY <1>4, <1>5, <1>6, <1>7 DEF SchedulesInv

LEMMA RemoveJobStep ==
  ASSUME SchedulesInv, NEW w \in Replicas, RemoveJob(w) PROVE SchedulesInv'
<1>1. /\ claimer' \in [Replicas -> Claimer]
      /\ \A v \in Replicas : Sound(claimer'[v])
      /\ claimer'[w] = IdleWorker /\ \A v \in Replicas : v # w => claimer'[v] = claimer[v]
  BY IdleIsSound, ClaimersSound DEF RemoveJob
<1>2. /\ job' = NoJob /\ UNCHANGED lastId
      /\ removedLate' = (removedLate \/ (on /\ job # NoJob)) /\ removedLate' \in BOOLEAN
  BY DEF RemoveJob, DropJob
<1>3. SchedulesTypeOK'
  BY <1>1, <1>2, NoJobIs DEF SchedulesInv, SchedulesTypeOK, RemoveJob, Claimer
<1>4. ClaimsHold' BY <1>1, <1>2 DEF ClaimsHold, Sound
<1>5. KeyedBySlot'
  BY <1>1, <1>2, IdleIsSound, NoJobIs DEF SchedulesInv, KeyedBySlot, RemoveJob
<1>6. JobFollows'
  <2>1. on /\ ~removedLate' => job = NoJob /\ ~removedLate BY <1>2
  <2> QED BY <1>2, <2>1 DEF SchedulesInv, JobFollows, RemoveJob
<1> QED BY <1>3, <1>4, <1>5, <1>6 DEF SchedulesInv

LEMMA ExecutionThrowsStep ==
  ASSUME SchedulesInv, NEW w \in Replicas, ExecutionThrows(w) PROVE SchedulesInv'
<1>1. /\ claimer' \in [Replicas -> Claimer]
      /\ \A v \in Replicas : Sound(claimer'[v])
  BY IdleIsSound, ClaimersSound DEF ExecutionThrows
<1>2. /\ Held(job') /\ UNCHANGED lastId /\ (job' = NoJob <=> job = NoJob)
      /\ job' = job \/ job'.due = now + Backoff
  BY RetryIs DEF ExecutionThrows
<1>3. /\ counts' \in [publishes : 0..MaxPublishes, failures : 0..MaxFailures,
                      faults : 0..MaxStops]
      /\ counts'.failures # 0 /\ counts'.publishes = counts.publishes
      /\ counts'.faults = counts.faults
  BY CountsKept DEF ExecutionThrows
<1>4. now \in Nat /\ Backoff \in Nat
  BY ScheduleConstants DEF SchedulesInv, SchedulesTypeOK
<1>5. SchedulesTypeOK'
  BY <1>1, <1>2, <1>3 DEF SchedulesInv, SchedulesTypeOK, ExecutionThrows, Claimer, Held
<1>6. ClaimsHold' BY <1>1, <1>2 DEF ClaimsHold, Sound, Held
<1>7. KeyedBySlot' BY <1>3 DEF KeyedBySlot
<1>8. JobFollows'
  <2>1. job' # NoJob => job'.due <= now + Period \/ job'.due <= now + Backoff
    BY <1>2, <1>4 DEF SchedulesInv, JobFollows
  <2> QED BY <1>2, <1>3, <2>1 DEF SchedulesInv, JobFollows, ExecutionThrows
<1> QED BY <1>5, <1>6, <1>7, <1>8 DEF SchedulesInv

LEMMA StopsStep ==
  ASSUME SchedulesInv, NEW w \in Replicas, Stops(w) PROVE SchedulesInv'
<1>1. /\ claimer' \in [Replicas -> Claimer]
      /\ \A v \in Replicas : Sound(claimer'[v])
      /\ claimer'[w] = IdleWorker /\ \A v \in Replicas : v # w => claimer'[v] = claimer[v]
  BY IdleIsSound, ClaimersSound DEF Stops
<1>2. /\ Held(job') /\ (job' = NoJob <=> job = NoJob)
      /\ job'.due = job.due /\ job'.slot = job.slot
  <2>1. CASE job.id = claimer[w].job.id
    <3>1. job # NoJob
      BY <2>1, NoJobIs DEF SchedulesInv, ClaimsHold, HasClaim, Stops
    <3> QED BY <2>1, <3>1, LeaseIs DEF Stops
  <2>2. CASE job.id # claimer[w].job.id
    BY <2>2 DEF Stops, Held, SchedulesInv, SchedulesTypeOK, ClaimsHold
  <2> QED BY <2>1, <2>2
<1>3. /\ counts' \in [publishes : 0..MaxPublishes, failures : 0..MaxFailures,
                      faults : 0..MaxStops]
      /\ counts'.failures = counts.failures /\ counts'.publishes = counts.publishes
      /\ counts'.faults = counts.faults + 1 /\ {counts.publishes, counts.faults} \subseteq Nat
  BY CountsKept DEF Stops
<1>4. SchedulesTypeOK'
  BY <1>1, <1>2, <1>3 DEF SchedulesInv, SchedulesTypeOK, Stops, Claimer, Held
<1>5. ClaimsHold' BY <1>1, <1>2 DEF ClaimsHold, Sound, Held
<1>6. KeyedBySlot'
  BY <1>1, <1>2, <1>3, IdleIsSound, NoJobIs DEF SchedulesInv, KeyedBySlot, Stops
<1>7. JobFollows' BY <1>2, <1>3 DEF SchedulesInv, SchedulesTypeOK, JobFollows, Stops
<1> QED BY <1>4, <1>5, <1>6, <1>7 DEF SchedulesInv

LEMMA SchedulesStep == SchedulesInv /\ [SchedulesNext]_scheduleVars => SchedulesInv'
<1> SUFFICES ASSUME SchedulesInv, [SchedulesNext]_scheduleVars PROVE SchedulesInv'
  OBVIOUS
<1>1. CASE UNCHANGED scheduleVars
  BY <1>1 DEF SchedulesInv, SchedulesTypeOK, ClaimsHold, KeyedBySlot, JobFollows, scheduleVars
<1>2. CASE Tick \/ JobLeaseEnds \/ Publish
  BY <1>2, TickStep, JobLeaseEndsStep, PublishStep
<1>4. ASSUME NEW s \in Syncers, SyncRead(s) \/ SyncList(s) \/ SyncWrite(s) \/ SyncAgain(s)
      PROVE  SchedulesInv'
  BY <1>4, SyncReadStep, SyncListStep, SyncWriteStep, SyncAgainStep
<1>3. ASSUME NEW w \in Replicas,
             Claim(w) \/ ScheduleWorks(w) \/ ExecutionThrows(w) \/ Stops(w)
      PROVE  SchedulesInv'
  BY <1>3, ClaimStep, ReadConfigStep, RunRecordStep, BookNextStep, RemoveJobStep,
     ExecutionThrowsStep, StopsStep DEF ScheduleWorks
<1> QED BY <1>1, <1>2, <1>3, <1>4 DEF SchedulesNext

LEMMA SchedulesPromise == SchedulesInv => SchedulesAreKept
<1> SUFFICES ASSUME SchedulesInv PROVE OncePerSlot /\ ScheduleKept BY DEF SchedulesAreKept
<1>1. OncePerSlot
  <2> SUFFICES ASSUME counts.failures = 0, NEW s \in Times, NEW r \in Records
               PROVE  worked[s][r] <= 1
    BY DEF OncePerSlot
  <2>1. worked[s][r] = IF <<s, r>> \in keyed THEN 1 ELSE 0 BY DEF SchedulesInv, KeyedBySlot
  <2> QED BY <2>1
<1>2. ScheduleKept
  BY IdleSyncIs DEF SchedulesInv, JobFollows, ScheduleKept, AllAtRest, WillPut
<1> QED BY <1>1, <1>2

\* A scheduled automation runs at most once for a record and a scheduled time while no
\* execution threw, and has its job when everything is at rest, unless one that had read
\* it switched off removed the job late: whatever replicas, leases that end early,
\* crashes, publishes and the syncs they start do in between.
THEOREM SchedulesAreAlwaysKept == SchedulesSpec => []SchedulesAreKept
<1>1. SchedulesInit => SchedulesInv BY SchedulesBegin
<1>2. SchedulesInv /\ [SchedulesNext]_scheduleVars => SchedulesInv' BY SchedulesStep
<1>3. SchedulesInv => SchedulesAreKept BY SchedulesPromise
<1> QED BY <1>1, <1>2, <1>3, PTL DEF SchedulesSpec
=============================================================================
