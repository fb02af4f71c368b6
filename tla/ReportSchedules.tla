-------------------------- MODULE ReportSchedules --------------------------
(***************************************************************************)
(* One schedule of a report (schedules.service.ts of reporting-service):   *)
(* the owner changes or removes it while workers in several replicas send  *)
(* what is due.  A worker leases the schedule, sends one mail transaction  *)
(* per group of recipients, and then writes the next due time, computed    *)
(* from the settings it read when it took the schedule.                    *)
(***************************************************************************)
EXTENDS Naturals, FiniteSets

CONSTANTS
    Senders,       \* workers of all replicas
    Groups,        \* recipients with the same access
    MaxEdits,      \* bound: changes by the owner
    MaxSlot        \* bound: the time, in scheduled slots

VARIABLES
    schedule,      \* the report_schedules row
    slot,          \* the present time
    senders,       \* what each worker has taken
    mailed,        \* history: <<due time, group>> -> mails sent, up to two
    troubled,      \* history: due times with an outlived lease or a crash
    raced          \* history: a change was made while a worker was at it

reportVars == <<schedule, slot, senders, mailed, troubled, raced>>

NotSending == [pc |-> "free"]
Settings == 0..MaxEdits
Slots == 1..MaxSlot

ReportsInit ==
    /\ schedule = [stored |-> TRUE, active |-> TRUE, settings |-> 0, next |-> 1, by |-> 0,
                   lease |-> "none"]
    /\ slot = 1
    /\ senders = [w \in Senders |-> NotSending]
    /\ mailed = [m \in Slots \X Groups |-> 0]
    /\ troubled = {}
    /\ raced = FALSE

BusySenders == {w \in Senders : senders[w] # NotSending}
\* Settings agree on when a slot is, or a change asks for the slot after the present one.
NextSlot == slot + 1

\* update() writes the settings and the due time they give; remove() deletes the row.
EditSchedule(active) ==
    /\ schedule.stored
    /\ schedule.settings < MaxEdits
    /\ schedule' = [schedule EXCEPT !.settings = @ + 1, !.active = active,
                                    !.next = NextSlot, !.by = schedule.settings + 1]
    /\ raced' = (raced \/ BusySenders # {})
    /\ UNCHANGED <<slot, senders, mailed, troubled>>

RemoveSchedule ==
    /\ schedule.stored
    /\ schedule' = [schedule EXCEPT !.stored = FALSE]
    /\ UNCHANGED <<slot, senders, mailed, troubled, raced>>

LeaseIf(w, free) ==
    /\ schedule.stored /\ schedule.active
    /\ schedule.next <= slot
    /\ free
    /\ senders[w] = NotSending
    /\ senders' = [senders EXCEPT ![w] = [pc |-> "send", due |-> schedule.next,
                                          settings |-> schedule.settings, rest |-> Groups]]
    /\ schedule' = [schedule EXCEPT !.lease = "held"]
    /\ UNCHANGED <<slot, mailed, troubled, raced>>

\* Mutant: the lease is set but not looked at.
LeaseAnyway(w) == LeaseIf(w, TRUE)

\* runNext: an active schedule that is due and that nobody has, or had for too long.
LeaseSchedule(w) == LeaseIf(w, schedule.lease # "held")

\* One transaction sends the mails of a group, or it has nothing to send.
SendGroup(w, g) ==
    /\ senders[w].pc = "send" /\ g \in senders[w].rest
    /\ senders' = [senders EXCEPT ![w].rest = @ \ {g}]
    /\ \/ mailed' = [mailed EXCEPT ![<<senders[w].due, g>>] = IF @ = 2 THEN 2 ELSE @ + 1]
       \/ UNCHANGED mailed
    /\ UNCHANGED <<schedule, slot, troubled, raced>>

\* Everything is sent, or an error ends the run: either way it is the last of this due
\* time.  Nothing is written for a schedule that was removed.
FinishSchedule(w) ==
    /\ senders[w].pc = "send"
    /\ schedule' = IF schedule.stored
                   THEN [schedule EXCEPT !.lease = "none", !.next = NextSlot,
                                         !.by = senders[w].settings]
                   ELSE schedule
    /\ senders' = [senders EXCEPT ![w] = NotSending]
    /\ UNCHANGED <<slot, mailed, troubled, raced>>

TimePasses ==
    /\ slot < MaxSlot
    /\ slot' = slot + 1
    /\ UNCHANGED <<schedule, senders, mailed, troubled, raced>>

ReportLeaseEnds ==
    /\ schedule.lease = "held"
    /\ schedule' = [schedule EXCEPT !.lease = "over"]
    /\ troubled' = troubled \cup {senders[w].due : w \in BusySenders}
    /\ UNCHANGED <<slot, senders, mailed, raced>>

SenderCrash(w) ==
    /\ senders[w] # NotSending
    /\ troubled' = troubled \cup {senders[w].due}
    /\ senders' = [senders EXCEPT ![w] = NotSending]
    /\ UNCHANGED <<schedule, slot, mailed, raced>>

ReportsNext ==
    \/ \E active \in BOOLEAN : EditSchedule(active)
    \/ RemoveSchedule \/ TimePasses \/ ReportLeaseEnds
    \/ \E w \in Senders :
        \/ LeaseSchedule(w) \/ FinishSchedule(w) \/ SenderCrash(w)
        \/ \E g \in Groups : SendGroup(w, g)

ReportsSpec == ReportsInit /\ [][ReportsNext]_reportVars

-----------------------------------------------------------------------------
ReportsTypeOK ==
    /\ schedule.settings \in Settings /\ schedule.by \in Settings
    /\ schedule.next \in 1..(MaxSlot + 1)
    /\ schedule.lease \in {"none", "held", "over"}

\* A group gets at most one mail for one due time, unless a worker crashed on it or
\* outlived its lease, and the due time comes from the present settings unless the owner
\* changed them while a worker was sending (then the old ones give it).
SentAsScheduled ==
    /\ \A m \in DOMAIN mailed : m[1] \notin troubled => mailed[m] <= 1
    /\ ~raced => schedule.by = schedule.settings
=============================================================================
