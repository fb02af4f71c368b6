----------------------------- MODULE MCServices -----------------------------
(***************************************************************************)
(* Parts of several services that share no state, in one run.  A behaviour *)
(* belongs to one part; the others stay where they begin.  Small sets of   *)
(* things that are alike are shared by the parts.                          *)
(***************************************************************************)
EXTENDS AutomationRuns, Schedules, AuditChain, RecordWrites, Services

CONSTANTS
    p1, p2,        \* two requests, replicas, workers, clients, events or identifiers
    h1, h2, h3,    \* two handlers; three tenants
    x1, x2,        \* two values, sessions, users, jobs or groups
    y1, y2,        \* two identifiers of roles
    key

Pair == {p1, p2}
Three == {h1, h2, h3}
Things == {x1, x2}
Others == {y1, y2}
Key == {key}
OneWay == Pair \X {"timer"}

VARIABLE part

PartNames == {"automation", "audit", "records", "sessions", "codes", "signup", "access",
       "exports", "reports", "notify", "browser", "schedules", "samples"}

\* The sessions are those of a browser, or of any clients.
SessionsInit ==
    \/ part # "sessions" /\ BrowserInit
    \/ part = "sessions" /\ AuthInit /\ jar = NoCookie /\ screen = [t \in Tabs |-> Gone]
       /\ asked = [c \in Clients |-> "none"] /\ answers = [c \in Clients |-> NoAnswer]
       /\ mine = Gone /\ overlapped = {"login"} /\ troubles = 0

\* The administrator that is there first matters only to the roles.
RolesInit ==
    \/ part = "access" /\ AccessInit
    \/ part # "access" /\ roles = [r \in {} |-> Nothing] /\ grants = {} /\ crossed = TRUE
                       /\ asks = [a \in Admins |-> Nothing]

ServicesInit ==
    /\ part \in PartNames
    /\ Init /\ AuditInit /\ RecordsInit /\ SessionsInit /\ CodesInit /\ SignupInit /\ RolesInit
    /\ ExportsInit /\ ReportsInit /\ NotifyInit /\ SchedulesInit /\ SamplesInit

Only(this) ==
    /\ UNCHANGED part
    /\ this # "automation" => UNCHANGED vars
    /\ this # "audit" => UNCHANGED auditVars
    /\ this # "records" => UNCHANGED recordsVars
    /\ this \notin {"sessions", "browser"} => UNCHANGED authVars
    /\ this # "codes" => UNCHANGED codeVars
    /\ this # "signup" => UNCHANGED signupVars
    /\ this # "access" => UNCHANGED accessVars
    /\ this # "exports" => UNCHANGED exportVars
    /\ this # "reports" => UNCHANGED reportVars
    /\ this # "notify" => UNCHANGED notifyVars
    /\ this # "browser" => UNCHANGED browserVars
    /\ this # "schedules" => UNCHANGED scheduleVars
    /\ this # "samples" => UNCHANGED sampleVars

\* Of workers that are alike, one that begins while both are free is the first.  One thing
\* goes wrong with a schedule: an execution throws, or a lease, a process or a delivery fails.
FirstFree(are, next, free) == are[p1] = free /\ are[p2] = free => next[p2] = free
ScheduleBounds ==
    /\ FirstFree(claimer, claimer', IdleWorker) /\ FirstFree(sync, sync', IdleSync)
    /\ counts'.failures + counts'.faults <= 1

\* Of roles after commands on one role have crossed only the keys are promised: the step
\* that lets them cross is the last one.
AccessBounds == ~crossed

\* One due time of a report is troubled by outlived leases and crashes.
ReportBounds == Cardinality(troubled') <= 1

\* In a browser two exchanges are enough, sessions are alike and so used in order, and the
\* first trouble is the last step: nothing is promised of the cookie after it.
BrowserBounds ==
    /\ troubles = 0
    /\ sessions'[x1] = Gone => sessions'[x2] = Gone
    /\ \A s, r \in Sids : s # r => Len(exchanged'[s]) + Len(exchanged'[r]) <= 2

ServicesNext ==
    \/ part = "automation" /\ Next /\ Only(part)
    \/ part = "audit" /\ AuditNext /\ Only(part)
    \/ part = "records" /\ RecordsNext /\ Only(part)
    \/ part = "sessions" /\ AuthNext /\ Only(part)
    \/ part = "codes" /\ CodesNext /\ Only(part)
    \/ part = "signup" /\ SignupNext /\ Only(part)
    \/ part = "access" /\ AccessNext /\ AccessBounds /\ Only(part)
    \/ part = "exports" /\ ExportsNext /\ Only(part)
    \/ part = "reports" /\ ReportsNext /\ ReportBounds /\ Only(part)
    \/ part = "notify" /\ NotifyNext /\ Only(part)
    \/ part = "browser" /\ BrowserNext /\ BrowserBounds /\ Only(part)
    \/ part = "schedules" /\ SchedulesNext /\ ScheduleBounds /\ Only(part)
    \/ part = "samples" /\ SamplesNext /\ Only(part)

servicesVars == <<part, vars, auditVars, recordsVars, authVars, codeVars, signupVars,
       accessVars, exportVars, reportVars, notifyVars, browserVars, scheduleVars,
       sampleVars>>
ServicesSpec == ServicesInit /\ [][ServicesNext]_servicesVars

-----------------------------------------------------------------------------
\* The parts keep their types.
ServicesTypeOK ==
    /\ part = "automation" => TypeOK
    /\ part = "audit" => AuditTypeOK
    /\ part = "records" => RecordsTypeOK
    /\ part = "sessions" => AuthTypeOK
    /\ part = "codes" => CodesTypeOK
    /\ part = "signup" => SignupTypeOK
    /\ part = "access" => AccessTypeOK
    /\ part = "exports" => ExportsTypeOK
    /\ part = "reports" => ReportsTypeOK
    /\ part = "notify" => NotifyTypeOK
    /\ part = "browser" => AuthTypeOK /\ BrowserTypeOK
    /\ part = "schedules" => SchedulesTypeOK
    /\ part = "samples" => SamplesTypeOK
=============================================================================
