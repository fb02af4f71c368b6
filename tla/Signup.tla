------------------------------- MODULE Signup -------------------------------
(***************************************************************************)
(* The sign-up saga of tenant-service (tenants.service.ts): the tenant is  *)
(* stored with its company URL, three services set up their part one after *)
(* the other, and the tenant becomes active; when a step fails, what was   *)
(* completed is undone in reverse and the tenant is marked failed.  The    *)
(* saga lives in one request: nobody resumes it when the process stops.    *)
(***************************************************************************)
EXTENDS Naturals, Sequences, FiniteSets

CONSTANTS
    Tenants,     \* sign-ups, all for one company URL
    NoTenant     \* nobody holds the URL

ASSUME SignupAssumption == NoTenant \notin Tenants

VARIABLES
    status,      \* tenants.status, "none" before the tenant is stored
    slug,        \* the tenant that holds the URL
    made,        \* the parts of each tenant that exist in the other services
    saga,        \* the request of each sign-up: what it does and has completed
    astray       \* history: sign-ups with a lost answer, a failed undo or a crash

signupVars == <<status, slug, made, saga, astray>>

SagaSteps == <<"org", "identity", "access">>
TenantParts == {SagaSteps[i] : i \in 1..Len(SagaSteps)}

SignupInit ==
    /\ status = [t \in Tenants |-> "none"]
    /\ slug = NoTenant
    /\ made = [t \in Tenants |-> {}]
    /\ saga = [t \in Tenants |-> [pc |-> "idle", completed |-> 0]]
    /\ astray = {}

\* The unique index on the URL decides between two sign-ups.
StoreTenant(t) ==
    /\ status[t] = "none"
    /\ slug = NoTenant
    /\ slug' = t
    /\ status' = [status EXCEPT ![t] = "provisioning"]
    /\ saga' = [saga EXCEPT ![t].pc = "provision"]
    /\ UNCHANGED <<made, astray>>

Fails(t) == saga' = [saga EXCEPT ![t].pc = "compensate"]

\* The next step: done and answered, refused, or done with the answer lost.
RunStep(t) ==
    LET n == saga[t].completed + 1 IN
    /\ saga[t].pc = "provision"
    /\ n <= Len(SagaSteps)
    /\ \/ /\ made' = [made EXCEPT ![t] = @ \cup {SagaSteps[n]}]
          /\ saga' = [saga EXCEPT ![t].completed = n]
          /\ UNCHANGED astray
       \/ Fails(t) /\ UNCHANGED <<made, astray>>
       \/ /\ made' = [made EXCEPT ![t] = @ \cup {SagaSteps[n]}]
          /\ astray' = astray \cup {t}
          /\ Fails(t)
    /\ UNCHANGED <<status, slug>>

\* All steps are done: the tenant becomes active, or that transaction fails.
Activate(t) ==
    /\ saga[t].pc = "provision"
    /\ saga[t].completed = Len(SagaSteps)
    /\ \/ /\ status' = [status EXCEPT ![t] = "active"]
          /\ saga' = [saga EXCEPT ![t].pc = "done"]
       \/ Fails(t) /\ UNCHANGED status
    /\ UNCHANGED <<slug, made, astray>>

\* The last completed step is undone; an undo that fails is logged and left.
Undo(t) ==
    /\ saga[t].pc = "compensate"
    /\ saga[t].completed > 0
    /\ saga' = [saga EXCEPT ![t].completed = @ - 1]
    /\ \/ /\ made' = [made EXCEPT ![t] = @ \ {SagaSteps[saga[t].completed]}]
          /\ UNCHANGED astray
       \/ astray' = astray \cup {t} /\ UNCHANGED made
    /\ UNCHANGED <<status, slug>>

MarkFailed(t) ==
    /\ saga[t].pc = "compensate"
    /\ saga[t].completed = 0
    /\ status' = [status EXCEPT ![t] = "failed"]
    /\ slug' = NoTenant
    /\ saga' = [saga EXCEPT ![t].pc = "done"]
    /\ UNCHANGED <<made, astray>>

\* The process stops: what was stored stays, and the URL stays taken.
SagaCrash(t) ==
    /\ saga[t].pc \in {"provision", "compensate"}
    /\ saga' = [saga EXCEPT ![t].pc = "done"]
    /\ astray' = astray \cup {t}
    /\ UNCHANGED <<status, slug, made>>

SetTenantStatusIf(t, to, allowed) ==
    /\ status[t] \in allowed
    /\ status[t] # to
    /\ status' = [status EXCEPT ![t] = to]
    /\ UNCHANGED <<slug, made, saga, astray>>

\* Mutant: any tenant may be suspended or activated.
SetAnyTenantStatus(t, to) == SetTenantStatusIf(t, to, {"provisioning", "failed", "active", "suspended"})

\* The platform suspends an active tenant and takes the suspension back.
SetTenantStatus(t, to) == SetTenantStatusIf(t, to, {"active", "suspended"})

SignupNext ==
    \E t \in Tenants :
        \/ StoreTenant(t) \/ RunStep(t) \/ Activate(t) \/ Undo(t) \/ MarkFailed(t) \/ SagaCrash(t)
        \/ \E to \in {"active", "suspended"} : SetTenantStatus(t, to)

SignupSpec == SignupInit /\ [][SignupNext]_signupVars

-----------------------------------------------------------------------------
SignupTypeOK ==
    /\ status \in [Tenants -> {"none", "provisioning", "active", "suspended", "failed"}]
    /\ slug \in Tenants \cup {NoTenant}
    /\ made \in [Tenants -> SUBSET TenantParts]
    /\ saga \in [Tenants -> [pc : {"idle", "provision", "compensate", "done"},
                             completed : 0..Len(SagaSteps)]]

\* A company that can be used is set up in every service and holds its URL.  A failed
\* one gave its URL back and, unless an answer or an undo was lost, left nothing behind.
SignupAllOrNothing ==
    \A t \in Tenants :
        /\ status[t] \in {"active", "suspended"} => made[t] = TenantParts /\ slug = t
        /\ status[t] = "failed" => slug # t /\ (t \notin astray => made[t] = {})
=============================================================================
