-------------------------- MODULE RoleAssignments --------------------------
(***************************************************************************)
(* Roles and their assignments (access.service.ts).  Each command reads    *)
(* what it checks, asks other services, and writes in a transaction that   *)
(* looks at nothing again; unique indexes keep one role per pack key and   *)
(* one assignment per user, role and unit.                                 *)
(***************************************************************************)
EXTENDS Naturals, FiniteSets

CONSTANTS
    Admins,      \* requests in flight at one time
    Users,
    Top, Below,  \* the company's root unit and one below it
    RoleKeys,    \* keys of pack roles
    RoleIds,     \* identifiers of the roles besides tenant_admin
    TenantAdmin, \* the system role
    MaxGrants,   \* bound: assignments at one time
    Nothing      \* no role, no request

VARIABLES
    roles,       \* role id -> the pack key of the role, or Nothing
    grants,      \* assignments: <<user, role, unit>>
    asks,        \* what each request in flight has read
    crossed      \* history: two commands that check what the other writes overlapped

accessVars == <<roles, grants, asks, crossed>>

Units == {Top, Below}

\* bootstrap: the system role and the first administrator.
AccessInit ==
    /\ roles = [r \in {TenantAdmin} |-> Nothing]
    /\ \E u \in Users : grants = {<<u, TenantAdmin, Top>>}
    /\ asks = [a \in Admins |-> Nothing]
    /\ crossed = FALSE

Stored == DOMAIN roles
Granted(role) == {g \in grants : g[2] = role}
InFlight == {asks[a] : a \in Admins} \ {Nothing}

\* A command has made its checks; it overlaps those that touch the same role.
Checked(a, command) ==
    /\ asks[a] = Nothing
    /\ asks' = [asks EXCEPT ![a] = command]
    /\ crossed' = (crossed \/ \E other \in InFlight :
                      /\ {command.op, other.op} \cap {"delete", "remove"} # {}
                      /\ other.role = command.role)
    /\ UNCHANGED <<roles, grants>>
Over(a) == asks' = [asks EXCEPT ![a] = Nothing] /\ UNCHANGED crossed
Refused(a) == Over(a) /\ UNCHANGED <<roles, grants>>

-----------------------------------------------------------------------------
\* createRole, and ensurePackRole for a key that no role has yet.
CreateRole(a, role, key) ==
    /\ role \notin Stored
    /\ key # Nothing => \A r \in Stored : roles[r] # key
    /\ Checked(a, [op |-> "role", role |-> role, key |-> key])

\* A second role of one key is refused by the index, under its other name too.
CommitRole(a) ==
    LET c == asks[a] IN
    /\ c # Nothing /\ c.op = "role"
    /\ IF c.role \notin Stored /\ (c.key # Nothing => \A r \in Stored : roles[r] # c.key)
       THEN /\ roles' = [r \in Stored \cup {c.role} |-> IF r = c.role THEN c.key ELSE roles[r]]
            /\ Over(a)
            /\ UNCHANGED grants
       ELSE Refused(a)

DeleteRoleIf(a, role, unused(_)) ==
    /\ role \in Stored \ {TenantAdmin}
    /\ unused(role)
    /\ Checked(a, [op |-> "delete", role |-> role])

\* Mutant: a role may be deleted while nobody holds it in the top unit.
DeleteRoleUnheldOnTop(a, role) ==
    DeleteRoleIf(a, role, LAMBDA r : \A u \in Users : <<u, r, Top>> \notin grants)

\* A role that somebody holds, or a system role, cannot be deleted.
DeleteRole(a, role) == DeleteRoleIf(a, role, LAMBDA r : Granted(r) = {})

CommitDeleteRole(a) ==
    LET c == asks[a] IN
    /\ c # Nothing /\ c.op = "delete"
    /\ roles' = [r \in Stored \ {c.role} |-> roles[r]]
    /\ Over(a)
    /\ UNCHANGED grants

\* createAssignment and systemAssign: the role is loaded, the unit and user looked up.
Assign(a, user, role, unit) ==
    /\ role \in Stored
    /\ Checked(a, [op |-> "assign", role |-> role, grant |-> <<user, role, unit>>])

CommitAssign(a) ==
    LET c == asks[a] IN
    /\ c # Nothing /\ c.op = "assign"
    /\ Cardinality(grants) < MaxGrants
    /\ grants' = grants \cup {c.grant}
    /\ Over(a)
    /\ UNCHANGED roles

RemoveIf(a, grant, notLast(_)) ==
    /\ grant \in grants
    /\ grant[2] \in Stored
    /\ grant[2] = TenantAdmin /\ grant[3] = Top => notLast(grant)
    /\ Checked(a, [op |-> "remove", role |-> grant[2], grant |-> grant])

\* Mutant: administrators of any unit are counted.
RemoveCountingAll(a, grant) ==
    RemoveIf(a, grant, LAMBDA g : Cardinality(Granted(TenantAdmin)) > 1)

\* The last assignment of tenant_admin in the root unit is not removed.
RemoveAssignment(a, grant) ==
    RemoveIf(a, grant, LAMBDA g :
        Cardinality({h \in Granted(TenantAdmin) : h[3] = g[3]}) > 1)

CommitRemove(a) ==
    LET c == asks[a] IN
    /\ c # Nothing /\ c.op = "remove"
    /\ grants' = grants \ {c.grant}
    /\ Over(a)
    /\ UNCHANGED roles

\* The request fails, or its process stops, before the transaction.
Forget(a) == asks[a] # Nothing /\ Refused(a)

AccessNext ==
    \E a \in Admins :
        \/ \E role \in RoleIds, key \in RoleKeys \cup {Nothing} : CreateRole(a, role, key)
        \/ CommitRole(a)
        \/ \E role \in Stored : DeleteRole(a, role)
        \/ CommitDeleteRole(a)
        \/ \E user \in Users, role \in Stored, unit \in Units : Assign(a, user, role, unit)
        \/ CommitAssign(a)
        \/ \E grant \in grants : RemoveAssignment(a, grant)
        \/ CommitRemove(a)
        \/ Forget(a)

AccessSpec == AccessInit /\ [][AccessNext]_accessVars

-----------------------------------------------------------------------------
AccessTypeOK ==
    /\ Stored \subseteq RoleIds \cup {TenantAdmin}
    /\ \A r \in Stored : roles[r] \in RoleKeys \cup {Nothing}
    /\ grants \subseteq Users \X (RoleIds \cup {TenantAdmin}) \X Units
    /\ crossed \in BOOLEAN

\* "The last Tenant Admin cannot be removed" and "Remove this role from all users
\* first": commands on one role that do not overlap leave an administrator in the root
\* unit and no assignment without its role; a pack's role exists once in any case.
RolesStayWhole ==
    /\ ~crossed =>
        /\ \E u \in Users : <<u, TenantAdmin, Top>> \in grants
        /\ \A g \in grants : g[2] \in Stored
    /\ \A q, r \in Stored : roles[q] = roles[r] /\ roles[q] # Nothing => q = r
=============================================================================
