--------------------------- MODULE MCOrganization ---------------------------
(***************************************************************************)
(* Two things that follow the organization of a company and share no       *)
(* state, in one run: the tree with the copies of its paths (OrgPaths),    *)
(* and approvals of which no level names somebody to escalate to           *)
(* (Approvals).  A behaviour belongs to one of them; the tree stays where  *)
(* it begins in the other one, and there is no approval in the other one.  *)
(***************************************************************************)
EXTENDS Approvals, OrgPaths, TLC

CONSTANTS
    ann, bob, cho, r1, r2,
    top, a, b, c, d, x

VARIABLE part

\* ann submits; she or an automation cancels.
SubmitCancel ==
  [submit |-> [from |-> {"draft"}, to |-> "pending", approval |-> TRUE,
               approved |-> "approved", rejected |-> "draft", actors |-> {ann}],
   cancel |-> [from |-> {"pending"}, to |-> "draft", approval |-> FALSE,
               approved |-> "draft", rejected |-> "draft", actors |-> {ann, System}]]

\* Level 1: bob alone; level 2: both, or nobody when the role is vacant.  A level that is
\* not answered in time is skipped.
AnyThenAll  == <<"any", "all">>
BobThenBoth == <<{{bob}}, {{bob, cho}, {}}>>
Nowhere     == <<{}, {}>>
AnnForBob   == {<<bob, ann>>}

\* Three units in a line below the root, and one more that can be created.
Line == <<top, a, b, c>>
LineOfThree ==
  [u \in {top, a, b, c} |->
     LET n == CHOOSE i \in 1..4 : Line[i] = u
     IN [parentId |-> IF n = 1 THEN NoUnit ELSE Line[n - 1],
         path |-> SubSeq(Line, 1, n), depth |-> n - 1, active |-> TRUE]]

Off == 0

\* The approvals in the other part: there is none, and the rest is out of use.
NoApproval ==
    /\ approval = NoRun /\ tasks = [t \in TaskId |-> NoTask]
    /\ state = Off /\ version = Off /\ lastEntry = Off /\ published = Off /\ batches = Off
    /\ jobs = Off /\ req = Off

\* When the changes are used up, only the copies go on: a command that begins then could
\* not write any more.
TreeBounds == \A r \in Commands :
    Changes = MaxChanges /\ command[r].pc = "idle" => command'[r].pc \in {"idle", "store"}

OrganizationInit ==
    /\ PathsInit
    /\ \/ part = "approvals" /\ Init
       \/ part = "tree" /\ NoApproval

OrganizationNext ==
    \/ part = "approvals" /\ Next /\ UNCHANGED <<pathVars, part>>
    \/ part = "tree" /\ PathsNext /\ TreeBounds /\ UNCHANGED <<vars, part>>

OrganizationSpec ==
    OrganizationInit /\ [][OrganizationNext]_<<vars, pathVars, part>>

\* Requests in progress are alike.
Alike == Permutations(Requests)
=============================================================================
