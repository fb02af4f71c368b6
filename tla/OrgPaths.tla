------------------------------ MODULE OrgPaths ------------------------------
(***************************************************************************)
(* The copies of organization paths in other services: the orgPath of      *)
(* records (records-service) and the orgUnitPath of role assignments       *)
(* (access-service). A copy is taken when the record or assignment is      *)
(* created, and anew when an update moves the record to another unit;      *)
(* applyOrgMove rewrites the copies for each OrgUnitMoved event, once      *)
(* (handleOnce), in the order the bus delivers them: a failed delivery     *)
(* lets later events overtake it.                                          *)
(***************************************************************************)
EXTENDS OrgTree

CONSTANTS
    Copies,    \* records and assignments
    Records    \* those of them that an update may move to another unit

VARIABLES
    copy,      \* Copies |-> [unit, path], NoCopy before the copy is stored
    applied,   \* OrgUnitMoved events applied, as positions in `moves`
    mixed,     \* history: an event overtook another, or a path was stored after an
               \* event that rewrites it
    writing    \* <<request, copy>>: the request creates it, or has read its present version

copyVars == <<copy, applied, mixed>>
pathVars == <<orgVars, copyVars, writing>>

NoCopy == [unit |-> NoUnit, path |-> <<>>]

PathsInit ==
    /\ TreeInit
    /\ copy = [c \in Copies |-> NoCopy]
    /\ applied = {}
    /\ mixed = FALSE
    /\ writing = {}

\* A request to create a record or an assignment, or to move a record to another unit,
\* reads the record and then the unit from org-service.
ReadUnit(r, c, u) ==
    /\ command[r].pc = "idle"
    /\ u \in Used
    /\ IF copy[c] = NoCopy THEN \A q \in Commands : <<q, c>> \notin writing
       ELSE c \in Records /\ u # copy[c].unit
    /\ writing' = writing \union {<<r, c>>}
    /\ Reads(r, "store", [Idle EXCEPT !.to = u, !.parent = Seen(u)])
    /\ ReadsOnly /\ UNCHANGED copyVars

\* Later it stores the path, if nobody wrote the record meanwhile ("Someone else changed
\* this record"); events that rewrite this path should come after it.
Store(r, c) ==
    /\ command[r].pc = "store"
    /\ <<r, c>> \in writing
    /\ writing' = {p \in writing : p[2] # c}
    /\ copy' = [copy EXCEPT ![c] = [unit |-> command[r].to, path |-> command[r].parent.path]]
    /\ mixed' = (mixed \/ \E i \in applied : IsPrefix(moves[i].old, copy'[c].path))
    /\ command' = [command EXCEPT ![r] = Idle]
    /\ ReadsOnly /\ UNCHANGED applied

\* Mutant: only copies of the moved unit itself are rewritten.
RewrittenSelf(c, m) ==
    IF copy[c].path = m.old
    THEN [copy[c] EXCEPT !.path = m.new] ELSE copy[c]

Rewritten(c, m) ==
    IF IsPrefix(m.old, copy[c].path)
    THEN [copy[c] EXCEPT !.path = m.new \o SubSeq(@, Len(m.old) + 1, Len(@))]
    ELSE copy[c]

ApplyOrgMove(i) ==
    /\ i \in DOMAIN moves \ applied
    /\ copy' = [c \in Copies |-> Rewritten(c, moves[i])]
    /\ applied' = applied \union {i}
    /\ mixed' = (mixed \/ \E j \in DOMAIN moves \ applied : j < i)
    /\ writing' = {p \in writing : ~IsPrefix(moves[i].old, copy[p[2]].path)}
    /\ UNCHANGED orgVars

PathsNext ==
    \/ TreeNext /\ UNCHANGED copyVars
       /\ writing' = {p \in writing : command'[p[1]].pc = "store"}
    \/ \E r \in Commands, c \in Copies : Store(r, c) \/ \E u \in Units : ReadUnit(r, c, u)
    \/ \E i \in 1..MaxChanges : ApplyOrgMove(i)

PathsSpec == PathsInit /\ [][PathsNext]_pathVars

-----------------------------------------------------------------------------
(* Properties *)

\* The copies keep their types.
PathsTypeOK ==
    /\ copy \in [Copies -> [unit : Units \union {NoUnit}, path : Seq(Units)]]
    /\ applied \subseteq DOMAIN moves
    /\ mixed \in BOOLEAN
    /\ writing \subseteq Commands \X Copies

\* "Keeps record paths in step with org moves": when all moves were applied, a copy
\* is the path of its unit, if commands, events and stored paths did not get mixed up.
CopiesInStep ==
    /\ PathsTypeOK
    /\ applied = DOMAIN moves /\ ~mixed /\ ~overlap =>
         \A c \in Copies : copy[c] # NoCopy => copy[c].path = tree[copy[c].unit].path
=============================================================================
