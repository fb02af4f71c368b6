------------------------------ MODULE OrgTree ------------------------------
(***************************************************************************)
(* The organization tree of one tenant (org.service.ts) after bootstrap:   *)
(* create, move and deactivate. Every command reads the units it needs one *)
(* by one, checks them, and then writes in a transaction that does not     *)
(* read them again.                                                        *)
(*                                                                         *)
(* A path is the sequence of unit ids from the top; ids are never reused.  *)
(***************************************************************************)
EXTENDS Integers, Sequences, FiniteSets, SequencesExt

CONSTANTS
    Units,        \* ids of units
    Root,         \* the unit bootstrap made
    InitialTree,  \* the units created so far
    NoUnit,
    MAX_DEPTH,    \* 15 in the code
    Commands,     \* commands in progress
    MaxChanges    \* bound: units created, moves, and units deactivated from then on

ASSUME OrgAssumption ==
    /\ NoUnit \notin Units
    /\ MAX_DEPTH \in Nat \ {0} /\ MaxChanges \in Nat

\* Every tree made by creating units one by one, from the root that bootstrap made.
ASSUME InitialTreeAssumption ==
    LET At(u) == InitialTree[u] IN
    /\ Root \in DOMAIN InitialTree /\ DOMAIN InitialTree \subseteq Units
    /\ At(Root) = [parentId |-> NoUnit, path |-> <<Root>>, depth |-> 0, active |-> TRUE]
    /\ \A u \in DOMAIN InitialTree \ {Root} :
         LET p == At(u).parentId IN
         /\ p \in DOMAIN InitialTree
         /\ At(u) = [parentId |-> p, path |-> Append(At(p).path, u),
                     depth |-> At(p).depth + 1, active |-> TRUE]
         /\ At(u).depth \in 0..(MAX_DEPTH - 1)

VARIABLES
    tree,      \* ids in use |-> [parentId, path, depth, active]
    command,   \* the commands: what they have read so far
    moves,     \* OrgUnitMoved events, in the order of their transactions
    overlap    \* history: a command wrote although another one had written
               \* since its first read

orgVars == <<tree, command, moves, overlap>>

None == [parentId |-> NoUnit, path |-> <<>>, depth |-> 0]
Idle == [pc |-> "idle", id |-> NoUnit, unit |-> None, to |-> NoUnit, parent |-> None,
         stale |-> FALSE]

TreeInit ==
    /\ tree = InitialTree
    /\ command = [r \in Commands |-> Idle]
    /\ moves = <<>>
    /\ overlap = FALSE

Used == DOMAIN tree
\* What a command goes on to use of a unit it has read.
Seen(u) == [parentId |-> tree[u].parentId, path |-> tree[u].path, depth |-> tree[u].depth]
Fresh == Units \ (Used \union {command[r].id : r \in Commands})
Below(path) == {u \in Used : IsPrefix(path, tree[u].path)}
Reads(r, pc, q) == command' = [command EXCEPT ![r] = [q EXCEPT !.pc = pc]]
ReadsOnly == UNCHANGED <<tree, moves, overlap>>

Changes ==
    Cardinality(Used \ DOMAIN InitialTree) + Len(moves)
    + Cardinality({u \in Used : ~tree[u].active})

\* A transaction of a command commits.
Writes(r) ==
    /\ Changes < MaxChanges
    /\ overlap' = (overlap \/ command[r].stale)
    /\ command' = [q \in Commands |-> IF q = r \/ command[q] = Idle THEN Idle
                                      ELSE [command[q] EXCEPT !.stale = TRUE]]

-----------------------------------------------------------------------------
(* create *)

\* Mutant: the depth of the parent is compared, not that of the new unit.
CreateReadDeeper(r, id, to) ==
    /\ command[r].pc = "idle"
    /\ id \in Fresh /\ to \in Used
    /\ tree[to].active
    /\ tree[to].depth < MAX_DEPTH
    /\ Reads(r, "create", [Idle EXCEPT !.id = id, !.to = to, !.parent = Seen(to)])
    /\ ReadsOnly

CreateRead(r, id, to) ==
    /\ command[r].pc = "idle"
    /\ id \in Fresh /\ to \in Used
    /\ tree[to].active
    /\ tree[to].depth + 1 < MAX_DEPTH
    /\ Reads(r, "create", [Idle EXCEPT !.id = id, !.to = to, !.parent = Seen(to)])
    /\ ReadsOnly

CreateWrite(r) ==
    LET q == command[r] IN
    /\ q.pc = "create"
    /\ tree' = [u \in Used \union {q.id} |->
                  IF u = q.id
                  THEN [parentId |-> q.to, path |-> Append(q.parent.path, q.id),
                        depth |-> q.parent.depth + 1, active |-> TRUE]
                  ELSE tree[u]]
    /\ Writes(r)
    /\ UNCHANGED moves

-----------------------------------------------------------------------------
(* move *)

MoveReadUnit(r, id) ==
    /\ command[r].pc = "idle"
    /\ id \in Used
    /\ tree[id].parentId # NoUnit
    /\ Reads(r, "moveParent", [Idle EXCEPT !.id = id, !.unit = Seen(id)])
    /\ ReadsOnly

\* Not under itself, not under an inactive unit, and not where it is.
MoveReadParent(r, to) ==
    /\ command[r].pc = "moveParent"
    /\ to \in Used
    /\ ~IsPrefix(command[r].unit.path, tree[to].path)
    /\ tree[to].active
    /\ to # command[r].unit.parentId
    /\ Reads(r, "moveDeepest", [command[r] EXCEPT !.to = to, !.parent = Seen(to)])
    /\ ReadsOnly

\* The deepest unit on the old path, or else the unit as it was read, must not get
\* too deep: its depth + delta < MAX_DEPTH.
MoveReadDeepest(r) ==
    LET q == command[r]
        depths == {tree[u].depth : u \in Below(q.unit.path)}
    IN
    /\ q.pc = "moveDeepest"
    /\ \A d \in IF depths = {} THEN {q.unit.depth} ELSE depths :
         d + q.parent.depth + 1 < MAX_DEPTH + q.unit.depth
    /\ Reads(r, "move", q)
    /\ ReadsOnly

\* Mutant: the units below keep their paths.
MovedSelf(q, u) ==
    IF q.unit.path = tree[u].path
    THEN [tree[u] EXCEPT !.path = Append(q.parent.path, q.id),
                         !.depth = @ + q.parent.depth + 1 - q.unit.depth]
    ELSE tree[u]

\* Every path that starts with the old one gets the new one in its place.
Moved(q, u) ==
    IF IsPrefix(q.unit.path, tree[u].path)
    THEN [tree[u] EXCEPT
            !.path = Append(q.parent.path, q.id)
                       \o SubSeq(@, Len(q.unit.path) + 1, Len(@)),
            !.depth = @ + q.parent.depth + 1 - q.unit.depth]
    ELSE tree[u]

MoveWrite(r) ==
    LET q == command[r] IN
    /\ q.pc = "move"
    /\ tree' = [u \in Used |-> IF u = q.id THEN [Moved(q, u) EXCEPT !.parentId = q.to]
                               ELSE Moved(q, u)]
    /\ moves' = Append(moves, [old |-> q.unit.path, new |-> Append(q.parent.path, q.id)])
    /\ Writes(r)

-----------------------------------------------------------------------------
(* deactivate *)

\* Mutant: the children are not looked at.
DeactivateReadAny(r, id) ==
    /\ command[r].pc = "idle"
    /\ id \in Used
    /\ tree[id].parentId # NoUnit
    /\ Reads(r, "deactivate", [Idle EXCEPT !.id = id])
    /\ ReadsOnly

\* No active child; the unit itself may be inactive already.
DeactivateRead(r, id) ==
    /\ command[r].pc = "idle"
    /\ id \in Used
    /\ tree[id].parentId # NoUnit
    /\ \A u \in Used : tree[u].parentId = id => ~tree[u].active
    /\ Reads(r, "deactivate", [Idle EXCEPT !.id = id])
    /\ ReadsOnly

DeactivateWrite(r) ==
    /\ command[r].pc = "deactivate"
    /\ tree' = [tree EXCEPT ![command[r].id].active = FALSE]
    /\ Writes(r)
    /\ UNCHANGED moves

\* A check refuses the command, a call fails, or the process stops.
GiveUp(r) ==
    /\ command[r].pc # "idle"
    /\ command' = [command EXCEPT ![r] = Idle]
    /\ ReadsOnly

-----------------------------------------------------------------------------
Command(r) ==
    \/ \E id, to \in Units : CreateRead(r, id, to)
    \/ \E id \in Units : MoveReadUnit(r, id) \/ MoveReadParent(r, id) \/ DeactivateRead(r, id)
    \/ CreateWrite(r) \/ MoveReadDeepest(r) \/ MoveWrite(r) \/ DeactivateWrite(r) \/ GiveUp(r)

TreeNext == \E r \in Commands : Command(r)

TreeSpec == TreeInit /\ [][TreeNext]_orgVars

-----------------------------------------------------------------------------
(* Properties *)

Unit == [parentId : Units \union {NoUnit}, path : Seq(Units), depth : Nat, active : BOOLEAN]
UnitSeen == [parentId : Units \union {NoUnit}, path : Seq(Units), depth : Nat]
Move == [old : Seq(Units), new : Seq(Units)]

\* The units, the commands and the events keep their types.
OrgTypeOK ==
    /\ Root \in Used /\ Used \subseteq Units
    /\ \A u \in Used : tree[u] \in Unit
    /\ command \in [Commands -> [pc : {"idle", "create", "moveParent", "moveDeepest", "move",
                                      "deactivate", "store"},
                                id : Units \union {NoUnit}, unit : UnitSeen,
                                to : Units \union {NoUnit}, parent : UnitSeen,
                                stale : BOOLEAN]]
    /\ moves \in Seq(Move)
    /\ overlap \in BOOLEAN

\* Whatever commands overlap, the depth of a unit counts the units above it on its
\* path, which "always ends with the unit's own id" (org-unit.model.ts): moves
\* change both by the same amount although they work on paths read earlier.
DepthFollowsPath ==
    \A u \in Used : LET path == tree[u].path IN
        Len(path) = tree[u].depth + 1 /\ path[1] = Root /\ path[Len(path)] = u

\* The paths say what the parents say, so the tree has no cycles ("A unit cannot be
\* moved under itself"), as long as no command wrote on top of what it had not read.
PathsFollowParents == ~overlap =>
    \A u \in Used \ {Root} :
        tree[u].parentId \in Used /\ tree[u].path = Append(tree[tree[u].parentId].path, u)

\* "Deactivate or move the child units first" and "Parent unit is inactive": an
\* active unit has an active parent.
ActiveUnderActive == ~overlap =>
    \A u \in Used \ {Root} : tree[u].active => tree[tree[u].parentId].active

\* "Hierarchy cannot be deeper than MAX_DEPTH levels".
DepthBounded == ~overlap => \A u \in Used : tree[u].depth < MAX_DEPTH

\* What the commands promise of the tree, whatever overlaps; it keeps its type.
TreeIsSound ==
    OrgTypeOK /\ DepthFollowsPath /\ PathsFollowParents /\ ActiveUnderActive /\ DepthBounded
=============================================================================
