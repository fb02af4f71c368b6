-------------------------- MODULE OrgPaths_proofs --------------------------
(***************************************************************************)
(* Theorems about OrgTree and OrgPaths for any tree that can have been     *)
(* built, any number of commands and copies, and any bounds.               *)
(***************************************************************************)
EXTENDS OrgPaths, SequenceTheorems, WellFoundedInduction, TLAPS

-----------------------------------------------------------------------------
(* The invariant                                                           *)

\* A path from the root with as many units above the last one as `depth` says.
IsPath(path, depth) ==
    path \in Seq(Units) /\ Len(path) = depth + 1 /\ path[1] = Root

\* What a command has read has the shape that a unit has, and names units in use.
Shaped(q, used) ==
    /\ q.pc = "idle" => q = Idle
    /\ q.pc = "create" =>
         /\ q.id \in Units /\ q.to \in Units
         /\ IsPath(q.parent.path, q.parent.depth)
    /\ q.pc \in {"moveParent", "moveDeepest", "move"} =>
         /\ q.id \in used
         /\ IsPath(q.unit.path, q.unit.depth)
         /\ q.unit.path[Len(q.unit.path)] = q.id
    /\ q.pc \in {"moveDeepest", "move"} =>
         q.to \in Units /\ IsPath(q.parent.path, q.parent.depth)
    /\ q.pc = "deactivate" => q.id \in used

CommandsInv == \A r \in Commands : Shaped(command[r], Used)

\* What the checks of a command showed, as long as no other one has written since its
\* first read.
StillTrue(q) ==
    /\ q.pc = "create" => q.id \notin Used
    /\ q.pc \in {"create", "moveDeepest", "move"} =>
         q.to \in Used /\ tree[q.to].active /\ q.parent = Seen(q.to)
    /\ q.pc = "create" => q.parent.depth + 1 < MAX_DEPTH
    /\ q.pc \in {"moveParent", "moveDeepest", "move"} =>
         q.id \in Used /\ q.unit = Seen(q.id) /\ q.unit.parentId # NoUnit
    /\ q.pc \in {"moveDeepest", "move"} => ~IsPrefix(q.unit.path, tree[q.to].path)
    /\ q.pc = "move" =>
         \A u \in Below(q.unit.path) :
           tree[u].depth + q.parent.depth + 1 < MAX_DEPTH + q.unit.depth
    /\ q.pc = "deactivate" =>
         /\ q.id \in Used /\ tree[q.id].parentId # NoUnit
         /\ \A u \in Used : tree[u].parentId = q.id => ~tree[u].active

\* The root has no parent, which keeps it from being moved or deactivated, and is its path.
RootInv == ~overlap => tree[Root].parentId = NoUnit /\ tree[Root].path = <<Root>>

ChecksInv == ~overlap =>
    \A r \in Commands : ~command[r].stale => StillTrue(command[r])

CommandType ==
    [pc : {"idle", "create", "moveParent", "moveDeepest", "move", "deactivate", "store"},
     id : Units \union {NoUnit}, unit : UnitSeen, to : Units \union {NoUnit},
     parent : UnitSeen, stale : BOOLEAN]

OrgInv == TreeIsSound /\ CommandsInv /\ RootInv /\ ChecksInv

-----------------------------------------------------------------------------
(* Paths                                                                   *)

\* A path that goes on.
LEMMA Longer ==
  ASSUME NEW S, NEW p \in Seq(S), p # <<>>, NEW e \in S
  PROVE  /\ Append(p, e) \in Seq(S)
         /\ Len(Append(p, e)) = Len(p) + 1
         /\ Append(p, e)[1] = p[1]
         /\ Append(p, e)[Len(Append(p, e))] = e
OBVIOUS

LEMMA PrefixOfItself ==
  ASSUME NEW S, NEW p \in Seq(S) PROVE IsPrefix(p, p)
BY DEF IsPrefix

\* A path that begins with another one of the same length is that one.
LEMMA WholePrefix ==
  ASSUME NEW S, NEW old \in Seq(S), NEW p \in Seq(S), IsPrefix(old, p),
         Len(old) = Len(p)
  PROVE  old = p
BY DEF IsPrefix

\* A path that begins with `old` gets the beginning `new`.
Rebased(old, new, p) == new \o SubSeq(p, Len(old) + 1, Len(p))

LEMMA NewBeginning ==
  ASSUME NEW old \in Seq(Units), NEW new \in Seq(Units), NEW p \in Seq(Units),
         IsPrefix(old, p), new # <<>>
  PROVE  /\ Rebased(old, new, p) \in Seq(Units)
         /\ Len(Rebased(old, new, p)) = Len(new) + Len(p) - Len(old)
         /\ Rebased(old, new, p)[1] = new[1]
         /\ LET q == Rebased(old, new, p) IN
              /\ Len(old) = Len(p) => q[Len(q)] = new[Len(new)]
              /\ Len(old) # Len(p) => q[Len(q)] = p[Len(p)]
<1> DEFINE S == Units
           q == Rebased(old, new, p)
<1> DEFINE tail == SubSeq(p, Len(old) + 1, Len(p))
<1>0. q = new \o tail
  BY DEF Rebased
<1> HIDE DEF q
<1>1. /\ Len(old) \in Nat /\ Len(p) \in Nat /\ Len(new) \in Nat /\ Len(new) > 0
      /\ Len(old) <= Len(p)
  BY DEF IsPrefix
<1>2. tail \in Seq(S) /\ Len(tail) = Len(p) - Len(old)
  BY <1>1
<1>3. \A i \in 1..Len(tail) : tail[i] = p[Len(old) + i]
  BY <1>1, <1>2
<1> HIDE DEF tail
<1>4. q \in Seq(S) /\ Len(q) = Len(new) + Len(tail)
  BY <1>0, <1>2, ConcatProperties
<1>5. q[1] = new[1]
  BY <1>0, <1>1, <1>2
<1>6. ASSUME Len(old) = Len(p) PROVE q[Len(q)] = new[Len(new)]
  BY <1>0, <1>1, <1>2, <1>4, <1>6
<1>7. ASSUME Len(old) # Len(p) PROVE q[Len(q)] = p[Len(p)]
  <2>1. Len(tail) \in 1..Len(tail) /\ Len(old) + Len(tail) = Len(p)
    BY <1>1, <1>2, <1>7
  <2>2. \A i \in 1..Len(tail) : (new \o tail)[Len(new) + i] = tail[i]
    BY <1>1, <1>2
  <2>3. q[Len(new) + Len(tail)] = tail[Len(tail)]
    BY <1>0, <2>1, <2>2
  <2> QED BY <1>3, <1>4, <2>1, <2>3
<1>8. /\ q \in Seq(Units) /\ Len(q) = Len(new) + Len(p) - Len(old) /\ q[1] = new[1]
      /\ Len(old) = Len(p) => q[Len(q)] = new[Len(new)]
      /\ Len(old) # Len(p) => q[Len(q)] = p[Len(p)]
  BY <1>1, <1>2, <1>4, <1>5, <1>6, <1>7
<1> QED BY <1>8 DEF q

\* The new beginning of a path without its last element, and of all of it.
LEMMA NewBeginningOfParent ==
  ASSUME NEW old \in Seq(Units), NEW new \in Seq(Units), NEW p \in Seq(Units),
         NEW e \in Units, IsPrefix(old, p)
  PROVE  /\ IsPrefix(old, Append(p, e))
         /\ Rebased(old, new, Append(p, e)) = Append(Rebased(old, new, p), e)
<1> DEFINE S == Units
<1> DEFINE q == Append(p, e)
<1>1. /\ Len(old) \in Nat /\ Len(p) \in Nat /\ Len(new) \in Nat
      /\ Len(old) <= Len(p) /\ q \in Seq(S) /\ Len(q) = Len(p) + 1
  BY DEF IsPrefix
<1>2. IsPrefix(old, q)
  <2>1. \A i \in 1..Len(old) : old[i] = p[i]
    BY <1>1 DEF IsPrefix
  <2>2. SubSeq(old, 1, Len(old)) = SubSeq(q, 1, Len(old))
    BY <1>1, <2>1
  <2> QED BY <1>1, <2>2 DEF IsPrefix
<1>3. SubSeq(q, Len(old) + 1, Len(q)) = Append(SubSeq(p, Len(old) + 1, Len(p)), e)
  <2> DEFINE s == SubSeq(q, Len(old) + 1, Len(q))
             t == SubSeq(p, Len(old) + 1, Len(p))
  <2>1. /\ s \in Seq(S) /\ Len(s) = Len(p) + 1 - Len(old)
        /\ \A i \in 1..Len(s) : s[i] = q[Len(old) + i]
    BY SMTT(20), <1>1
  <2>2. /\ t \in Seq(S) /\ Len(t) = Len(p) - Len(old)
        /\ \A i \in 1..Len(t) : t[i] = p[Len(old) + i]
    BY <1>1
  <2> HIDE DEF s, t
  <2>3. /\ Append(t, e) \in Seq(S) /\ Len(Append(t, e)) = Len(s)
        /\ \A i \in 1..Len(t) : Append(t, e)[i] = t[i]
        /\ Append(t, e)[Len(t) + 1] = e
    BY <1>1, <2>1, <2>2, AppendProperties
  <2>4. ASSUME NEW i \in 1..Len(s) PROVE s[i] = Append(t, e)[i]
    <3>1. q[Len(p) + 1] = e /\ \A k \in 1..Len(p) : q[k] = p[k]
      BY <1>1, AppendProperties
    <3> HIDE DEF q
    <3>2. CASE i \in 1..Len(t)
      BY <1>1, <2>1, <2>2, <2>3, <3>1, <3>2
    <3>3. CASE i = Len(t) + 1
      <4>1. Len(old) + i = Len(p) + 1
        BY <1>1, <2>2, <3>3
      <4>2. s[i] = q[Len(p) + 1]
        BY <2>1, <4>1
      <4> QED BY <2>3, <3>1, <3>3, <4>2
    <3>4. Len(t) \in Nat /\ Len(s) = Len(t) + 1
      BY <1>1, <2>1, <2>2
    <3> QED BY <3>2, <3>3, <3>4
  <2>5. s = Append(t, e)
    BY <2>1, <2>3, <2>4, SeqEqual
  <2> QED BY <2>5 DEF s, t
<1>4. \A t \in Seq(S) : new \o Append(t, e) = Append(new \o t, e)
  OBVIOUS
<1>5. SubSeq(p, Len(old) + 1, Len(p)) \in Seq(S)
  BY <1>1
<1> QED BY <1>2, <1>3, <1>4, <1>5 DEF Rebased

LEMMA PrefixElements ==
  ASSUME NEW old \in Seq(Units), NEW p \in Seq(Units), IsPrefix(old, p)
  PROVE  Len(old) <= Len(p) /\ \A i \in 1..Len(old) : old[i] = p[i]
BY DEF IsPrefix

\* Only the path itself begins with it and has a parent that does not.
LEMMA FirstWithPrefix ==
  ASSUME NEW S, NEW old \in Seq(S), NEW p \in Seq(S), NEW e \in S,
         IsPrefix(old, Append(p, e)), ~IsPrefix(old, p)
  PROVE  old = Append(p, e)
<1>1. Len(old) \in Nat /\ Len(p) \in Nat /\ Len(Append(p, e)) = Len(p) + 1
      /\ Append(p, e) \in Seq(S) /\ Len(old) <= Len(p) + 1
  BY DEF IsPrefix
<1>2. ASSUME Len(old) <= Len(p) PROVE FALSE
  <2>1. SubSeq(Append(p, e), 1, Len(old)) = SubSeq(p, 1, Len(old))
    BY <1>1, <1>2
  <2> QED BY <1>1, <1>2, <2>1 DEF IsPrefix
<1>3. Len(old) = Len(Append(p, e))
  BY <1>1, <1>2
<1> QED BY <1>1, <1>3, WholePrefix

-----------------------------------------------------------------------------
(* The initial tree                                                        *)

\* A set of natural numbers has a least one.
LEMMA Least ==
  ASSUME NEW T \in SUBSET Nat, T # {}
  PROVE  \E m \in T : \A k \in T : m <= k
<1> DEFINE Less == {ss \in Nat \X Nat : ss[1] < ss[2]}
<1>1. IsWellFoundedOn(Less, Nat)
  BY NatLessThanWellFounded, Zenon DEF OpToRel
<1>2. PICK x \in T : \A y \in T : <<y, x>> \notin Less
  <2> HIDE DEF Less
  <2> QED BY <1>1, WFMin, Zenon
<1>3. ASSUME NEW y \in T, ~(x <= y) PROVE FALSE
  <2>1. <<y, x>> \in Nat \X Nat /\ y < x
    BY <1>3
  <2>2. <<y, x>> \in Less
    BY <2>1
  <2> QED BY <1>2, <2>2
<1> QED BY <1>3

\* The unit of a tree with the path and the depth it should have.
Placed(t, u) == IsPath(t[u].path, t[u].depth) /\ t[u].path[Len(t[u].path)] = u

\* Units get their paths from their parents: by induction on the depth.
LEMMA InitialPaths == \A u \in DOMAIN InitialTree : Placed(InitialTree, u)
<1> DEFINE At(u) == InitialTree[u]
           T == {At(u).depth : u \in {v \in DOMAIN InitialTree : ~Placed(InitialTree, v)}}
<1>1. /\ Root \in DOMAIN InitialTree /\ DOMAIN InitialTree \subseteq Units
      /\ At(Root) = [parentId |-> NoUnit, path |-> <<Root>>, depth |-> 0, active |-> TRUE]
      /\ \A u \in DOMAIN InitialTree \ {Root} :
           /\ At(u).parentId \in DOMAIN InitialTree
           /\ At(u).path = Append(At(At(u).parentId).path, u)
           /\ At(u).depth = At(At(u).parentId).depth + 1
           /\ At(u).depth \in Nat
  <2>1. /\ Root \in DOMAIN InitialTree /\ DOMAIN InitialTree \subseteq Units
        /\ At(Root) = [parentId |-> NoUnit, path |-> <<Root>>, depth |-> 0, active |-> TRUE]
    BY InitialTreeAssumption
  <2>2. ASSUME NEW u \in DOMAIN InitialTree \ {Root}
        PROVE  \E q \in DOMAIN InitialTree :
                 /\ At(u) = [parentId |-> q, path |-> Append(At(q).path, u),
                             depth |-> At(q).depth + 1, active |-> TRUE]
                 /\ At(u).depth \in 0..(MAX_DEPTH - 1)
    BY InitialTreeAssumption, Zenon
  <2>3. ASSUME NEW u \in DOMAIN InitialTree \ {Root}
        PROVE  /\ At(u).parentId \in DOMAIN InitialTree
               /\ At(u).path = Append(At(At(u).parentId).path, u)
               /\ At(u).depth = At(At(u).parentId).depth + 1
               /\ At(u).depth \in Nat
    <3> PICK q \in DOMAIN InitialTree :
          /\ At(u) = [parentId |-> q, path |-> Append(At(q).path, u),
                      depth |-> At(q).depth + 1, active |-> TRUE]
          /\ At(u).depth \in 0..(MAX_DEPTH - 1)
      BY <2>2
    <3> HIDE DEF At
    <3> QED BY OrgAssumption
  <2> HIDE DEF At
  <2> QED BY <2>1, <2>3
<1>2. \A u \in DOMAIN InitialTree : At(u).depth \in Nat
  BY <1>1
<1>3. SUFFICES ASSUME NEW bad \in DOMAIN InitialTree, ~Placed(InitialTree, bad)
               PROVE  FALSE
  OBVIOUS
<1>4. T \in SUBSET Nat /\ T # {}
  BY <1>2, <1>3
<1>5. PICK m \in T : \A k \in T : m <= k
  <2> HIDE DEF T
  <2> QED BY <1>4, Least
<1>6. PICK u \in DOMAIN InitialTree : At(u).depth = m /\ ~Placed(InitialTree, u)
  BY <1>5
<1>7. u # Root
  <2>1. Placed(InitialTree, Root)
    <3>1. /\ <<Root>> \in Seq(Units) /\ Len(<<Root>>) = 0 + 1 /\ <<Root>>[1] = Root
          /\ <<Root>>[Len(<<Root>>)] = Root
      BY <1>1
    <3>2. At(Root).path = <<Root>> /\ At(Root).depth = 0
      BY <1>1
    <3> QED BY <3>1, <3>2 DEF Placed, IsPath
  <2> QED BY <1>6, <2>1
<1> DEFINE p == At(u).parentId
<1>8. p \in DOMAIN InitialTree /\ At(p).depth \in Nat /\ m = At(p).depth + 1
  BY <1>1, <1>2, <1>6, <1>7
<1>9. Placed(InitialTree, p)
  <2>1. At(p).depth \notin T
    <3> HIDE DEF T, At
    <3> QED BY <1>5, <1>8
  <2> QED BY <1>8, <2>1
<1>10. /\ At(p).path \in Seq(Units) /\ Len(At(p).path) = At(p).depth + 1
       /\ At(p).path[1] = Root
  BY <1>9 DEF Placed, IsPath
<1>11. u \in Units /\ At(u).path = Append(At(p).path, u) /\ At(u).depth = At(p).depth + 1
  BY <1>1, <1>7
<1>12. At(p).path # <<>>
  BY <1>8, <1>10
<1> HIDE DEF At, p
<1>13. /\ At(u).path \in Seq(Units) /\ Len(At(u).path) = At(u).depth + 1
       /\ At(u).path[1] = Root /\ At(u).path[Len(At(u).path)] = u
  BY <1>8, <1>10, <1>11, <1>12, Longer
<1> QED BY <1>6, <1>13 DEF At, Placed, IsPath

LEMMA TreeBegins == TreeInit => OrgInv
<1> SUFFICES ASSUME TreeInit PROVE OrgInv
  OBVIOUS
<1> DEFINE At(u) == InitialTree[u]
<1>1. /\ Root \in DOMAIN InitialTree /\ DOMAIN InitialTree \subseteq Units
      /\ At(Root) = [parentId |-> NoUnit, path |-> <<Root>>, depth |-> 0, active |-> TRUE]
  BY InitialTreeAssumption
<1>2. ASSUME NEW u \in DOMAIN InitialTree \ {Root}
      PROVE  \E q \in DOMAIN InitialTree :
               /\ At(u) = [parentId |-> q, path |-> Append(At(q).path, u),
                           depth |-> At(q).depth + 1, active |-> TRUE]
               /\ At(u).depth \in 0..(MAX_DEPTH - 1)
  BY InitialTreeAssumption, Zenon
<1>3. \A u \in DOMAIN InitialTree : Placed(InitialTree, u)
  BY InitialPaths
<1>4. /\ tree = InitialTree /\ Used = DOMAIN InitialTree /\ overlap = FALSE /\ moves = <<>>
      /\ command = [r \in Commands |-> Idle]
  BY DEF TreeInit, Used
<1>5. ASSUME NEW u \in Used
      PROVE  /\ tree[u] \in Unit /\ Len(tree[u].path) = tree[u].depth + 1
             /\ tree[u].path[1] = Root /\ tree[u].path[Len(tree[u].path)] = u
             /\ tree[u].depth < MAX_DEPTH /\ tree[u].active
  <2>1. tree[u].path \in Seq(Units) /\ Len(tree[u].path) = tree[u].depth + 1
        /\ tree[u].path[1] = Root /\ tree[u].path[Len(tree[u].path)] = u
    BY <1>3, <1>4, <1>5 DEF Placed, IsPath
  <2>2. CASE u = Root
    <3> DEFINE P == <<Root>>
    <3>1. tree[u] = [parentId |-> NoUnit, path |-> P, depth |-> 0, active |-> TRUE]
      BY <1>1, <1>4, <2>2
    <3> HIDE DEF P
    <3>2. P \in Seq(Units) /\ 0 < MAX_DEPTH
      BY <2>1, <3>1, OrgAssumption
    <3> QED BY <2>1, <3>1, <3>2 DEF Unit
  <2>3. CASE u # Root
    <3> PICK q \in DOMAIN InitialTree :
          /\ At(u) = [parentId |-> q, path |-> Append(At(q).path, u),
                      depth |-> At(q).depth + 1, active |-> TRUE]
          /\ At(u).depth \in 0..(MAX_DEPTH - 1)
      BY <1>2, <1>4, <2>3
    <3> DEFINE P == Append(At(q).path, u)
               D == At(q).depth + 1
    <3>1. At(u) = [parentId |-> q, path |-> P, depth |-> D, active |-> TRUE]
      OBVIOUS
    <3> HIDE DEF P, D
    <3>2. P \in Seq(Units) /\ D \in 0..(MAX_DEPTH - 1) /\ tree[u] = At(u)
      BY <1>4, <2>1, <3>1
    <3> QED BY <1>1, <2>1, <3>1, <3>2, OrgAssumption DEF Unit
  <2> QED BY <2>2, <2>3
<1>6. OrgTypeOK
  <2>1. <<>> \in Seq(Units)
    OBVIOUS
  <2>2. Idle \in CommandType
    BY <2>1 DEF Idle, None, CommandType, UnitSeen
  <2>3. command \in [Commands -> CommandType]
    BY <1>4, <2>2
  <2>4. Root \in Used /\ Used \subseteq Units /\ overlap \in BOOLEAN /\ moves \in Seq(Move)
    <3>1. \A S : <<>> \in Seq(S)
      OBVIOUS
    <3> QED BY <1>1, <1>4, <3>1, Zenon
  <2>5. \A u \in Used : tree[u] \in Unit
    BY <1>5
  <2> QED BY <2>3, <2>4, <2>5 DEF OrgTypeOK, CommandType
<1>7. DepthFollowsPath /\ DepthBounded
  BY <1>5 DEF DepthFollowsPath, DepthBounded
<1>8. PathsFollowParents /\ ActiveUnderActive
  <2>1. ASSUME NEW u \in Used \ {Root}
        PROVE  /\ tree[u].parentId \in Used
               /\ tree[u].path = Append(tree[tree[u].parentId].path, u)
    <3> PICK q \in DOMAIN InitialTree :
          At(u) = [parentId |-> q, path |-> Append(At(q).path, u),
                   depth |-> At(q).depth + 1, active |-> TRUE]
      BY <1>2, <1>4
    <3> QED BY <1>4
  <2> QED BY <1>5, <2>1 DEF PathsFollowParents, ActiveUnderActive
<1>9. RootInv
  BY <1>1, <1>4 DEF RootInv
<1>10. CommandsInv /\ ChecksInv
  <2>1. \A r \in Commands : command[r] = Idle
    BY <1>4
  <2>2. Shaped(Idle, Used) /\ StillTrue(Idle)
    BY DEF Shaped, StillTrue, Idle
  <2> QED BY <2>1, <2>2 DEF CommandsInv, ChecksInv
<1> QED BY <1>6, <1>7, <1>8, <1>9, <1>10 DEF OrgInv, TreeIsSound

-----------------------------------------------------------------------------
(* What the events do to a path                                            *)

\* An OrgUnitMoved event rewrites a path.
Rewrite(m, p) == IF IsPrefix(m.old, p) THEN Rebased(m.old, m.new, p) ELSE p

\* Paths of units, each with the paths of the units above it.
Lines(P) ==
    /\ Root \in DOMAIN P /\ P[Root] = <<Root>>
    /\ \A u \in DOMAIN P :
         /\ P[u] \in Seq(Units) /\ P[u] # <<>> /\ P[u][1] = Root /\ P[u][Len(P[u])] = u
         /\ \A j \in 1..Len(P[u]) : P[u][j] \in DOMAIN P /\ P[P[u][j]] = SubSeq(P[u], 1, j)

\* An event takes the paths P of all units to their paths Q.
After(P, m, Q) ==
    /\ DOMAIN P \subseteq DOMAIN Q
    /\ \E w \in DOMAIN P : P[w] = m.old
    /\ \A w \in DOMAIN P : Q[w] = Rewrite(m, P[w])

\* H[i] is what the paths were when i of the events had happened, and until the next.
IsHistory(H, ms) ==
    /\ ms \in Seq(Move)
    /\ \A i \in 0..Len(ms) : Lines(H[i])
    /\ \A i \in 1..Len(ms) : After(H[i - 1], ms[i], H[i])

\* f is what becomes of the path p when the events after the first n rewrite it, up to k.
Follows(f, p, ms, n, k) ==
    /\ f \in [n..k -> Seq(Units)] /\ f[n] = p
    /\ \A i \in (n + 1)..k : f[i] = Rewrite(ms[i], f[i - 1])

LEMMA Joined ==
  ASSUME NEW r \in Seq(Units), NEW t \in Seq(Units)
  PROVE  /\ r \o t \in Seq(Units) /\ Len(r \o t) = Len(r) + Len(t)
         /\ \A i \in 1..Len(r) : (r \o t)[i] = r[i]
         /\ \A i \in 1..Len(t) : (r \o t)[Len(r) + i] = t[i]
OBVIOUS

LEMMA JoinedThrice ==
  ASSUME NEW r \in Seq(Units), NEW s \in Seq(Units), NEW t \in Seq(Units)
  PROVE  r \o (s \o t) = (r \o s) \o t
BY ConcatAssociative

\* A path in two parts, of which the second one stays when the first one is rewritten.
FrontOnly(old, new, p, t) ==
    IsPrefix(old, p \o t) /\ Rebased(old, new, p \o t) = Rebased(old, new, p) \o t

LEMMA NewBeginningOfFront ==
  ASSUME NEW old \in Seq(Units), NEW new \in Seq(Units), NEW p \in Seq(Units),
         NEW t \in Seq(Units), IsPrefix(old, p)
  PROVE  FrontOnly(old, new, p, t)
<1> DEFINE q == p \o t
<1>1. /\ Len(old) \in Nat /\ Len(p) \in Nat /\ Len(new) \in Nat /\ Len(t) \in Nat
      /\ Len(old) <= Len(p) /\ q \in Seq(Units) /\ Len(q) = Len(p) + Len(t)
      /\ \A k \in 1..Len(p) : q[k] = p[k]
      /\ \A k \in 1..Len(t) : q[Len(p) + k] = t[k]
  BY DEF IsPrefix
<1> HIDE DEF q
<1>2. IsPrefix(old, q)
  <2>1. \A i \in 1..Len(old) : old[i] = p[i]
    BY <1>1 DEF IsPrefix
  <2>2. SubSeq(old, 1, Len(old)) = SubSeq(q, 1, Len(old))
    BY <1>1, <2>1
  <2> QED BY <1>1, <2>2 DEF IsPrefix
<1>3. SubSeq(q, Len(old) + 1, Len(q)) = SubSeq(p, Len(old) + 1, Len(p)) \o t
  <2> DEFINE s == SubSeq(q, Len(old) + 1, Len(q))
             r == SubSeq(p, Len(old) + 1, Len(p))
  <2>1. /\ s \in Seq(Units) /\ Len(s) = Len(p) + Len(t) - Len(old)
        /\ \A i \in 1..Len(s) : s[i] = q[Len(old) + i]
    BY SMTT(20), <1>1
  <2>2. /\ r \in Seq(Units) /\ Len(r) = Len(p) - Len(old)
        /\ \A i \in 1..Len(r) : r[i] = p[Len(old) + i]
    BY <1>1
  <2> HIDE DEF s, r
  <2>3. /\ r \o t \in Seq(Units) /\ Len(r \o t) = Len(r) + Len(t)
        /\ \A i \in 1..Len(r) : (r \o t)[i] = r[i]
        /\ \A i \in 1..Len(t) : (r \o t)[Len(r) + i] = t[i]
    BY <2>2, Joined
  <2>4. Len(r \o t) = Len(s) /\ Len(r) \in Nat /\ Len(s) \in Nat
    BY <1>1, <2>1, <2>2, <2>3
  <2>5. ASSUME NEW i \in 1..Len(s) PROVE s[i] = (r \o t)[i]
    <3>1. CASE i \in 1..Len(r)
      <4>1. Len(old) + i \in 1..Len(p)
        BY <1>1, <2>2, <3>1
      <4> QED BY <1>1, <2>1, <2>2, <2>3, <3>1, <4>1
    <3>2. CASE i \notin 1..Len(r)
      <4> DEFINE k == i - Len(r)
      <4>1. k \in 1..Len(t) /\ i = Len(r) + k /\ Len(old) + i = Len(p) + k
        BY <1>1, <2>1, <2>2, <2>4, <3>2
      <4> HIDE DEF k
      <4>2. (r \o t)[i] = t[k]
        BY <2>3, <4>1
      <4>3. s[i] = q[Len(p) + k]
        BY <2>1, <4>1
      <4> QED BY <1>1, <4>1, <4>2, <4>3
    <3> QED BY <3>1, <3>2
  <2>6. s = r \o t
    BY <2>1, <2>3, <2>4, <2>5, SeqEqual
  <2> QED BY <2>6 DEF s, r
<1>4. SubSeq(p, Len(old) + 1, Len(p)) \in Seq(Units)
  BY <1>1
<1>5. \A r \in Seq(Units) : new \o (r \o t) = (new \o r) \o t
  BY SMTT(20), JoinedThrice
<1>6. Rebased(old, new, q) = Rebased(old, new, p) \o t
  BY <1>3, <1>4, <1>5 DEF Rebased
<1> QED BY <1>2, <1>6 DEF q, FrontOnly

\* What is left of a path without its first elements.
LEMMA Rest ==
  ASSUME NEW p \in Seq(Units), NEW k \in 0..Len(p)
  PROVE  /\ SubSeq(p, k + 1, Len(p)) \in Seq(Units)
         /\ Len(SubSeq(p, k + 1, Len(p))) = Len(p) - k
         /\ \A i \in 1..(Len(p) - k) : SubSeq(p, k + 1, Len(p))[i] = p[k + i]
OBVIOUS

\* The part of a path that begins it and is not longer than the first of two parts.
LEMMA PrefixOfFront ==
  ASSUME NEW old \in Seq(Units), NEW p \in Seq(Units), NEW t \in Seq(Units),
         IsPrefix(old, p \o t), Len(old) <= Len(p)
  PROVE  IsPrefix(old, p)
<1> DEFINE q == p \o t
<1>1. /\ Len(old) \in Nat /\ Len(p) \in Nat /\ q \in Seq(Units)
      /\ Len(q) = Len(p) + Len(t) /\ \A k \in 1..Len(p) : q[k] = p[k]
  BY Joined
<1>2. old = SubSeq(q, 1, Len(old)) /\ Len(old) <= Len(q)
  BY <1>1 DEF IsPrefix
<1> HIDE DEF q
<1>3. SubSeq(q, 1, Len(old)) = SubSeq(p, 1, Len(old))
  BY <1>1
<1> QED BY <1>1, <1>2, <1>3 DEF IsPrefix

LEMMA RebasedWhole ==
  ASSUME NEW old \in Seq(Units), NEW new \in Seq(Units)
  PROVE  IsPrefix(old, old) /\ Rebased(old, new, old) = new
<1>1. SubSeq(old, Len(old) + 1, Len(old)) = <<>>
  OBVIOUS
<1>2. new \o <<>> = new
  OBVIOUS
<1> QED BY <1>1, <1>2, PrefixOfItself DEF Rebased

\* A path that starts where one of the units on p is, and goes on as p does.
OnLine(x, p, P) == \E j \in 1..Len(p) :
    p[j] \in DOMAIN P /\ x = P[p[j]] \o SubSeq(p, j + 1, Len(p))

\* An event leaves such a path one of them.
LEMMA StaysOnLine ==
  ASSUME NEW P, NEW Q, NEW m \in Move, NEW p \in Seq(Units), NEW x,
         Lines(P), After(P, m, Q), OnLine(x, p, P)
  PROVE  x \in Seq(Units) /\ Rewrite(m, x) \in Seq(Units) /\ OnLine(Rewrite(m, x), p, Q)
<1>1. PICK j \in 1..Len(p) :
        p[j] \in DOMAIN P /\ x = P[p[j]] \o SubSeq(p, j + 1, Len(p))
  BY DEF OnLine
<1> DEFINE w == p[j]
           rest == SubSeq(p, j + 1, Len(p))
           front == P[w]
<1>2. /\ rest \in Seq(Units) /\ Len(rest) = Len(p) - j /\ Len(p) \in Nat
      /\ \A i \in 1..Len(rest) : rest[i] = p[j + i]
  BY Rest
<1>3. w \in DOMAIN P /\ front \in Seq(Units) /\ x = front \o rest
  BY <1>1 DEF Lines
<1>4. /\ w \in DOMAIN Q /\ Q[w] = Rewrite(m, front)
  BY <1>3 DEF After
<1>5. PICK v \in DOMAIN P : P[v] = m.old
  BY DEF After
<1>6. /\ m.old \in Seq(Units) /\ m.new \in Seq(Units) /\ Len(m.old) \in Nat
      /\ m.old # <<>> /\ m.old[Len(m.old)] = v
      /\ v \in DOMAIN Q /\ Q[v] = Rewrite(m, m.old)
  BY <1>5 DEF Lines, After, Move
<1> HIDE DEF front, rest, w
<1>7. x \in Seq(Units)
  BY <1>2, <1>3, Joined
<1>8. CASE IsPrefix(m.old, front)
  <2>1. Rewrite(m, x) = Rebased(m.old, m.new, front) \o rest
    <3>1. /\ IsPrefix(m.old, front \o rest)
          /\ Rebased(m.old, m.new, front \o rest) = Rebased(m.old, m.new, front) \o rest
      <4>1. /\ m.old \in Seq(Units) /\ m.new \in Seq(Units)
            /\ front \in Seq(Units) /\ rest \in Seq(Units)
        BY <1>2, <1>3, <1>6
      <4>2. FrontOnly(m.old, m.new, front, rest)
        BY <1>8, <4>1, NewBeginningOfFront
      <4> QED BY <4>2 DEF FrontOnly
    <3> QED BY <1>3, <3>1 DEF Rewrite
  <2>2. Rewrite(m, x) = Q[w] \o rest
    BY <1>4, <1>8, <2>1 DEF Rewrite
  <2>3. OnLine(Rewrite(m, x), p, Q)
    BY <1>4, <2>2, <1>3 DEF OnLine, rest, w
  <2>4. Rebased(m.old, m.new, front) \in Seq(Units)
    <3>1. SubSeq(front, Len(m.old) + 1, Len(front)) \in Seq(Units)
      BY <1>3, <1>6
    <3> QED BY <1>6, <3>1, Joined DEF Rebased
  <2>5. Rewrite(m, x) \in Seq(Units)
    BY <1>2, <2>1, <2>4, Joined
  <2> QED BY <1>7, <2>3, <2>5
<1>9. CASE ~IsPrefix(m.old, front) /\ ~IsPrefix(m.old, x)
  <2>1. Rewrite(m, x) = x /\ Q[w] = front
    BY <1>4, <1>9 DEF Rewrite
  <2>2. OnLine(Rewrite(m, x), p, Q)
    BY <1>3, <1>4, <2>1 DEF OnLine, rest, w
  <2> QED BY <1>7, <2>1, <2>2
<1>10. CASE ~IsPrefix(m.old, front) /\ IsPrefix(m.old, x)
  <2> DEFINE d == Len(m.old) - Len(front)
             s == SubSeq(x, Len(m.old) + 1, Len(x))
             t == SubSeq(p, j + d + 1, Len(p))
  <2>1. /\ Len(x) = Len(front) + Len(rest) /\ Len(front) \in Nat
        /\ \A i \in 1..Len(rest) : x[Len(front) + i] = rest[i]
    <3>1. /\ Len(front \o rest) = Len(front) + Len(rest) /\ Len(front) \in Nat
          /\ \A i \in 1..Len(rest) : (front \o rest)[Len(front) + i] = rest[i]
      <4>1. front \in Seq(Units) /\ rest \in Seq(Units)
        BY <1>2, <1>3
      <4> HIDE DEF s, t, d
      <4> QED BY <4>1, Joined
    <3> QED BY <1>3, <3>1
  <2>2. Len(m.old) > Len(front) /\ Len(m.old) <= Len(x)
    <3>1. Len(m.old) <= Len(x)
      BY <1>10 DEF IsPrefix
    <3>2. ~(Len(m.old) <= Len(front))
      BY <1>2, <1>3, <1>6, <1>10, PrefixOfFront
    <3> QED BY <1>6, <2>1, <3>1, <3>2
  <2>3. /\ d \in 1..Len(rest) /\ Len(m.old) = Len(front) + d /\ j + d \in 1..Len(p)
    BY <1>2, <1>6, <2>1, <2>2
  <2> HIDE DEF d
  <2>4. m.old[Len(m.old)] = x[Len(m.old)]
    <3>1. Len(m.old) \in 1..Len(m.old)
      BY <1>6, <2>1, <2>2
    <3> QED BY <1>6, <1>7, <1>10, <3>1, PrefixElements
  <2>5. v = p[j + d]
    BY <1>2, <1>6, <2>1, <2>3, <2>4
  <2>6. Q[v] = m.new
    BY <1>6, RebasedWhole DEF Rewrite
  <2>7. s = t /\ t \in Seq(Units)
    <3>1. /\ s \in Seq(Units) /\ Len(s) = Len(x) - Len(m.old)
          /\ \A i \in 1..Len(s) : s[i] = x[Len(m.old) + i]
      <4>1. Len(m.old) \in 0..Len(x)
        BY <1>6, <1>7, <2>2
      <4> QED BY <1>7, <4>1, Rest
    <3>2. /\ t \in Seq(Units) /\ Len(t) = Len(p) - (j + d)
          /\ \A i \in 1..Len(t) : t[i] = p[j + d + i]
      <4>1. j + d \in 0..Len(p)
        BY <2>3
      <4> QED BY <4>1, Rest
    <3> HIDE DEF s, t
    <3>3. Len(s) = Len(t) /\ Len(t) \in Nat
      BY <1>2, <2>1, <2>3, <3>1, <3>2
    <3>4. ASSUME NEW i \in 1..Len(s) PROVE s[i] = t[i]
      <4>1. i \in 1..(Len(p) - (j + d)) /\ d \in Nat /\ Len(rest) = Len(p) - j
        BY <1>2, <2>3, <3>2, <3>3
      <4>5. d + i \in 1..Len(rest)
        BY <1>2, <4>1
      <4>6. Len(m.old) + i = Len(front) + (d + i) /\ j + (d + i) = j + d + i
        BY <2>1, <2>3, <4>1
      <4>2. s[i] = rest[d + i]
        BY <2>1, <3>1, <4>5, <4>6
      <4>3. rest[d + i] = p[j + d + i]
        BY <1>2, <4>5, <4>6
      <4> QED BY <3>2, <3>3, <4>2, <4>3
    <3>5. s = t
      BY <3>1, <3>2, <3>3, <3>4, SeqEqual
    <3> QED BY <3>2, <3>5
  <2>8. Rewrite(m, x) = m.new \o t
    BY <1>10, <2>7 DEF Rewrite, Rebased
  <2>9. Rewrite(m, x) = Q[p[j + d]] \o SubSeq(p, (j + d) + 1, Len(p))
    BY <2>5, <2>6, <2>8
  <2>10. OnLine(Rewrite(m, x), p, Q)
    BY <1>6, <2>3, <2>5, <2>9 DEF OnLine
  <2>11. Rewrite(m, x) \in Seq(Units)
    <3> HIDE DEF t
    <3> QED BY <1>6, <2>7, <2>8, Joined
  <2> QED BY <1>7, <2>10, <2>11
<1> QED BY <1>8, <1>9, <1>10

\* Events after the first n take the path p to a path on its line, i events having
\* happened.
Reaches(H, ms, p, n, i) == \E f : Follows(f, p, ms, n, i) /\ OnLine(f[i], p, H[i])

LEMMA ReachesFirst ==
  ASSUME NEW H, NEW ms, IsHistory(H, ms), NEW n \in 0..Len(ms), NEW p \in Seq(Units),
         p # <<>>, p[1] = Root
  PROVE  Reaches(H, ms, p, n, n)
<1> DEFINE f == [i \in n..n |-> p]
<1>1. n \in Nat /\ n..n = {n}
  OBVIOUS
<1>2. Follows(f, p, ms, n, n) /\ f[n] = p
  BY <1>1 DEF Follows
<1>3. OnLine(p, p, H[n])
  <2>1. Root \in DOMAIN H[n] /\ H[n][Root] = <<Root>> /\ Root \in Units
    BY DEF IsHistory, Lines
  <2>2. 1 \in 1..Len(p) /\ p = <<p[1]>> \o SubSeq(p, 1 + 1, Len(p))
    <3>1. Len(p) \in Nat /\ Len(p) # 0
      OBVIOUS
    <3> DEFINE t == SubSeq(p, 1 + 1, Len(p))
    <3>2. /\ t \in Seq(Units) /\ Len(t) = Len(p) - 1
          /\ \A i \in 1..Len(t) : t[i] = p[1 + i]
      <4>1. 1 \in 0..Len(p)
        BY <3>1
      <4> QED BY <4>1, Rest
    <3> HIDE DEF t
    <3>3. /\ <<p[1]>> \o t \in Seq(Units) /\ Len(<<p[1]>> \o t) = Len(p)
          /\ (<<p[1]>> \o t)[1] = p[1]
          /\ \A i \in 1..Len(t) : (<<p[1]>> \o t)[1 + i] = t[i]
      <4>1. <<p[1]>> \in Seq(Units) /\ Len(<<p[1]>>) = 1 /\ <<p[1]>>[1] = p[1]
        BY <3>1
      <4> QED BY <3>1, <3>2, <4>1, Joined
    <3>4. \A i \in 1..Len(p) : p[i] = (<<p[1]>> \o t)[i]
      <4> TAKE i \in 1..Len(p)
      <4>1. CASE i = 1
        BY <3>3, <4>1
      <4>2. CASE i # 1
        <5> DEFINE k == i - 1
        <5>1. k \in 1..Len(t) /\ i = 1 + k
          BY <3>1, <3>2, <4>2
        <5> HIDE DEF k
        <5> QED BY <3>2, <3>3, <5>1
      <4> QED BY <4>1, <4>2
    <3>5. p = <<p[1]>> \o t
      BY <3>3, <3>4, SeqEqual
    <3> QED BY <3>1, <3>5 DEF t
  <2>3. p[1] \in DOMAIN H[n] /\ p = H[n][p[1]] \o SubSeq(p, 1 + 1, Len(p))
    BY <2>1, <2>2
  <2> QED BY <2>2, <2>3 DEF OnLine
<1> HIDE DEF f
<1> QED BY <1>2, <1>3 DEF Reaches

LEMMA ReachesNext ==
  ASSUME NEW H, NEW ms, IsHistory(H, ms), NEW p \in Seq(Units),
         NEW n \in Nat, NEW i \in Nat, n <= i, i + 1 <= Len(ms), Reaches(H, ms, p, n, i)
  PROVE  Reaches(H, ms, p, n, i + 1)
<1>1. PICK f : Follows(f, p, ms, n, i) /\ OnLine(f[i], p, H[i])
  BY DEF Reaches
<1> DEFINE x == Rewrite(ms[i + 1], f[i])
           g == [k \in n..(i + 1) |-> IF k = i + 1 THEN x ELSE f[k]]
<1>2. i \in 0..Len(ms) /\ i + 1 \in 0..Len(ms) /\ i + 1 \in 1..Len(ms) /\ (i + 1) - 1 = i
  BY DEF IsHistory
<1>3. ms[i + 1] \in Move /\ Lines(H[i]) /\ After(H[i], ms[i + 1], H[i + 1])
  BY <1>2 DEF IsHistory
<1>4. x \in Seq(Units) /\ OnLine(x, p, H[i + 1])
  BY <1>1, <1>3, StaysOnLine
<1>5. /\ f \in [n..i -> Seq(Units)] /\ f[n] = p
      /\ \A k \in (n + 1)..i : f[k] = Rewrite(ms[k], f[k - 1])
  BY <1>1 DEF Follows
<1>6. /\ \A k \in n..i : g[k] = f[k] /\ k \in n..(i + 1)
      /\ g[i + 1] = x /\ g[i] = f[i]
      /\ \A k \in n..(i + 1) : k \in n..i \/ k = i + 1
  OBVIOUS
<1>7. g \in [n..(i + 1) -> Seq(Units)]
  <2> HIDE DEF x
  <2> QED BY <1>4, <1>5
<1>8. g[n] = p
  BY <1>5
<1>9. \A k \in (n + 1)..(i + 1) : g[k] = Rewrite(ms[k], g[k - 1])
  <2> TAKE k \in (n + 1)..(i + 1)
  <2>1. CASE k = i + 1
    <3>1. k - 1 = i
      BY <2>1
    <3> HIDE DEF g
    <3> QED BY <1>6, <2>1, <3>1
  <2>2. CASE k # i + 1
    <3>1. k \in (n + 1)..i /\ k \in n..i /\ k - 1 \in n..i
      BY <2>2
    <3> HIDE DEF g
    <3> QED BY <1>5, <1>6, <3>1
  <2> QED BY <2>1, <2>2
<1> HIDE DEF g, x
<1>10. Follows(g, p, ms, n, i + 1)
  BY <1>7, <1>8, <1>9 DEF Follows
<1> QED BY <1>4, <1>6, <1>10 DEF Reaches

\* The path of a unit, whenever it was read, is a path the events take to itself: the
\* units on it are where they were when it was read.
LEMMA ReturnsToItself ==
  ASSUME NEW H, NEW ms, IsHistory(H, ms), NEW n \in Nat, NEW k \in Nat,
         n <= k, k <= Len(ms), NEW u \in DOMAIN H[k]
  PROVE  \E f : Follows(f, H[k][u], ms, n, k) /\ f[k] = H[k][u]
<1> DEFINE p == H[k][u]
           T == {i \in n..k : ~Reaches(H, ms, p, n, i)}
<1>1. k \in 0..Len(ms) /\ n \in 0..Len(ms)
  BY DEF IsHistory
<1>2. /\ p \in Seq(Units) /\ p # <<>> /\ p[1] = Root
      /\ \A j \in 1..Len(p) : p[j] \in DOMAIN H[k] /\ H[k][p[j]] = SubSeq(p, 1, j)
  BY <1>1 DEF IsHistory, Lines
<1> HIDE DEF p
<1>3. Reaches(H, ms, p, n, k)
  <2>1. SUFFICES ASSUME T # {} PROVE FALSE
    BY DEF T
  <2>2. T \in SUBSET Nat
    OBVIOUS
  <2>3. PICK m \in T : \A i \in T : m <= i
    <3> HIDE DEF T
    <3> QED BY <2>1, <2>2, Least
  <2>4. m \in n..k /\ ~Reaches(H, ms, p, n, m)
    OBVIOUS
  <2>5. m # n
    BY <1>1, <1>2, <2>4, ReachesFirst
  <2> DEFINE i == m - 1
  <2>6. i \in n..k /\ i \in Nat /\ n <= i /\ i + 1 = m /\ i + 1 <= Len(ms) /\ ~(m <= i)
    BY <1>1, <2>4, <2>5
  <2> HIDE DEF i
  <2>7. Reaches(H, ms, p, n, i)
    BY <2>3, <2>6
  <2> QED BY <1>2, <2>4, <2>6, <2>7, ReachesNext
<1>4. PICK f : Follows(f, p, ms, n, k) /\ OnLine(f[k], p, H[k])
  BY <1>3 DEF Reaches
<1>5. PICK j \in 1..Len(p) : f[k] = SubSeq(p, 1, j) \o SubSeq(p, j + 1, Len(p))
  BY <1>2, <1>4 DEF OnLine
<1>6. f[k] = p
  <2>1. Len(p) \in Nat /\ 1 \in 1..(Len(p) + 1)
    BY <1>2
  <2>2. SubSeq(p, 1, j) \o SubSeq(p, j + 1, Len(p)) = SubSeq(p, 1, Len(p))
    BY <1>2, <2>1, ConcatAdjacentSubSeq
  <2>3. SubSeq(p, 1, Len(p)) = p
    BY <1>2
  <2> QED BY <1>5, <2>2, <2>3
<1> QED BY <1>4, <1>6 DEF p

\* A path no event rewrites stays.
LEMMA StaysUntouched ==
  ASSUME NEW H, NEW ms, IsHistory(H, ms), NEW n \in Nat, NEW k \in Nat,
         k <= n, n <= Len(ms), NEW u \in DOMAIN H[k],
         \A i \in 1..n : ~IsPrefix(ms[i].old, H[k][u])
  PROVE  u \in DOMAIN H[n] /\ H[n][u] = H[k][u]
<1> DEFINE p == H[k][u]
           Same(i) == u \in DOMAIN H[i] /\ H[i][u] = p
           T == {i \in k..n : ~Same(i)}
<1>1. SUFFICES ASSUME T # {} PROVE FALSE
  OBVIOUS
<1>2. T \in SUBSET Nat
  OBVIOUS
<1>3. PICK m \in T : \A i \in T : m <= i
  <2> HIDE DEF T
  <2> QED BY <1>1, <1>2, Least
<1>4. m \in k..n /\ ~Same(m) /\ m # k
  OBVIOUS
<1> DEFINE j == m - 1
<1>5. j \in k..n /\ j \in Nat /\ m \in 1..n /\ m \in 1..Len(ms) /\ ~(m <= j)
  <2>1. Len(ms) \in Nat
    BY DEF IsHistory
  <2> QED BY <1>4, <2>1
<1>6. Same(j)
  <2>1. j \notin T
    <3> HIDE DEF T, j
    <3> QED BY <1>3, <1>5
  <2> QED BY <1>5, <2>1
<1>7. After(H[j], ms[m], H[m])
  BY <1>5 DEF IsHistory
<1> HIDE DEF j
<1>8. u \in DOMAIN H[m] /\ H[m][u] = Rewrite(ms[m], p)
  BY <1>6, <1>7 DEF After
<1>9. Rewrite(ms[m], p) = p
  BY <1>5 DEF Rewrite
<1> QED BY <1>4, <1>8, <1>9

-----------------------------------------------------------------------------
(* Histories                                                               *)

\* A unit that is there stays there.
LEMMA StaysThere ==
  ASSUME NEW H, NEW ms, IsHistory(H, ms), NEW k \in Nat, NEW n \in Nat,
         k <= n, n <= Len(ms), NEW u \in DOMAIN H[k]
  PROVE  u \in DOMAIN H[n]
<1> DEFINE T == {i \in k..n : u \notin DOMAIN H[i]}
<1>1. SUFFICES ASSUME T # {} PROVE FALSE
  OBVIOUS
<1>2. T \in SUBSET Nat
  OBVIOUS
<1>3. PICK m \in T : \A i \in T : m <= i
  <2> HIDE DEF T
  <2> QED BY <1>1, <1>2, Least
<1>4. m \in k..n /\ u \notin DOMAIN H[m] /\ m # k
  OBVIOUS
<1> DEFINE j == m - 1
<1>5. j \in k..n /\ m \in 1..Len(ms) /\ ~(m <= j)
  <2>1. Len(ms) \in Nat
    BY DEF IsHistory
  <2> QED BY <1>4, <2>1
<1>6. u \in DOMAIN H[j]
  <2>1. j \notin T
    <3> HIDE DEF T, j
    <3> QED BY <1>3, <1>5
  <2> QED BY <1>5, <2>1
<1>7. After(H[j], ms[m], H[m])
  BY <1>5 DEF IsHistory
<1> HIDE DEF j
<1> QED BY <1>4, <1>6, <1>7 DEF After

\* What has arrived at the path of a unit goes on with the unit.
LEMMA GoesAlong ==
  ASSUME NEW H, NEW ms, IsHistory(H, ms), NEW n \in Nat, NEW k \in Nat, NEW p, NEW f,
         n <= k, k <= Len(ms), NEW u \in DOMAIN H[k],
         Follows(f, p, ms, n, k), f[k] = H[k][u]
  PROVE  \E g : Follows(g, p, ms, n, Len(ms)) /\ g[Len(ms)] = H[Len(ms)][u]
<1> DEFINE g == [i \in n..Len(ms) |-> IF i <= k THEN f[i] ELSE H[i][u]]
<1>1. Len(ms) \in Nat
  BY DEF IsHistory
<1>2. /\ f \in [n..k -> Seq(Units)] /\ f[n] = p
      /\ \A i \in (n + 1)..k : f[i] = Rewrite(ms[i], f[i - 1])
  BY DEF Follows
<1>3. ASSUME NEW i \in k..Len(ms) PROVE g[i] = H[i][u] /\ g[i] \in Seq(Units)
  <2>1. u \in DOMAIN H[i]
    BY <1>1, StaysThere
  <2>2. H[i][u] \in Seq(Units)
    BY <1>1, <2>1 DEF IsHistory, Lines
  <2>3. g[i] = H[i][u]
    BY <1>1
  <2> QED BY <2>2, <2>3
<1>4. ASSUME NEW i \in n..k PROVE g[i] = f[i] /\ g[i] \in Seq(Units)
  <2>1. g[i] = f[i]
    BY <1>1
  <2> QED BY <1>2, <2>1
<1>5. g \in [n..Len(ms) -> Seq(Units)]
  <2>1. \A i \in n..Len(ms) : i \in n..k \/ i \in k..Len(ms)
    BY <1>1
  <2>2. \A i \in n..Len(ms) : g[i] \in Seq(Units)
    <3> HIDE DEF g
    <3> QED BY <1>3, <1>4, <2>1
  <2> QED BY <2>2
<1>6. g[n] = p
  BY <1>2, <1>4
<1>7. ASSUME NEW i \in (n + 1)..Len(ms) PROVE g[i] = Rewrite(ms[i], g[i - 1])
  <2>1. CASE i <= k
    <3>1. i \in (n + 1)..k /\ i \in n..k /\ i - 1 \in n..k
      BY <1>1, <2>1
    <3> HIDE DEF g
    <3> QED BY <1>2, <1>4, <3>1
  <2>2. CASE ~(i <= k)
    <3>1. i \in k..Len(ms) /\ i - 1 \in k..Len(ms) /\ i \in 1..Len(ms)
      BY <1>1, <2>2
    <3>2. After(H[i - 1], ms[i], H[i])
      BY <3>1 DEF IsHistory
    <3>3. u \in DOMAIN H[i - 1]
      BY <1>1, <3>1, StaysThere
    <3> HIDE DEF g
    <3> QED BY <1>3, <3>1, <3>2, <3>3 DEF After
  <2> QED BY <2>1, <2>2
<1>8. g[Len(ms)] = H[Len(ms)][u]
  BY <1>1, <1>3
<1> HIDE DEF g
<1> QED BY <1>5, <1>6, <1>7, <1>8 DEF Follows

\* A path read at any time that the first n events leave alone is taken to the path
\* of its unit by the rest of the events.
LEMMA Arrives ==
  ASSUME NEW H, NEW ms, IsHistory(H, ms), NEW n \in Nat, NEW k \in Nat,
         n <= Len(ms), k <= Len(ms), NEW u \in DOMAIN H[k],
         \A i \in 1..n : ~IsPrefix(ms[i].old, H[k][u])
  PROVE  /\ u \in DOMAIN H[Len(ms)]
         /\ \E g : Follows(g, H[k][u], ms, n, Len(ms)) /\ g[Len(ms)] = H[Len(ms)][u]
<1>1. Len(ms) \in Nat
  BY DEF IsHistory
<1>2. u \in DOMAIN H[Len(ms)]
  BY <1>1, StaysThere
<1>3. CASE n <= k
  <2>1. PICK f : Follows(f, H[k][u], ms, n, k) /\ f[k] = H[k][u]
    BY <1>3, ReturnsToItself
  <2> QED BY <1>2, <1>3, <2>1, GoesAlong
<1>4. CASE k <= n
  <2> DEFINE f == [i \in n..n |-> H[k][u]]
  <2>1. u \in DOMAIN H[n] /\ H[n][u] = H[k][u]
    BY <1>4, StaysUntouched
  <2>2. H[k][u] \in Seq(Units)
    BY <1>1 DEF IsHistory, Lines
  <2>3. Follows(f, H[k][u], ms, n, n) /\ f[n] = H[n][u]
    BY <2>1, <2>2 DEF Follows
  <2> HIDE DEF f
  <2> QED BY <1>2, <2>1, <2>3, GoesAlong
<1> QED BY <1>3, <1>4

\* What was once the path of a unit is so in another history, too.
Remembers(G, H, ms) == \A k \in 0..Len(ms) :
    \A u \in DOMAIN H[k] : u \in DOMAIN G[k] /\ G[k][u] = H[k][u]

\* Units are created between two events.
LEMMA HistoryGrows ==
  ASSUME NEW H, NEW ms, IsHistory(H, ms), NEW Q, Lines(Q),
         DOMAIN H[Len(ms)] \subseteq DOMAIN Q,
         \A u \in DOMAIN H[Len(ms)] : Q[u] = H[Len(ms)][u]
  PROVE  \E G : IsHistory(G, ms) /\ G[Len(ms)] = Q /\ Remembers(G, H, ms)
<1> DEFINE G == [i \in 0..Len(ms) |-> IF i = Len(ms) THEN Q ELSE H[i]]
<1>1. Len(ms) \in Nat /\ ms \in Seq(Move)
  BY DEF IsHistory
<1>2. G[Len(ms)] = Q /\ \A i \in 0..Len(ms) : i # Len(ms) => G[i] = H[i]
  BY <1>1
<1> HIDE DEF G
<1>3. \A i \in 0..Len(ms) : Lines(G[i])
  BY <1>2 DEF IsHistory
<1>4. ASSUME NEW i \in 1..Len(ms) PROVE After(G[i - 1], ms[i], G[i])
  <2>1. After(H[i - 1], ms[i], H[i])
    BY DEF IsHistory
  <2>2. i - 1 \in 0..Len(ms) /\ i - 1 # Len(ms) /\ i \in 0..Len(ms)
    BY <1>1
  <2>3. G[i - 1] = H[i - 1]
    BY <1>2, <2>2
  <2>4. CASE i # Len(ms)
    BY <1>2, <2>1, <2>2, <2>3, <2>4
  <2>5. CASE i = Len(ms)
    BY <1>2, <2>1, <2>3, <2>5 DEF After
  <2> QED BY <2>4, <2>5
<1>5. Remembers(G, H, ms)
  BY <1>2 DEF Remembers
<1> QED BY <1>1, <1>2, <1>3, <1>4, <1>5 DEF IsHistory

\* An event happens.
LEMMA HistoryMoves ==
  ASSUME NEW H, NEW ms, IsHistory(H, ms), NEW m \in Move, NEW Q, Lines(Q),
         After(H[Len(ms)], m, Q)
  PROVE  \E G : /\ IsHistory(G, Append(ms, m)) /\ G[Len(ms) + 1] = Q
                /\ Remembers(G, H, ms)
<1> DEFINE G == [i \in 0..(Len(ms) + 1) |-> IF i = Len(ms) + 1 THEN Q ELSE H[i]]
           es == Append(ms, m)
<1>1. Len(ms) \in Nat /\ ms \in Seq(Move)
  BY DEF IsHistory
<1>2. /\ G[Len(ms) + 1] = Q /\ \A i \in 0..Len(ms) : G[i] = H[i]
      /\ \A i \in 0..(Len(ms) + 1) : i \in 0..Len(ms) \/ i = Len(ms) + 1
  BY <1>1
<1>3. /\ es \in Seq(Move) /\ Len(es) = Len(ms) + 1
      /\ es[Len(ms) + 1] = m /\ \A i \in 1..Len(ms) : es[i] = ms[i]
  BY <1>1
<1> HIDE DEF G, es
<1>4. \A i \in 0..Len(es) : Lines(G[i])
  BY <1>2, <1>3 DEF IsHistory
<1>5. ASSUME NEW i \in 1..Len(es) PROVE After(G[i - 1], es[i], G[i])
  <2>1. CASE i \in 1..Len(ms)
    <3>1. i - 1 \in 0..Len(ms) /\ i \in 0..Len(ms)
      BY <1>1, <2>1
    <3>2. After(H[i - 1], ms[i], H[i])
      BY <2>1 DEF IsHistory
    <3> QED BY <1>2, <1>3, <2>1, <3>1, <3>2
  <2>2. CASE i = Len(ms) + 1
    <3>1. i - 1 = Len(ms) /\ Len(ms) \in 0..Len(ms)
      BY <1>1, <2>2
    <3> QED BY <1>2, <1>3, <2>2, <3>1
  <2>3. i \in 1..Len(ms) \/ i = Len(ms) + 1
    BY <1>1, <1>3
  <2> QED BY <2>1, <2>2, <2>3
<1>6. Remembers(G, H, ms)
  BY <1>2 DEF Remembers
<1>7. IsHistory(G, es)
  BY <1>3, <1>4, <1>5 DEF IsHistory
<1> QED BY <1>2, <1>6, <1>7 DEF es

\* A path follows one more event.
LEMMA FollowsOneMore ==
  ASSUME NEW ms \in Seq(Move), NEW m \in Move, NEW n \in Nat, n <= Len(ms), NEW p, NEW f,
         Follows(f, p, ms, n, Len(ms)), Rewrite(m, f[Len(ms)]) \in Seq(Units)
  PROVE  \E g : /\ Follows(g, p, Append(ms, m), n, Len(ms) + 1)
                /\ g[Len(ms) + 1] = Rewrite(m, f[Len(ms)])
<1> DEFINE x == Rewrite(m, f[Len(ms)])
           g == [i \in n..(Len(ms) + 1) |-> IF i = Len(ms) + 1 THEN x ELSE f[i]]
           es == Append(ms, m)
<1>1. Len(ms) \in Nat
  OBVIOUS
<1>2. /\ f \in [n..Len(ms) -> Seq(Units)] /\ f[n] = p
      /\ \A i \in (n + 1)..Len(ms) : f[i] = Rewrite(ms[i], f[i - 1])
  BY DEF Follows
<1>3. es[Len(ms) + 1] = m /\ \A i \in 1..Len(ms) : es[i] = ms[i]
  OBVIOUS
<1> HIDE DEF es
<1>4. /\ \A i \in n..Len(ms) : g[i] = f[i]
      /\ g[Len(ms) + 1] = x
      /\ \A i \in n..(Len(ms) + 1) : i \in n..Len(ms) \/ i = Len(ms) + 1
  BY <1>1
<1>5. g \in [n..(Len(ms) + 1) -> Seq(Units)]
  <2>1. x \in Seq(Units)
    OBVIOUS
  <2> HIDE DEF x
  <2> QED BY <1>1, <1>2, <2>1
<1>6. g[n] = p
  BY <1>1, <1>2, <1>4
<1>7. ASSUME NEW i \in (n + 1)..(Len(ms) + 1) PROVE g[i] = Rewrite(es[i], g[i - 1])
  <2>1. CASE i = Len(ms) + 1
    <3>1. i - 1 = Len(ms) /\ Len(ms) \in n..Len(ms)
      BY <1>1, <2>1
    <3> HIDE DEF g
    <3> QED BY <1>3, <1>4, <2>1, <3>1
  <2>2. CASE i # Len(ms) + 1
    <3>1. /\ i \in (n + 1)..Len(ms) /\ i \in n..Len(ms) /\ i - 1 \in n..Len(ms)
          /\ i \in 1..Len(ms)
      BY <1>1, <2>2
    <3> HIDE DEF g
    <3> QED BY <1>2, <1>3, <1>4, <3>1
  <2> QED BY <2>1, <2>2
<1> HIDE DEF g, x
<1>8. Follows(g, p, es, n, Len(ms) + 1)
  BY <1>5, <1>6, <1>7 DEF Follows
<1>9. g[Len(ms) + 1] = x
  BY <1>4
<1> QED BY <1>8, <1>9 DEF es, x

\* A path that has followed the next event has the rest before it.
LEMMA FollowsRest ==
  ASSUME NEW ms, NEW n \in Nat, NEW k \in Nat, n + 1 <= k, NEW p, NEW f,
         Follows(f, p, ms, n, k)
  PROVE  \E g : Follows(g, Rewrite(ms[n + 1], p), ms, n + 1, k) /\ g[k] = f[k]
<1> DEFINE g == [i \in (n + 1)..k |-> f[i]]
<1>1. /\ f \in [n..k -> Seq(Units)] /\ f[n] = p
      /\ \A i \in (n + 1)..k : f[i] = Rewrite(ms[i], f[i - 1])
  BY DEF Follows
<1>2. \A i \in (n + 1)..k : g[i] = f[i] /\ f[i] \in Seq(Units)
  BY <1>1
<1>3. g \in [(n + 1)..k -> Seq(Units)]
  BY <1>1
<1>4. g[n + 1] = Rewrite(ms[n + 1], p)
  <2>1. n + 1 \in (n + 1)..k /\ (n + 1) - 1 = n
    OBVIOUS
  <2> HIDE DEF g
  <2> QED BY <1>1, <1>2, <2>1
<1>5. ASSUME NEW i \in ((n + 1) + 1)..k PROVE g[i] = Rewrite(ms[i], g[i - 1])
  <2>1. i \in (n + 1)..k /\ i - 1 \in (n + 1)..k
    OBVIOUS
  <2> HIDE DEF g
  <2> QED BY <1>1, <1>2, <2>1
<1>6. g[k] = f[k]
  BY <1>2
<1> HIDE DEF g
<1> QED BY <1>3, <1>4, <1>5, <1>6 DEF Follows

-----------------------------------------------------------------------------
(* Reads                                                                   *)

\* A step that only lets a command read keeps the tree as it should be, if what the
\* command has read is.
LEMMA ReadKeeps ==
  ASSUME OrgInv, ReadsOnly, NEW r \in Commands, NEW q \in CommandType,
         command' = [command EXCEPT ![r] = q],
         Shaped(q, Used), ~overlap /\ ~q.stale => StillTrue(q)
  PROVE  OrgInv'
<1>1. tree' = tree /\ moves' = moves /\ overlap' = overlap
  BY DEF ReadsOnly
<1>2. command \in [Commands -> CommandType]
  BY DEF OrgInv, TreeIsSound, OrgTypeOK, CommandType
<1>3. command' \in [Commands -> CommandType]
  BY <1>2
<1>4. OrgTypeOK'
  BY <1>1, <1>3 DEF OrgInv, TreeIsSound, OrgTypeOK, Used, CommandType
<1>5. (DepthFollowsPath /\ PathsFollowParents /\ ActiveUnderActive /\ DepthBounded)'
  BY <1>1 DEF OrgInv, TreeIsSound, DepthFollowsPath, PathsFollowParents,
              ActiveUnderActive, DepthBounded, Used
<1>6. RootInv'
  BY <1>1 DEF OrgInv, RootInv
<1>7. \A c \in Commands : command'[c] = IF c = r THEN q ELSE command[c]
  BY <1>2
<1>8. \A p : (Shaped(p, Used) => Shaped(p, Used')) /\ (StillTrue(p) => StillTrue(p)')
  BY <1>1 DEF Shaped, StillTrue, Used, Seen, Below
<1>9. CommandsInv'
  <2>1. \A c \in Commands : Shaped(command'[c], Used)
    BY <1>7 DEF OrgInv, CommandsInv
  <2> QED BY <1>1, <2>1 DEF CommandsInv, Shaped, Used
<1>10. ChecksInv'
  <2>1. ~overlap => \A c \in Commands : ~command'[c].stale => StillTrue(command'[c])
    BY <1>7 DEF OrgInv, ChecksInv
  <2> QED BY SMTT(20), <1>1, <2>1 DEF ChecksInv, StillTrue, Used, Seen, Below
<1> QED BY <1>4, <1>5, <1>6, <1>9, <1>10 DEF OrgInv, TreeIsSound

\* What is read of a unit.
LEMMA SeenUnit ==
  ASSUME OrgInv, NEW u \in Used
  PROVE  /\ Seen(u) \in UnitSeen /\ u \in Units
         /\ IsPath(Seen(u).path, Seen(u).depth)
         /\ Seen(u).path[Len(Seen(u).path)] = u
<1>1. /\ tree[u] \in Unit /\ u \in Units /\ Len(tree[u].path) = tree[u].depth + 1
      /\ tree[u].path[1] = Root /\ tree[u].path[Len(tree[u].path)] = u
  BY DEF OrgInv, TreeIsSound, OrgTypeOK, DepthFollowsPath
<1>2. /\ Seen(u).path = tree[u].path /\ Seen(u).depth = tree[u].depth
      /\ Seen(u).parentId = tree[u].parentId
      /\ Seen(u) = [parentId |-> tree[u].parentId, path |-> tree[u].path,
                    depth |-> tree[u].depth]
  BY DEF Seen
<1>3. Seen(u) \in UnitSeen
  BY <1>1, <1>2 DEF Unit, UnitSeen
<1> QED BY <1>1, <1>2, <1>3 DEF IsPath, Unit

LEMMA TypeOfIdle == Idle \in CommandType /\ None \in UnitSeen /\ ~Idle.stale
<1>1. \A S : <<>> \in Seq(S)
  OBVIOUS
<1> QED BY <1>1 DEF Idle, None, CommandType, UnitSeen

LEMMA CreateReadKeeps ==
  ASSUME OrgInv, NEW r \in Commands, NEW id \in Units, NEW to \in Units,
         CreateRead(r, id, to)
  PROVE  OrgInv'
<1> DEFINE q == [Idle EXCEPT !.id = id, !.to = to, !.parent = Seen(to), !.pc = "create"]
<1>1. /\ to \in Used /\ id \notin Used /\ tree[to].active /\ tree[to].depth + 1 < MAX_DEPTH
      /\ command' = [command EXCEPT ![r] = q] /\ ReadsOnly
  BY DEF CreateRead, Fresh, Reads, Idle
<1>2. Seen(to) \in UnitSeen /\ IsPath(Seen(to).path, Seen(to).depth)
  BY <1>1, SeenUnit
<1>3. q \in CommandType
  BY <1>2, TypeOfIdle DEF CommandType, Idle
<1>4. q.pc = "create" /\ q.id = id /\ q.to = to /\ q.parent = Seen(to)
  BY DEF Idle
<1>5. Shaped(q, Used)
  <2> HIDE DEF q
  <2> QED BY <1>2, <1>4 DEF Shaped
<1>6. Seen(to).depth = tree[to].depth
  BY DEF Seen
<1>7. StillTrue(q)
  <2> HIDE DEF q
  <2> QED BY <1>1, <1>4, <1>6 DEF StillTrue
<1> QED
  <2> HIDE DEF q
  <2> QED BY <1>1, <1>3, <1>5, <1>7, ReadKeeps

LEMMA MoveReadUnitKeeps ==
  ASSUME OrgInv, NEW r \in Commands, NEW id \in Units, MoveReadUnit(r, id)
  PROVE  OrgInv'
<1> DEFINE q == [Idle EXCEPT !.id = id, !.unit = Seen(id), !.pc = "moveParent"]
<1>1. /\ id \in Used /\ tree[id].parentId # NoUnit
      /\ command' = [command EXCEPT ![r] = q] /\ ReadsOnly
  BY DEF MoveReadUnit, Reads, Idle
<1>2. /\ Seen(id) \in UnitSeen /\ IsPath(Seen(id).path, Seen(id).depth)
      /\ Seen(id).path[Len(Seen(id).path)] = id
  BY <1>1, SeenUnit
<1>3. q \in CommandType
  BY <1>2, TypeOfIdle DEF CommandType, Idle
<1>4. q.pc = "moveParent" /\ q.id = id /\ q.unit = Seen(id)
  BY DEF Idle
<1>5. Shaped(q, Used)
  <2> HIDE DEF q
  <2> QED BY <1>1, <1>2, <1>4 DEF Shaped
<1>6. Seen(id).parentId = tree[id].parentId
  BY DEF Seen
<1>7. StillTrue(q)
  <2> HIDE DEF q
  <2> QED BY <1>1, <1>4, <1>6 DEF StillTrue
<1> QED
  <2> HIDE DEF q
  <2> QED BY <1>1, <1>3, <1>5, <1>7, ReadKeeps

LEMMA MoveReadParentKeeps ==
  ASSUME OrgInv, NEW r \in Commands, NEW to \in Units, MoveReadParent(r, to)
  PROVE  OrgInv'
<1> DEFINE p == command[r]
           q == [p EXCEPT !.to = to, !.parent = Seen(to), !.pc = "moveDeepest"]
<1>1. /\ p.pc = "moveParent" /\ to \in Used /\ ~IsPrefix(p.unit.path, tree[to].path)
      /\ tree[to].active
  BY DEF MoveReadParent
<1>2. p \in CommandType /\ Shaped(p, Used) /\ (~overlap /\ ~p.stale => StillTrue(p))
  BY DEF OrgInv, TreeIsSound, OrgTypeOK, CommandType, CommandsInv, ChecksInv
<1> HIDE DEF p
<1>3. command' = [command EXCEPT ![r] = q] /\ ReadsOnly
  BY <1>2 DEF MoveReadParent, Reads, CommandType, p
<1>4. Seen(to) \in UnitSeen /\ IsPath(Seen(to).path, Seen(to).depth)
  BY <1>1, SeenUnit
<1>5. q \in CommandType
  BY <1>2, <1>4 DEF CommandType
<1>6. /\ q.pc = "moveDeepest" /\ q.id = p.id /\ q.unit = p.unit /\ q.to = to
      /\ q.parent = Seen(to) /\ q.stale = p.stale
  BY <1>2 DEF CommandType
<1>7. Shaped(q, Used)
  <2> HIDE DEF q
  <2> QED BY <1>1, <1>2, <1>4, <1>6 DEF Shaped
<1>8. ~overlap /\ ~q.stale => StillTrue(q)
  <2> HIDE DEF q
  <2> QED BY <1>1, <1>2, <1>6 DEF StillTrue
<1> QED
  <2> HIDE DEF q
  <2> QED BY <1>3, <1>5, <1>7, <1>8, ReadKeeps

LEMMA MoveReadDeepestKeeps ==
  ASSUME OrgInv, NEW r \in Commands, MoveReadDeepest(r)
  PROVE  OrgInv'
<1> DEFINE p == command[r]
           q == [p EXCEPT !.pc = "move"]
<1>1. p \in CommandType /\ Shaped(p, Used) /\ (~overlap /\ ~p.stale => StillTrue(p))
  BY DEF OrgInv, TreeIsSound, OrgTypeOK, CommandType, CommandsInv, ChecksInv
<1>2. p.pc = "moveDeepest"
  BY DEF MoveReadDeepest
<1>3. \A u \in Below(p.unit.path) :
         tree[u].depth + p.parent.depth + 1 < MAX_DEPTH + p.unit.depth
  <2> DEFINE depths == {tree[u].depth : u \in Below(p.unit.path)}
  <2>1. \A d \in IF depths = {} THEN {p.unit.depth} ELSE depths :
          d + p.parent.depth + 1 < MAX_DEPTH + p.unit.depth
    BY DEF MoveReadDeepest
  <2>2. ASSUME NEW u \in Below(p.unit.path)
        PROVE  tree[u].depth + p.parent.depth + 1 < MAX_DEPTH + p.unit.depth
    <3>1. tree[u].depth \in depths
      OBVIOUS
    <3> HIDE DEF depths, p
    <3> QED BY <2>1, <3>1
  <2> QED BY <2>2
<1> HIDE DEF p
<1>4. command' = [command EXCEPT ![r] = q] /\ ReadsOnly
  BY DEF MoveReadDeepest, Reads, p
<1>5. q \in CommandType
  BY <1>1 DEF CommandType
<1>6. /\ q.pc = "move" /\ q.id = p.id /\ q.unit = p.unit /\ q.to = p.to
      /\ q.parent = p.parent /\ q.stale = p.stale
  BY <1>1 DEF CommandType
<1>7. Shaped(q, Used)
  <2> HIDE DEF q
  <2> QED BY <1>1, <1>2, <1>6 DEF Shaped
<1>8. ~overlap /\ ~q.stale => StillTrue(q)
  <2> HIDE DEF q
  <2> QED BY <1>1, <1>2, <1>3, <1>6 DEF StillTrue
<1> QED
  <2> HIDE DEF q
  <2> QED BY <1>4, <1>5, <1>7, <1>8, ReadKeeps

LEMMA DeactivateReadKeeps ==
  ASSUME OrgInv, NEW r \in Commands, NEW id \in Units, DeactivateRead(r, id)
  PROVE  OrgInv'
<1> DEFINE q == [Idle EXCEPT !.id = id, !.pc = "deactivate"]
<1>1. /\ id \in Used /\ tree[id].parentId # NoUnit
      /\ \A u \in Used : tree[u].parentId = id => ~tree[u].active
      /\ command' = [command EXCEPT ![r] = q] /\ ReadsOnly
  BY DEF DeactivateRead, Reads, Idle
<1>2. q \in CommandType
  BY TypeOfIdle DEF CommandType, Idle
<1>3. q.pc = "deactivate" /\ q.id = id
  BY DEF Idle
<1>4. Shaped(q, Used) /\ StillTrue(q)
  <2> HIDE DEF q
  <2> QED BY <1>1, <1>3 DEF Shaped, StillTrue
<1> QED
  <2> HIDE DEF q
  <2> QED BY <1>1, <1>2, <1>4, ReadKeeps

LEMMA IdleKeeps ==
  ASSUME OrgInv, ReadsOnly, NEW r \in Commands, command' = [command EXCEPT ![r] = Idle]
  PROVE  OrgInv'
<1>1. Shaped(Idle, Used) /\ StillTrue(Idle)
  BY DEF Shaped, StillTrue, Idle
<1> QED BY <1>1, TypeOfIdle, ReadKeeps

LEMMA ReadUnitKeeps ==
  ASSUME OrgInv, NEW r \in Commands, NEW c \in Copies, NEW u \in Units, ReadUnit(r, c, u)
  PROVE  OrgInv'
<1> DEFINE q == [Idle EXCEPT !.to = u, !.parent = Seen(u), !.pc = "store"]
<1>1. u \in Used /\ command' = [command EXCEPT ![r] = q] /\ ReadsOnly
  BY DEF ReadUnit, Reads, Idle
<1>2. Seen(u) \in UnitSeen
  BY <1>1, SeenUnit
<1>3. q \in CommandType
  BY <1>2, TypeOfIdle DEF CommandType, Idle
<1>4. q.pc = "store"
  BY DEF Idle
<1>5. Shaped(q, Used) /\ StillTrue(q)
  <2> HIDE DEF q
  <2> QED BY <1>4 DEF Shaped, StillTrue
<1> QED
  <2> HIDE DEF q
  <2> QED BY <1>1, <1>3, <1>5, ReadKeeps

-----------------------------------------------------------------------------
(* Writes                                                                  *)

\* A write makes what every other command has checked stale; of its own checks it
\* knows that they still hold, or that it overlaps another one.
LEMMA WriteKeepsCommands ==
  ASSUME OrgInv, NEW r \in Commands, Writes(r), Used \subseteq Used'
  PROVE  /\ command' \in [Commands -> CommandType] /\ overlap' \in BOOLEAN
         /\ CommandsInv' /\ ChecksInv'
         /\ ~overlap' => ~overlap /\ StillTrue(command[r])
<1>1. command \in [Commands -> CommandType] /\ overlap \in BOOLEAN
  BY DEF OrgInv, TreeIsSound, OrgTypeOK, CommandType
<1>2. \A c \in Commands :
        command'[c] = IF c = r \/ command[c] = Idle THEN Idle
                      ELSE [command[c] EXCEPT !.stale = TRUE]
  BY DEF Writes
<1>3. ASSUME NEW c \in Commands
      PROVE  /\ command'[c] \in CommandType
             /\ command'[c] = Idle \/ command'[c].stale
             /\ Shaped(command'[c], Used')
  <2> DEFINE q == [command[c] EXCEPT !.stale = TRUE]
  <2>1. CASE command'[c] = Idle
    <3>1. Shaped(Idle, Used')
      BY DEF Shaped, Idle
    <3> QED BY <2>1, <3>1, TypeOfIdle
  <2>2. CASE command[c] # Idle /\ command'[c] = q
    <3>1. command[c] \in CommandType /\ Shaped(command[c], Used) /\ command[c].pc # "idle"
      BY <1>1, <2>2 DEF OrgInv, CommandsInv, Shaped
    <3>2. q \in CommandType /\ q.stale /\ q.pc = command[c].pc /\ q.id = command[c].id
          /\ q.unit = command[c].unit /\ q.to = command[c].to /\ q.parent = command[c].parent
      BY <3>1 DEF CommandType
    <3> HIDE DEF q
    <3>3. Shaped(q, Used')
      BY <3>1, <3>2 DEF Shaped
    <3> QED BY <2>2, <3>2, <3>3
  <2> QED BY <1>2, <2>1, <2>2
<1>4. command' \in [Commands -> CommandType]
  <2>1. command' = [c \in Commands |-> command'[c]]
    BY DEF Writes
  <2> QED BY <1>3, <2>1
<1>5. CommandsInv'
  BY <1>3 DEF CommandsInv
<1>6. ChecksInv'
  <2>1. StillTrue(Idle)'
    BY DEF StillTrue, Idle
  <2>2. \A c \in Commands : ~command'[c].stale => StillTrue(command[c])'
    BY <1>3, <2>1
  <2> QED BY <2>2 DEF ChecksInv
<1>7. overlap' \in BOOLEAN /\ (~overlap' => ~overlap /\ ~command[r].stale)
  BY <1>1 DEF Writes, CommandType
<1> QED BY <1>4, <1>5, <1>6, <1>7 DEF OrgInv, ChecksInv

LEMMA CreateWriteKeeps ==
  ASSUME OrgInv, NEW r \in Commands, CreateWrite(r)
  PROVE  OrgInv'
<1> DEFINE q == command[r]
           new == [parentId |-> q.to, path |-> Append(q.parent.path, q.id),
                   depth |-> q.parent.depth + 1, active |-> TRUE]
<1>1. /\ q.pc = "create" /\ Writes(r) /\ moves' = moves
      /\ tree' = [u \in Used \union {q.id} |-> IF u = q.id THEN new ELSE tree[u]]
  BY DEF CreateWrite
<1>2. q \in CommandType /\ Shaped(q, Used)
  BY DEF OrgInv, TreeIsSound, OrgTypeOK, CommandType, CommandsInv
<1>3. Used' = Used \union {q.id}
  BY <1>1 DEF Used
<1>4. /\ command' \in [Commands -> CommandType] /\ overlap' \in BOOLEAN
      /\ CommandsInv' /\ ChecksInv'
      /\ ~overlap' => ~overlap /\ StillTrue(q)
  BY <1>1, <1>3, WriteKeepsCommands
<1> HIDE DEF q
<1>5. /\ q.id \in Units /\ q.to \in Units /\ q.parent.path \in Seq(Units)
      /\ Len(q.parent.path) = q.parent.depth + 1 /\ q.parent.path[1] = Root
      /\ q.parent.depth \in Nat
  BY <1>1, <1>2 DEF Shaped, IsPath, CommandType, UnitSeen
<1>6. /\ new \in Unit /\ Len(new.path) = new.depth + 1 /\ new.path[1] = Root
      /\ new.path[Len(new.path)] = q.id
  <2> DEFINE p == Append(q.parent.path, q.id)
  <2>1. q.parent.path # <<>>
    BY <1>5
  <2>2. /\ p \in Seq(Units) /\ Len(p) = Len(q.parent.path) + 1
        /\ p[1] = q.parent.path[1] /\ p[Len(p)] = q.id
    BY <1>5, <2>1, Longer
  <2> HIDE DEF p
  <2>3. new = [parentId |-> q.to, path |-> p, depth |-> q.parent.depth + 1,
               active |-> TRUE]
    BY DEF p
  <2> HIDE DEF new
  <2> QED BY <1>5, <2>2, <2>3 DEF Unit
<1>7. \A u \in Used' : tree'[u] = IF u = q.id THEN new ELSE tree[u]
  BY <1>1, <1>3
<1>8. /\ new.parentId = q.to /\ new.path = Append(q.parent.path, q.id)
      /\ new.depth = q.parent.depth + 1 /\ new.active
  OBVIOUS
<1> HIDE DEF new
<1>9. OrgTypeOK'
  <2>1. \A u \in Used' : tree'[u] \in Unit
    BY <1>3, <1>6, <1>7 DEF OrgInv, TreeIsSound, OrgTypeOK
  <2>2. Root \in Used' /\ Used' \subseteq Units /\ moves' \in Seq(Move)
    BY <1>1, <1>3, <1>5 DEF OrgInv, TreeIsSound, OrgTypeOK
  <2> QED BY <1>4, <2>1, <2>2 DEF OrgTypeOK, CommandType
<1>10. DepthFollowsPath'
  BY <1>3, <1>6, <1>7 DEF OrgInv, TreeIsSound, DepthFollowsPath
<1>11. ASSUME ~overlap'
       PROVE  /\ q.id \notin Used /\ q.to \in Used /\ tree[q.to].active
              /\ q.parent = Seen(q.to) /\ q.parent.depth + 1 < MAX_DEPTH /\ ~overlap
              /\ Root \in Used
  BY <1>1, <1>4, <1>11 DEF StillTrue, OrgInv, TreeIsSound, OrgTypeOK
<1>12. PathsFollowParents'
  <2>1. ASSUME ~overlap', NEW u \in Used' \ {Root}
        PROVE  /\ tree'[u].parentId \in Used'
               /\ tree'[u].path = Append(tree'[tree'[u].parentId].path, u)
    <3>1. CASE u = q.id
      <4>1. tree'[u] = new /\ q.to # q.id /\ q.to \in Used' /\ tree'[q.to] = tree[q.to]
        BY <1>3, <1>7, <1>11, <2>1, <3>1
      <4>2. q.parent.path = tree[q.to].path
        BY <1>11, <2>1 DEF Seen
      <4> QED BY <1>8, <3>1, <4>1, <4>2
    <3>2. CASE u # q.id
      <4>1. u \in Used \ {Root} /\ tree'[u] = tree[u]
        BY <1>3, <1>7, <2>1, <3>2
      <4>2. tree[u].parentId \in Used /\ tree[u].path = Append(tree[tree[u].parentId].path, u)
        BY <1>11, <2>1, <4>1 DEF OrgInv, TreeIsSound, PathsFollowParents
      <4>3. tree[u].parentId \in Used' /\ tree'[tree[u].parentId] = tree[tree[u].parentId]
        BY <1>3, <1>7, <1>11, <2>1, <4>2
      <4> QED BY <4>1, <4>2, <4>3
    <3> QED BY <3>1, <3>2
  <2> QED BY <2>1 DEF PathsFollowParents
<1>13. ActiveUnderActive'
  <2>1. ASSUME ~overlap', NEW u \in Used' \ {Root}, tree'[u].active
        PROVE  tree'[tree'[u].parentId].active
    <3>1. CASE u = q.id
      BY <1>3, <1>7, <1>8, <1>11, <2>1, <3>1
    <3>2. CASE u # q.id
      <4>1. u \in Used \ {Root} /\ tree'[u] = tree[u] /\ tree[u].active
        BY <1>3, <1>7, <2>1, <3>2
      <4>2. tree[u].parentId \in Used /\ tree[tree[u].parentId].active
        BY <1>11, <2>1, <4>1
           DEF OrgInv, TreeIsSound, PathsFollowParents, ActiveUnderActive
      <4>3. tree[u].parentId \in Used' /\ tree'[tree[u].parentId] = tree[tree[u].parentId]
        BY <1>3, <1>7, <1>11, <2>1, <4>2
      <4> QED BY <4>1, <4>2, <4>3
    <3> QED BY <3>1, <3>2
  <2> QED BY <2>1 DEF ActiveUnderActive
<1>14. DepthBounded'
  <2>1. ASSUME ~overlap', NEW u \in Used' PROVE tree'[u].depth < MAX_DEPTH
    BY <1>3, <1>7, <1>8, <1>11, <2>1 DEF OrgInv, TreeIsSound, DepthBounded
  <2> QED BY <2>1 DEF DepthBounded
<1>15. RootInv'
  <2>1. ASSUME ~overlap' PROVE tree'[Root].parentId = NoUnit /\ tree'[Root].path = <<Root>>
    BY <1>3, <1>7, <1>11, <2>1 DEF OrgInv, RootInv
  <2> QED BY <2>1 DEF RootInv
<1> QED BY <1>4, <1>9, <1>10, <1>12, <1>13, <1>14, <1>15 DEF OrgInv, TreeIsSound

LEMMA DeactivateWriteKeeps ==
  ASSUME OrgInv, NEW r \in Commands, DeactivateWrite(r)
  PROVE  OrgInv'
<1> DEFINE q == command[r]
<1>1. /\ q.pc = "deactivate" /\ Writes(r) /\ moves' = moves
      /\ tree' = [tree EXCEPT ![q.id].active = FALSE]
  BY DEF DeactivateWrite
<1>2. q \in CommandType /\ Shaped(q, Used)
  BY DEF OrgInv, TreeIsSound, OrgTypeOK, CommandType, CommandsInv
<1>3. Used' = Used
  BY <1>1 DEF Used
<1>4. /\ command' \in [Commands -> CommandType] /\ overlap' \in BOOLEAN
      /\ CommandsInv' /\ ChecksInv'
      /\ ~overlap' => ~overlap /\ StillTrue(q)
  BY <1>1, <1>3, WriteKeepsCommands
<1> HIDE DEF q
<1>5. q.id \in Used
  BY <1>1, <1>2 DEF Shaped
<1>6. ASSUME NEW u \in Used
      PROVE  /\ tree'[u] \in Unit /\ tree'[u].parentId = tree[u].parentId
             /\ tree'[u].path = tree[u].path /\ tree'[u].depth = tree[u].depth
             /\ tree'[u].active = (tree[u].active /\ u # q.id)
  <2>1. tree[u] \in Unit
    BY DEF OrgInv, TreeIsSound, OrgTypeOK
  <2>2. tree'[u] = IF u = q.id THEN [tree[u] EXCEPT !.active = FALSE] ELSE tree[u]
    BY <1>1 DEF Used
  <2> QED BY <2>1, <2>2 DEF Unit
<1>7. OrgTypeOK'
  BY <1>1, <1>3, <1>4, <1>6 DEF OrgInv, TreeIsSound, OrgTypeOK, CommandType
<1>8. DepthFollowsPath'
  BY <1>3, <1>6 DEF OrgInv, TreeIsSound, DepthFollowsPath
<1>9. PathsFollowParents' /\ DepthBounded'
  <2>1. Root \in Used
    BY DEF OrgInv, TreeIsSound, OrgTypeOK
  <2>2. ASSUME ~overlap', NEW u \in Used \ {Root}
        PROVE  /\ tree'[u].parentId \in Used
               /\ tree'[u].path = Append(tree'[tree'[u].parentId].path, u)
    <3>1. /\ tree[u].parentId \in Used
          /\ tree[u].path = Append(tree[tree[u].parentId].path, u)
      BY <1>4, <2>2 DEF OrgInv, TreeIsSound, PathsFollowParents
    <3> QED BY <1>6, <3>1
  <2>3. ASSUME ~overlap', NEW u \in Used PROVE tree'[u].depth < MAX_DEPTH
    BY <1>4, <1>6, <2>3 DEF OrgInv, TreeIsSound, DepthBounded
  <2> QED BY <1>3, <2>2, <2>3 DEF PathsFollowParents, DepthBounded
<1>10. ActiveUnderActive'
  <2>1. ASSUME ~overlap', NEW u \in Used \ {Root}, tree'[u].active
        PROVE  tree'[tree'[u].parentId].active
    <3>1. /\ tree[u].parentId \in Used /\ tree[tree[u].parentId].active /\ tree[u].active
      BY <1>4, <1>6, <2>1
         DEF OrgInv, TreeIsSound, PathsFollowParents, ActiveUnderActive
    <3>2. tree[u].parentId # q.id
      BY <1>1, <1>4, <2>1, <3>1 DEF StillTrue
    <3> QED BY <1>6, <3>1, <3>2
  <2> QED BY <1>3, <2>1 DEF ActiveUnderActive
<1>11. RootInv'
  BY <1>4, <1>6 DEF OrgInv, RootInv, TreeIsSound, OrgTypeOK
<1> QED BY <1>4, <1>7, <1>8, <1>9, <1>10, <1>11 DEF OrgInv, TreeIsSound

LEMMA MoveWriteKeeps ==
  ASSUME OrgInv, NEW r \in Commands, MoveWrite(r)
  PROVE  OrgInv'
<1> DEFINE q == command[r]
           from == q.unit.path
           onto == Append(q.parent.path, q.id)
           Path(u) == IF IsPrefix(from, tree[u].path)
                      THEN Rebased(from, onto, tree[u].path)
                      ELSE tree[u].path
           Depth(u) == IF IsPrefix(from, tree[u].path)
                       THEN tree[u].depth + q.parent.depth + 1 - q.unit.depth
                       ELSE tree[u].depth
<1>1. /\ q.pc = "move" /\ Writes(r)
      /\ moves' = Append(moves, [old |-> from, new |-> onto])
      /\ tree' = [u \in Used |-> IF u = q.id THEN [Moved(q, u) EXCEPT !.parentId = q.to]
                                 ELSE Moved(q, u)]
  BY DEF MoveWrite
<1>2. q \in CommandType /\ Shaped(q, Used)
  BY DEF OrgInv, TreeIsSound, OrgTypeOK, CommandType, CommandsInv
<1>3. Used' = Used
  BY <1>1 DEF Used
<1>4. /\ command' \in [Commands -> CommandType] /\ overlap' \in BOOLEAN
      /\ CommandsInv' /\ ChecksInv'
      /\ ~overlap' => ~overlap /\ StillTrue(q)
  BY <1>1, <1>3, WriteKeepsCommands
<1>5. \A u \in Used : Moved(q, u) = IF IsPrefix(from, tree[u].path)
                        THEN [tree[u] EXCEPT !.path = Path(u), !.depth = Depth(u)]
                        ELSE tree[u]
  BY DEF OrgInv, TreeIsSound, OrgTypeOK, Unit, Moved, Rebased
<1> HIDE DEF q
<1>6. /\ q.id \in Used /\ q.id \in Units /\ q.to \in Units
      /\ from \in Seq(Units) /\ Len(from) = q.unit.depth + 1 /\ q.unit.depth \in Nat
      /\ from[Len(from)] = q.id
      /\ q.parent.path \in Seq(Units) /\ Len(q.parent.path) = q.parent.depth + 1
      /\ q.parent.path[1] = Root /\ q.parent.depth \in Nat
  BY <1>1, <1>2 DEF Shaped, IsPath, CommandType, UnitSeen, OrgInv, TreeIsSound, OrgTypeOK
<1>7. /\ onto \in Seq(Units) /\ onto # <<>> /\ onto[1] = Root /\ onto[Len(onto)] = q.id
      /\ Len(onto) = q.parent.depth + 2
  <2> DEFINE p == q.parent.path
  <2>1. p \in Seq(Units) /\ p # <<>> /\ Len(p) = q.parent.depth + 1 /\ p[1] = Root
    BY <1>6
  <2> HIDE DEF p
  <2>2. /\ Append(p, q.id) \in Seq(Units) /\ Len(Append(p, q.id)) = Len(p) + 1
        /\ Append(p, q.id)[1] = p[1] /\ Append(p, q.id)[Len(Append(p, q.id))] = q.id
    BY SMTT(20), <1>6, <2>1, Longer
  <2>3. onto = Append(p, q.id)
    BY DEF p
  <2> HIDE DEF onto
  <2>4. Len(onto) = q.parent.depth + 2 /\ onto \in Seq(Units) /\ onto[1] = Root
        /\ onto[Len(onto)] = q.id
    BY <1>6, <2>1, <2>2, <2>3
  <2> QED BY <1>6, <2>4
<1> HIDE DEF from, onto
<1>8. ASSUME NEW u \in Used
      PROVE  /\ Path(u) \in Seq(Units) /\ Len(Path(u)) = Depth(u) + 1 /\ Depth(u) \in Nat
             /\ Path(u)[1] = Root /\ Path(u)[Len(Path(u))] = u
  <2>1. /\ tree[u] \in Unit /\ Len(tree[u].path) = tree[u].depth + 1
        /\ tree[u].path[1] = Root /\ tree[u].path[Len(tree[u].path)] = u
        /\ tree[u].path \in Seq(Units) /\ tree[u].depth \in Nat
    BY DEF OrgInv, TreeIsSound, OrgTypeOK, DepthFollowsPath, Unit
  <2>2. CASE ~IsPrefix(from, tree[u].path)
    BY <2>1, <2>2
  <2>3. CASE IsPrefix(from, tree[u].path)
    <3> DEFINE path == Rebased(from, onto, tree[u].path)
    <3>1. /\ path \in Seq(Units) /\ Len(path) = Len(onto) + Len(tree[u].path) - Len(from)
          /\ path[1] = onto[1]
          /\ Len(from) = Len(tree[u].path) => path[Len(path)] = onto[Len(onto)]
          /\ Len(from) # Len(tree[u].path) =>
               path[Len(path)] = tree[u].path[Len(tree[u].path)]
      <4>1. /\ from \in Seq(Units) /\ onto \in Seq(Units) /\ tree[u].path \in Seq(Units)
            /\ IsPrefix(from, tree[u].path) /\ onto # <<>>
        BY <1>6, <1>7, <2>1, <2>3
      <4> DEFINE tp == tree[u].path
      <4>2. /\ Rebased(from, onto, tp) \in Seq(Units)
            /\ Len(Rebased(from, onto, tp)) = Len(onto) + Len(tp) - Len(from)
            /\ Rebased(from, onto, tp)[1] = onto[1]
        <5> HIDE DEF Path, Depth, tp
        <5>1. tp \in Seq(Units) /\ IsPrefix(from, tp)
          BY <4>1 DEF tp
        <5> QED BY <4>1, <5>1, NewBeginning
      <4>3. /\ Len(from) = Len(tp) =>
                 Rebased(from, onto, tp)[Len(Rebased(from, onto, tp))] = onto[Len(onto)]
            /\ Len(from) # Len(tp) =>
                 Rebased(from, onto, tp)[Len(Rebased(from, onto, tp))] = tp[Len(tp)]
        <5> HIDE DEF Path, Depth, tp
        <5>1. tp \in Seq(Units) /\ IsPrefix(from, tp)
          BY <4>1 DEF tp
        <5> QED BY <4>1, <5>1, NewBeginning
      <4> QED BY <4>2, <4>3
    <3>2. Len(from) <= Len(tree[u].path)
      BY <2>3 DEF IsPrefix
    <3>3. Len(from) = Len(tree[u].path) => u = q.id
      BY <1>6, <2>1, <2>3, WholePrefix
    <3>4. path[Len(path)] = u
      BY <1>7, <2>1, <3>1, <3>3
    <3>5. Path(u) = path /\ Depth(u) = tree[u].depth + q.parent.depth + 1 - q.unit.depth
      BY <2>3
    <3> HIDE DEF path, Path, Depth
    <3>6. Depth(u) \in Nat /\ Len(path) = Depth(u) + 1
      <4>1. Len(path) = Len(onto) + Len(tree[u].path) - Len(from)
        BY <3>1
      <4>2. /\ Len(onto) = q.parent.depth + 2 /\ Len(tree[u].path) = tree[u].depth + 1
            /\ Len(from) = q.unit.depth + 1 /\ Len(from) <= Len(tree[u].path)
            /\ Depth(u) = tree[u].depth + q.parent.depth + 1 - q.unit.depth
        BY <1>6, <1>7, <2>1, <3>2, <3>5
      <4>3. tree[u].depth \in Nat /\ q.parent.depth \in Nat /\ q.unit.depth \in Nat
        BY <1>6, <2>1
      <4>8. q.unit.depth + 1 <= tree[u].depth + 1
        BY <4>2
      <4>9. q.unit.depth <= tree[u].depth
        BY <4>3, <4>8
      <4>10. tree[u].depth + q.parent.depth + 1 - q.unit.depth \in Nat
        BY <4>3, <4>9
      <4>4. Depth(u) \in Nat
        BY <4>2, <4>10
      <4>5. Len(path) = q.parent.depth + 2 + (tree[u].depth + 1) - (q.unit.depth + 1)
        BY <4>1, <4>2
      <4>6. Len(path) = (tree[u].depth + q.parent.depth + 1 - q.unit.depth) + 1
        <5>1. \A a, b, c \in Nat : b + 2 + (a + 1) - (c + 1) = (a + b + 1 - c) + 1
          OBVIOUS
        <5> QED BY <4>3, <4>5, <5>1
      <4>7. Depth(u) = tree[u].depth + q.parent.depth + 1 - q.unit.depth
        BY <4>2
      <4> QED BY <4>4, <4>6, <4>7
    <3> QED BY <1>7, <3>1, <3>4, <3>5, <3>6
  <2> QED BY <2>2, <2>3
<1>9. ASSUME NEW u \in Used
      PROVE  /\ tree'[u] \in Unit /\ tree'[u].path = Path(u) /\ tree'[u].depth = Depth(u)
             /\ tree'[u].active = tree[u].active
             /\ tree'[u].parentId = IF u = q.id THEN q.to ELSE tree[u].parentId
  <2>1. tree[u] \in Unit
    BY DEF OrgInv, TreeIsSound, OrgTypeOK
  <2>2. tree'[u] = IF u = q.id THEN [Moved(q, u) EXCEPT !.parentId = q.to]
                   ELSE Moved(q, u)
    BY <1>1
  <2>3. Path(u) = IF IsPrefix(from, tree[u].path) THEN Path(u) ELSE tree[u].path
    OBVIOUS
  <2>4. Depth(u) = IF IsPrefix(from, tree[u].path) THEN Depth(u) ELSE tree[u].depth
    OBVIOUS
  <2>5. Path(u) \in Seq(Units) /\ Depth(u) \in Nat
    BY <1>8
  <2>6. Moved(q, u) = IF IsPrefix(from, tree[u].path)
                        THEN [tree[u] EXCEPT !.path = Path(u), !.depth = Depth(u)]
                        ELSE tree[u]
    BY <1>5
  <2> HIDE DEF Path, Depth
  <2>7. /\ Moved(q, u) \in Unit /\ Moved(q, u).path = Path(u)
        /\ Moved(q, u).depth = Depth(u) /\ Moved(q, u).active = tree[u].active
        /\ Moved(q, u).parentId = tree[u].parentId
    BY <2>1, <2>3, <2>4, <2>5, <2>6 DEF Unit
  <2> QED BY <1>6, <2>2, <2>7 DEF Unit
<1>10. OrgTypeOK'
  <2>1. \A u \in Used' : tree'[u] \in Unit
    BY <1>3, <1>9
  <2>2. Root \in Used' /\ Used' \subseteq Units
    BY <1>3 DEF OrgInv, TreeIsSound, OrgTypeOK
  <2>3. moves' \in Seq(Move)
    BY <1>1, <1>6, <1>7 DEF OrgInv, TreeIsSound, OrgTypeOK, Move
  <2> QED BY <1>4, <2>1, <2>2, <2>3 DEF OrgTypeOK, CommandType
<1>11. DepthFollowsPath'
  <2>1. ASSUME NEW u \in Used
        PROVE  /\ Len(tree'[u].path) = tree'[u].depth + 1 /\ tree'[u].path[1] = Root
               /\ tree'[u].path[Len(tree'[u].path)] = u
    <3> HIDE DEF Path, Depth
    <3> QED BY <1>8, <1>9
  <2> QED BY <1>3, <2>1 DEF DepthFollowsPath
<1>12. ASSUME ~overlap'
       PROVE  /\ ~overlap /\ q.to \in Used /\ tree[q.to].active
              /\ q.parent.path = tree[q.to].path /\ q.parent.depth = tree[q.to].depth
              /\ from = tree[q.id].path /\ q.unit.depth = tree[q.id].depth
              /\ ~IsPrefix(from, tree[q.to].path) /\ q.id # Root /\ Root \in Used
              /\ \A u \in Used : IsPrefix(from, tree[u].path) =>
                   tree[u].depth + q.parent.depth + 1 < MAX_DEPTH + q.unit.depth
  <2>1. ~overlap /\ StillTrue(q)
    BY <1>4, <1>12
  <2>2. q.parent = Seen(q.to) /\ q.unit = Seen(q.id) /\ q.unit.parentId # NoUnit
    BY <1>1, <2>1 DEF StillTrue
  <2>3. Root \in Used /\ tree[Root].parentId = NoUnit
    BY <2>1 DEF OrgInv, TreeIsSound, OrgTypeOK, RootInv
  <2> QED BY <1>1, <2>1, <2>2, <2>3 DEF StillTrue, Seen, Below, from
<1>13. PathsFollowParents'
  <2>1. ASSUME ~overlap', NEW u \in Used \ {Root}
        PROVE  /\ tree'[u].parentId \in Used
               /\ tree'[u].path = Append(tree'[tree'[u].parentId].path, u)
    <3>1. CASE u = q.id
      <4>1. /\ from \in Seq(Units) /\ tree[u].path = from
            /\ IsPrefix(from, tree[u].path)
        BY <1>6, <1>12, <2>1, <3>1, PrefixOfItself
      <4>2. Path(u) = onto \o SubSeq(from, Len(from) + 1, Len(from))
        BY <4>1 DEF Rebased
      <4>3. SubSeq(from, Len(from) + 1, Len(from)) = <<>>
        BY <1>6
      <4>4. onto \o <<>> = onto
        BY <1>7
      <4>5. tree'[u].parentId = q.to /\ tree'[u].path = onto
        BY <1>9, <3>1, <4>2, <4>3, <4>4
      <4>6. q.to \in Used /\ tree'[q.to].path = tree[q.to].path
        BY <1>9, <1>12, <2>1
      <4> QED BY <1>12, <2>1, <3>1, <4>5, <4>6 DEF onto
    <3>2. CASE u # q.id
      <4> DEFINE p == tree[u].parentId
      <4>1. /\ p \in Used /\ tree[u].path = Append(tree[p].path, u)
            /\ tree'[u].parentId = p
        BY <1>9, <1>12, <2>1, <3>2 DEF OrgInv, TreeIsSound, PathsFollowParents
      <4>2. /\ tree[p].path \in Seq(Units) /\ u \in Units
            /\ tree[u].path \in Seq(Units) /\ tree[u].path[Len(tree[u].path)] = u
        BY <4>1 DEF OrgInv, TreeIsSound, OrgTypeOK, Unit, DepthFollowsPath
      <4> HIDE DEF p
      <4>3. CASE IsPrefix(from, tree[p].path)
        <5> DEFINE tp == tree[p].path
                   tu == Append(tp, u)
        <5>1. /\ IsPrefix(from, tu)
              /\ Rebased(from, onto, tu) = Append(Rebased(from, onto, tp), u)
          BY <1>6, <1>7, <4>2, <4>3, NewBeginningOfParent
        <5>2. tree[u].path = tu
          BY <4>1
        <5>3. Path(p) = Rebased(from, onto, tp)
          BY <4>3
        <5>4. Path(u) = Rebased(from, onto, tu)
          <6> HIDE DEF tu, tp
          <6> QED BY <5>1, <5>2
        <5> HIDE DEF Path, tu, tp
        <5> QED BY <1>9, <4>1, <5>1, <5>3, <5>4
      <4>4. CASE ~IsPrefix(from, tree[p].path)
        <5>1. ~IsPrefix(from, tree[u].path)
          <6> SUFFICES ASSUME IsPrefix(from, tree[u].path) PROVE FALSE
            OBVIOUS
          <6>1. from = tree[u].path
            BY <1>6, <4>1, <4>2, <4>4, FirstWithPrefix
          <6> QED BY <1>6, <3>2, <4>2, <6>1
        <5>2. Path(u) = tree[u].path /\ Path(p) = tree[p].path
          BY <4>4, <5>1
        <5> HIDE DEF Path
        <5> QED BY <1>9, <4>1, <5>2
      <4> QED BY <4>3, <4>4
    <3> QED BY <3>1, <3>2
  <2> QED BY <1>3, <2>1 DEF PathsFollowParents
<1>14. ActiveUnderActive'
  <2>1. ASSUME ~overlap', NEW u \in Used \ {Root}, tree'[u].active
        PROVE  tree'[tree'[u].parentId].active
    <3>1. CASE u = q.id
      BY <1>9, <1>12, <2>1, <3>1
    <3>2. CASE u # q.id
      BY <1>9, <1>12, <2>1, <3>2
         DEF OrgInv, TreeIsSound, PathsFollowParents, ActiveUnderActive
    <3> QED BY <3>1, <3>2
  <2> QED BY <1>3, <2>1 DEF ActiveUnderActive
<1>15. DepthBounded'
  <2>1. ASSUME ~overlap', NEW u \in Used PROVE tree'[u].depth < MAX_DEPTH
    <3>1. tree[u].depth < MAX_DEPTH /\ tree[u].depth \in Nat
      BY <1>12, <2>1 DEF OrgInv, TreeIsSound, DepthBounded, OrgTypeOK, Unit
    <3>2. CASE IsPrefix(from, tree[u].path)
      <4>1. tree[u].depth + q.parent.depth + 1 < MAX_DEPTH + q.unit.depth
        BY <1>12, <2>1, <3>2
      <4>2. Depth(u) = tree[u].depth + q.parent.depth + 1 - q.unit.depth
        BY <3>2
      <4>3. tree[u].depth \in Nat /\ q.parent.depth \in Nat /\ q.unit.depth \in Nat
            /\ MAX_DEPTH \in Nat
        BY <1>6, <3>1, OrgAssumption
      <4> HIDE DEF Depth, Path
      <4>4. tree'[u].depth = Depth(u)
        BY <1>9
      <4> QED BY <4>1, <4>2, <4>3, <4>4
    <3>3. CASE ~IsPrefix(from, tree[u].path)
      BY <1>9, <3>1, <3>3
    <3> QED BY <3>2, <3>3
  <2> QED BY <1>3, <2>1 DEF DepthBounded
<1>16. RootInv'
  <2>1. ASSUME ~overlap' PROVE tree'[Root].parentId = NoUnit /\ tree'[Root].path = <<Root>>
    <3>1. tree[Root].parentId = NoUnit /\ tree[Root].path = <<Root>> /\ Root \in Units
          /\ q.id # Root /\ Root \in Used
      BY <1>12, <2>1 DEF OrgInv, RootInv, TreeIsSound, OrgTypeOK
    <3>2. ~IsPrefix(from, <<Root>>)
      <4>1. SUFFICES ASSUME IsPrefix(from, <<Root>>) PROVE FALSE
        OBVIOUS
      <4>2. <<Root>> \in Seq(Units) /\ Len(<<Root>>) = 1 /\ <<Root>>[1] = Root
        BY <3>1
      <4>3. Len(from) <= 1 /\ \A i \in 1..Len(from) : from[i] = <<Root>>[i]
        BY <1>6, <4>1, <4>2, PrefixElements
      <4>4. Len(from) = 1
        BY <1>6, <4>3
      <4> QED BY <1>6, <3>1, <4>2, <4>3, <4>4
    <3>3. Path(Root) = <<Root>>
      BY <3>1, <3>2
    <3> HIDE DEF Path, Depth
    <3> QED BY <1>9, <3>1, <3>3
  <2> QED BY <2>1 DEF RootInv
<1> QED BY <1>4, <1>10, <1>11, <1>13, <1>14, <1>15, <1>16 DEF OrgInv, TreeIsSound

-----------------------------------------------------------------------------
(* Steps                                                                   *)

LEMMA StoreKeeps ==
  ASSUME OrgInv, NEW r \in Commands, NEW c \in Copies, Store(r, c)
  PROVE  OrgInv'
BY IdleKeeps DEF Store

LEMMA CommandKeeps ==
  ASSUME OrgInv, NEW r \in Commands, Command(r)
  PROVE  OrgInv'
<1>1. ASSUME NEW id \in Units, NEW to \in Units, CreateRead(r, id, to) PROVE OrgInv'
  BY <1>1, CreateReadKeeps
<1>2. ASSUME NEW id \in Units, MoveReadUnit(r, id) PROVE OrgInv'
  BY <1>2, MoveReadUnitKeeps
<1>3. ASSUME NEW id \in Units, MoveReadParent(r, id) PROVE OrgInv'
  BY <1>3, MoveReadParentKeeps
<1>4. ASSUME NEW id \in Units, DeactivateRead(r, id) PROVE OrgInv'
  BY <1>4, DeactivateReadKeeps
<1>5. CASE CreateWrite(r)
  BY <1>5, CreateWriteKeeps
<1>6. CASE MoveReadDeepest(r)
  BY <1>6, MoveReadDeepestKeeps
<1>7. CASE MoveWrite(r)
  BY <1>7, MoveWriteKeeps
<1>8. CASE DeactivateWrite(r)
  BY <1>8, DeactivateWriteKeeps
<1>9. CASE GiveUp(r)
  BY <1>9, IdleKeeps DEF GiveUp
<1> QED BY <1>1, <1>2, <1>3, <1>4, <1>5, <1>6, <1>7, <1>8, <1>9 DEF Command

\* A step that leaves the variables of the tree alone.
LEMMA TreeStutters == ASSUME OrgInv, UNCHANGED orgVars PROVE OrgInv'
<1>1. tree' = tree /\ command' = command /\ moves' = moves /\ overlap' = overlap
  BY DEF orgVars
<1>2. TreeIsSound'
  BY <1>1 DEF OrgInv, TreeIsSound, OrgTypeOK, DepthFollowsPath, PathsFollowParents,
              ActiveUnderActive, DepthBounded, Used
<1>3. CommandsInv' /\ RootInv'
  BY <1>1 DEF OrgInv, CommandsInv, RootInv, Used
<1>4. ChecksInv'
  BY <1>1 DEF OrgInv, ChecksInv, StillTrue, Used, Seen, Below
<1> QED BY <1>2, <1>3, <1>4 DEF OrgInv

-----------------------------------------------------------------------------
(* The copies                                                              *)

Paths == [u \in Used |-> tree[u].path]

\* What a command that creates a copy has read was the path of the unit at some time.
WasPath(H, q) == q.pc = "store" =>
    \E k \in 0..Len(moves) : q.to \in DOMAIN H[k] /\ q.parent.path = H[k][q.to]

HistoryInv == ~overlap => \E H :
    /\ IsHistory(H, moves) /\ H[Len(moves)] = Paths
    /\ \A r \in Commands : WasPath(H, command[r])

\* The events after the first n take the copy x to the path that its unit has now.
Becomes(x, n) == x # NoCopy =>
    /\ x.unit \in Used
    /\ \E f : /\ Follows(f, x.path, moves, n, Len(moves))
              /\ f[Len(moves)] = tree[x.unit].path

CopiesInv == ~overlap /\ ~mixed => \E n \in 0..Len(moves) :
    applied = 1..n /\ \A c \in Copies : Becomes(copy[c], n)

PathsInv == OrgInv /\ PathsTypeOK /\ HistoryInv /\ CopiesInv

\* The paths of the units on a path are its beginnings: by induction on the depth.
LEMMA PathsAreLines == OrgInv /\ ~overlap => Lines(Paths)
<1> SUFFICES ASSUME OrgInv, ~overlap PROVE Lines(Paths)
  OBVIOUS
<1> DEFINE Good(u) == \A j \in 1..Len(tree[u].path) :
                        /\ tree[u].path[j] \in Used
                        /\ tree[tree[u].path[j]].path = SubSeq(tree[u].path, 1, j)
           T == {tree[u].depth : u \in {v \in Used : ~Good(v)}}
<1>1. /\ Root \in Used /\ Used \subseteq Units /\ tree[Root].path = <<Root>>
      /\ \A u \in Used :
           /\ tree[u].path \in Seq(Units) /\ tree[u].depth \in Nat
           /\ Len(tree[u].path) = tree[u].depth + 1
           /\ tree[u].path[1] = Root /\ tree[u].path[Len(tree[u].path)] = u
  BY DEF OrgInv, TreeIsSound, OrgTypeOK, Unit, DepthFollowsPath, RootInv
<1>2. \A u \in Used \ {Root} :
        /\ tree[u].parentId \in Used
        /\ tree[u].path = Append(tree[tree[u].parentId].path, u)
  BY DEF OrgInv, TreeIsSound, PathsFollowParents
<1>3. Good(Root)
  <2> DEFINE p == <<Root>>
  <2>1. p \in Seq(Units) /\ Len(p) = 1 /\ p[1] = Root /\ tree[Root].path = p
    BY <1>1
  <2> HIDE DEF p
  <2>2. SubSeq(p, 1, 1) = p
    BY <2>1
  <2>3. \A j \in 1..Len(p) : j = 1
    BY <2>1
  <2> QED BY <1>1, <2>1, <2>2, <2>3
<1>4. ASSUME NEW u \in Used \ {Root}, Good(tree[u].parentId) PROVE Good(u)
  <2> DEFINE a == tree[u].parentId
             p == tree[a].path
  <2>1. /\ a \in Used /\ tree[u].path = Append(p, u) /\ p \in Seq(Units) /\ u \in Units
        /\ Len(p) \in Nat
        /\ \A j \in 1..Len(p) : p[j] \in Used /\ tree[p[j]].path = SubSeq(p, 1, j)
    BY SMTT(20), <1>1, <1>2, <1>4
  <2> HIDE DEF p, a
  <2>2. ASSUME NEW j \in 1..(Len(p) + 1)
        PROVE  /\ Append(p, u)[j] \in Used
               /\ tree[Append(p, u)[j]].path = SubSeq(Append(p, u), 1, j)
    <3>1. CASE j \in 1..Len(p)
      <4>1. Append(p, u)[j] = p[j] /\ SubSeq(Append(p, u), 1, j) = SubSeq(p, 1, j)
        BY <2>1, <3>1
      <4> QED BY <2>1, <3>1, <4>1
    <3>2. CASE j = Len(p) + 1
      <4>1. Append(p, u)[j] = u /\ SubSeq(Append(p, u), 1, j) = Append(p, u)
        BY <2>1, <3>2
      <4> QED BY <2>1, <4>1
    <3> QED BY <2>1, <3>1, <3>2
  <2>3. Len(Append(p, u)) = Len(p) + 1
    BY <2>1
  <2> QED BY <2>1, <2>2, <2>3
<1>5. \A u \in Used : Good(u)
  <2>1. SUFFICES ASSUME T # {} PROVE FALSE
    <3> HIDE DEF Good
    <3> QED OBVIOUS
  <2>2. T \in SUBSET Nat
    <3> HIDE DEF Good
    <3> QED BY <1>1
  <2>3. PICK m \in T : \A k \in T : m <= k
    <3> HIDE DEF T
    <3> QED BY <2>1, <2>2, Least
  <2>4. PICK u \in Used : ~Good(u) /\ tree[u].depth = m
    <3> HIDE DEF Good
    <3> QED BY <2>3
  <2>5. u # Root
    <3> HIDE DEF Good
    <3> QED BY <1>3, <2>4
  <2>6. tree[u].parentId \in Used /\ ~Good(tree[u].parentId)
    <3> HIDE DEF Good
    <3> QED BY <1>2, <1>4, <2>4, <2>5
  <2>7. tree[tree[u].parentId].depth < m
    <3> DEFINE a == tree[u].parentId
    <3>1. Len(Append(tree[a].path, u)) = Len(tree[a].path) + 1
      <4> DEFINE p == tree[a].path
      <4>1. p \in Seq(Units) /\ u \in Units
        BY <1>1, <2>6
      <4> HIDE DEF p
      <4>2. Len(Append(p, u)) = Len(p) + 1
        BY <4>1
      <4> QED BY <4>2 DEF p
    <3>2. tree[u].path = Append(tree[a].path, u)
      BY <1>2, <2>5
    <3>3. Len(tree[u].path) = Len(tree[a].path) + 1
      BY <3>1, <3>2
    <3> HIDE DEF a
    <3>4. a \in Used
      BY <2>6 DEF a
    <3>5. tree[a].depth < tree[u].depth
      BY SMTT(20), <1>1, <3>3, <3>4
    <3> QED BY <2>4, <3>5 DEF a
  <2>8. tree[tree[u].parentId].depth \in T
    <3> HIDE DEF Good
    <3> QED BY <2>6
  <2>9. m \in Nat /\ tree[tree[u].parentId].depth \in Nat
    <3> HIDE DEF T, Good
    <3> QED BY <1>1, <2>2, <2>3, <2>6
  <2> HIDE DEF T, Good
  <2> QED BY <2>3, <2>7, <2>8, <2>9
<1>6. DOMAIN Paths = Used /\ \A u \in Used : Paths[u] = tree[u].path
  BY DEF Paths
<1>7. ASSUME NEW u \in Used
      PROVE  /\ Paths[u] \in Seq(Units) /\ Paths[u] # <<>> /\ Paths[u][1] = Root
             /\ Paths[u][Len(Paths[u])] = u
             /\ \A j \in 1..Len(Paths[u]) :
                  Paths[u][j] \in Used /\ Paths[Paths[u][j]] = SubSeq(Paths[u], 1, j)
  <2> DEFINE p == tree[u].path
  <2>1. Paths[u] = p
    BY <1>6
  <2>2. p \in Seq(Units) /\ Len(p) = tree[u].depth + 1 /\ tree[u].depth \in Nat
        /\ p[1] = Root /\ p[Len(p)] = u
    BY <1>1
  <2>3. \A j \in 1..Len(p) : p[j] \in Used /\ tree[p[j]].path = SubSeq(p, 1, j)
    BY <1>5
  <2> HIDE DEF p
  <2>4. p # <<>>
    BY <2>2
  <2>5. \A j \in 1..Len(p) : p[j] \in Used /\ Paths[p[j]] = SubSeq(p, 1, j)
    BY <1>6, <2>3
  <2> QED BY <2>1, <2>2, <2>4, <2>5
<1> HIDE DEF Good
<1> QED BY <1>1, <1>6, <1>7 DEF Lines

\* No event, but units may be created.
Quiet ==
    /\ moves' = moves /\ Used \subseteq Used'
    /\ \A u \in Used : tree'[u].path = tree[u].path

\* An event that moves the units there are.
Event(m) ==
    /\ moves' = Append(moves, m) /\ Used' = Used
    /\ \E w \in Used : tree[w].path = m.old
    /\ \A u \in Used : tree'[u].path = Rewrite(m, tree[u].path)

\* A command goes on with the path that it read, or reads it now.
ReadsPaths == \A r \in Commands : command'[r].pc = "store" =>
    \/ /\ command[r].pc = "store" /\ command'[r].to = command[r].to
       /\ command'[r].parent = command[r].parent
    \/ command'[r].to \in Used /\ command'[r].parent.path = tree[command'[r].to].path

TreeStep == (Quiet \/ \E m \in Move : Event(m)) /\ ReadsPaths

LEMMA HistoryStays ==
  ASSUME OrgInv', HistoryInv, ~overlap' => ~overlap /\ TreeStep
  PROVE  HistoryInv'
<1> SUFFICES ASSUME ~overlap'
             PROVE  \E G : /\ IsHistory(G, moves') /\ G[Len(moves')] = Paths'
                           /\ \A r \in Commands : WasPath(G, command[r])'
  BY DEF HistoryInv
<1>1. PICK H : /\ IsHistory(H, moves) /\ H[Len(moves)] = Paths
               /\ \A r \in Commands : WasPath(H, command[r])
  BY DEF HistoryInv
<1>2. Lines(Paths')
  <2>1. (OrgInv /\ ~overlap => Lines(Paths))'
    BY PathsAreLines, PTL
  <2> QED BY <2>1
<1>3. /\ DOMAIN Paths = Used /\ \A u \in Used : Paths[u] = tree[u].path
      /\ DOMAIN Paths' = Used' /\ \A u \in Used' : Paths'[u] = tree'[u].path
  BY DEF Paths
<1>4. Len(moves) \in Nat /\ moves \in Seq(Move)
  BY <1>1 DEF IsHistory
<1>5. \E G : /\ IsHistory(G, moves') /\ G[Len(moves')] = Paths'
             /\ Remembers(G, H, moves) /\ Len(moves') >= Len(moves) /\ Len(moves') \in Nat
  <2>1. CASE Quiet
    <3>1. /\ moves' = moves /\ DOMAIN H[Len(moves)] \subseteq DOMAIN Paths'
          /\ \A u \in DOMAIN H[Len(moves)] : Paths'[u] = H[Len(moves)][u]
      BY <1>1, <1>3, <2>1 DEF Quiet
    <3> HIDE DEF Paths
    <3>2. \E G : IsHistory(G, moves) /\ G[Len(moves)] = Paths' /\ Remembers(G, H, moves)
      BY <1>1, <1>2, <3>1, HistoryGrows
    <3> QED BY <1>4, <3>1, <3>2
  <2>2. ASSUME NEW m \in Move, Event(m)
        PROVE  \E G : /\ IsHistory(G, moves') /\ G[Len(moves')] = Paths'
                      /\ Remembers(G, H, moves) /\ Len(moves') >= Len(moves)
                      /\ Len(moves') \in Nat
    <3>1. /\ moves' = Append(moves, m) /\ After(Paths, m, Paths')
          /\ Len(moves') = Len(moves) + 1
      BY <1>3, <1>4, <2>2 DEF Event, After
    <3>2. \E G : /\ IsHistory(G, Append(moves, m)) /\ G[Len(moves) + 1] = Paths'
                 /\ Remembers(G, H, moves)
      BY <1>1, <1>2, <3>1, HistoryMoves
    <3> QED BY <1>4, <3>1, <3>2
  <2> QED BY <2>1, <2>2 DEF TreeStep
<1>6. PICK G : /\ IsHistory(G, moves') /\ G[Len(moves')] = Paths'
               /\ Remembers(G, H, moves) /\ Len(moves') >= Len(moves) /\ Len(moves') \in Nat
  BY <1>5
<1>7. ASSUME NEW r \in Commands, command'[r].pc = "store"
      PROVE  \E k \in 0..Len(moves') :
               command'[r].to \in DOMAIN G[k] /\ command'[r].parent.path = G[k][command'[r].to]
  <2>1. CASE /\ command[r].pc = "store" /\ command'[r].to = command[r].to
             /\ command'[r].parent = command[r].parent
    <3>1. PICK k \in 0..Len(moves) : /\ command[r].to \in DOMAIN H[k]
                                     /\ command[r].parent.path = H[k][command[r].to]
      BY <1>1, <2>1 DEF WasPath
    <3>2. k \in 0..Len(moves')
      BY <1>4, <1>6
    <3> QED BY <1>6, <2>1, <3>1, <3>2 DEF Remembers
  <2>2. CASE /\ command'[r].to \in Used
             /\ command'[r].parent.path = tree[command'[r].to].path
    <3>1. Len(moves) \in 0..Len(moves) /\ Len(moves) \in 0..Len(moves')
      BY <1>4, <1>6
    <3>2. command'[r].to \in DOMAIN H[Len(moves)]
          /\ H[Len(moves)][command'[r].to] = command'[r].parent.path
      BY <1>1, <1>3, <2>2
    <3> QED BY <1>6, <3>1, <3>2 DEF Remembers
  <2> QED BY <1>7, <2>1, <2>2 DEF TreeStep, ReadsPaths
<1>8. \A r \in Commands : WasPath(G, command[r])'
  BY <1>7 DEF WasPath
<1> QED BY <1>6, <1>8

LEMMA CopiesStay ==
  ASSUME OrgInv, OrgInv', CopiesInv, UNCHANGED copyVars, ~overlap' => ~overlap /\ TreeStep
  PROVE  CopiesInv'
<1> SUFFICES ASSUME ~overlap', ~mixed'
             PROVE  \E n \in 0..Len(moves') :
                      applied' = 1..n /\ \A c \in Copies : Becomes(copy[c], n)'
  BY DEF CopiesInv
<1>1. copy' = copy /\ applied' = applied /\ mixed' = mixed
  BY DEF copyVars
<1>2. PICK n \in 0..Len(moves) : applied = 1..n /\ \A c \in Copies : Becomes(copy[c], n)
  BY <1>1 DEF CopiesInv
<1>3. moves \in Seq(Move) /\ Len(moves) \in Nat /\ moves' \in Seq(Move) /\ Len(moves') \in Nat
  BY DEF OrgInv, TreeIsSound, OrgTypeOK
<1>4. \A u \in Used' : tree'[u].path \in Seq(Units)
  BY DEF OrgInv, TreeIsSound, OrgTypeOK, Unit
<1>5. CASE Quiet
  <2>1. moves' = moves /\ Used \subseteq Used' /\ \A u \in Used : tree'[u].path = tree[u].path
    BY <1>5 DEF Quiet
  <2>2. \A c \in Copies : Becomes(copy[c], n)'
    BY <1>1, <1>2, <2>1 DEF Becomes
  <2> QED BY <1>1, <1>2, <2>1, <2>2
<1>6. ASSUME NEW m \in Move, Event(m)
      PROVE  \E k \in 0..Len(moves') :
               applied' = 1..k /\ \A c \in Copies : Becomes(copy[c], k)'
  <2>1. /\ moves' = Append(moves, m) /\ Used' = Used /\ Len(moves') = Len(moves) + 1
        /\ \A u \in Used : tree'[u].path = Rewrite(m, tree[u].path)
    BY <1>3, <1>6 DEF Event
  <2>2. ASSUME NEW c \in Copies, copy[c] # NoCopy
        PROVE  /\ copy[c].unit \in Used'
               /\ \E f : /\ Follows(f, copy[c].path, moves', n, Len(moves'))
                         /\ f[Len(moves')] = tree'[copy[c].unit].path
    <3> DEFINE u == copy[c].unit
    <3>1. /\ u \in Used
          /\ \E f : /\ Follows(f, copy[c].path, moves, n, Len(moves))
                    /\ f[Len(moves)] = tree[u].path
      BY <1>2, <2>2 DEF Becomes
    <3> HIDE DEF u
    <3>2. PICK f : /\ Follows(f, copy[c].path, moves, n, Len(moves))
                   /\ f[Len(moves)] = tree[u].path
      BY <3>1
    <3>3. Rewrite(m, f[Len(moves)]) = tree'[u].path /\ tree'[u].path \in Seq(Units)
      BY <1>4, <2>1, <3>1, <3>2
    <3>4. n \in Nat /\ n <= Len(moves)
      BY <1>3
    <3>5. \E g : /\ Follows(g, copy[c].path, Append(moves, m), n, Len(moves) + 1)
                 /\ g[Len(moves) + 1] = Rewrite(m, f[Len(moves)])
      <4>1. Rewrite(m, f[Len(moves)]) \in Seq(Units)
        BY <3>3
      <4> QED BY <1>3, <3>2, <3>4, <4>1, FollowsOneMore
    <3>6. u \in Used'
      BY <2>1, <3>1
    <3> QED BY <2>1, <3>3, <3>5, <3>6 DEF u
  <2>3. \A c \in Copies : Becomes(copy[c], n)'
    BY <1>1, <2>2 DEF Becomes
  <2>4. n \in 0..Len(moves')
    BY <1>3, <2>1
  <2> QED BY <1>1, <1>2, <2>3, <2>4
<1> QED BY <1>5, <1>6 DEF TreeStep

\* What a read, or a command that is done or given up, does to the paths.
LEMMA ReadIsQuiet ==
  ASSUME OrgInv, ReadsOnly, NEW r \in Commands, NEW q,
         command' = [command EXCEPT ![r] = q],
         q.pc = "store" => q.to \in Used /\ q.parent.path = tree[q.to].path
  PROVE  TreeStep /\ overlap' = overlap
<1>1. tree' = tree /\ moves' = moves /\ overlap' = overlap
  BY DEF ReadsOnly
<1>2. Quiet
  BY <1>1 DEF Quiet, Used
<1>3. command \in [Commands -> CommandType]
  BY DEF OrgInv, TreeIsSound, OrgTypeOK, CommandType
<1>4. \A c \in Commands : command'[c] = IF c = r THEN q ELSE command[c]
  BY <1>3
<1>5. ReadsPaths
  BY <1>4 DEF ReadsPaths
<1> QED BY <1>1, <1>2, <1>5 DEF TreeStep

LEMMA WriteReadsNoPath ==
  ASSUME OrgInv, NEW r \in Commands, Writes(r) PROVE ReadsPaths
<1>1. command \in [Commands -> CommandType]
  BY DEF OrgInv, TreeIsSound, OrgTypeOK, CommandType
<1>2. ASSUME NEW c \in Commands, command'[c].pc = "store"
      PROVE  /\ command[c].pc = "store" /\ command'[c].to = command[c].to
             /\ command'[c].parent = command[c].parent
  <2>1. command'[c] = IF c = r \/ command[c] = Idle THEN Idle
                      ELSE [command[c] EXCEPT !.stale = TRUE]
    BY DEF Writes
  <2>2. Idle.pc # "store" /\ command[c] \in CommandType
    BY <1>1 DEF Idle
  <2>3. command'[c] = [command[c] EXCEPT !.stale = TRUE]
    BY <1>2, <2>1, <2>2
  <2> QED BY <1>2, <2>2, <2>3 DEF CommandType
<1> QED BY <1>2 DEF ReadsPaths

LEMMA CreateWriteIsQuiet ==
  ASSUME OrgInv, NEW r \in Commands, CreateWrite(r)
  PROVE  ~overlap' => ~overlap /\ TreeStep
<1> DEFINE q == command[r]
<1>1. /\ q.pc = "create" /\ Writes(r) /\ moves' = moves /\ Used' = Used \union {q.id}
      /\ \A u \in Used : u # q.id => tree'[u] = tree[u]
  BY DEF CreateWrite, Used
<1>2. ~overlap' => ~overlap /\ StillTrue(q)
  BY <1>1, WriteKeepsCommands
<1> HIDE DEF q
<1>3. ~overlap' => Quiet
  BY <1>1, <1>2 DEF Quiet, StillTrue
<1> QED BY <1>1, <1>2, <1>3, WriteReadsNoPath DEF TreeStep

LEMMA DeactivateWriteIsQuiet ==
  ASSUME OrgInv, NEW r \in Commands, DeactivateWrite(r)
  PROVE  ~overlap' => ~overlap /\ TreeStep
<1> DEFINE q == command[r]
<1>1. /\ Writes(r) /\ moves' = moves /\ tree' = [tree EXCEPT ![q.id].active = FALSE]
  BY DEF DeactivateWrite
<1>2. Used' = Used
  BY <1>1 DEF Used
<1>3. ~overlap' => ~overlap
  BY <1>1, <1>2, WriteKeepsCommands
<1> HIDE DEF q
<1>4. \A u \in Used : tree'[u].path = tree[u].path
  <2> TAKE u \in Used
  <2>1. tree[u] \in Unit
    BY DEF OrgInv, TreeIsSound, OrgTypeOK
  <2>2. tree'[u] = IF u = q.id THEN [tree[u] EXCEPT !.active = FALSE] ELSE tree[u]
    BY <1>1 DEF Used
  <2> QED BY <2>1, <2>2 DEF Unit
<1> QED BY <1>1, <1>2, <1>3, <1>4, WriteReadsNoPath DEF TreeStep, Quiet

LEMMA MoveWriteIsEvent ==
  ASSUME OrgInv, NEW r \in Commands, MoveWrite(r)
  PROVE  ~overlap' => ~overlap /\ TreeStep
<1> DEFINE q == command[r]
           m == [old |-> q.unit.path, new |-> Append(q.parent.path, q.id)]
<1>1. /\ q.pc = "move" /\ Writes(r) /\ moves' = Append(moves, m)
      /\ tree' = [u \in Used |-> IF u = q.id THEN [Moved(q, u) EXCEPT !.parentId = q.to]
                                 ELSE Moved(q, u)]
  BY DEF MoveWrite
<1>2. Used' = Used
  BY <1>1 DEF Used
<1>3. ~overlap' => ~overlap /\ StillTrue(q)
  BY <1>1, <1>2, WriteKeepsCommands
<1>4. q \in CommandType /\ Shaped(q, Used)
  BY DEF OrgInv, TreeIsSound, OrgTypeOK, CommandType, CommandsInv
<1> HIDE DEF q
<1>5. m \in Move /\ m.old = q.unit.path /\ m.new = Append(q.parent.path, q.id)
  <2>1. /\ q.id \in Units /\ q.unit.path \in Seq(Units) /\ q.parent.path \in Seq(Units)
    BY <1>1, <1>4 DEF Shaped, IsPath, CommandType, UnitSeen, OrgInv, TreeIsSound, OrgTypeOK
  <2> DEFINE onto == Append(q.parent.path, q.id)
  <2>2. onto \in Seq(Units)
    BY <2>1
  <2> HIDE DEF onto
  <2>3. [old |-> q.unit.path, new |-> onto] \in Move
    BY <2>1, <2>2 DEF Move
  <2> QED BY <2>3 DEF onto
<1>6. ASSUME NEW u \in Used PROVE tree'[u].path = Rewrite(m, tree[u].path)
  <2>1. tree[u] \in Unit
    BY DEF OrgInv, TreeIsSound, OrgTypeOK
  <2>2. /\ Moved(q, u).path = Rewrite(m, tree[u].path)
        /\ DOMAIN Moved(q, u) = DOMAIN tree[u]
    BY <1>5, <2>1 DEF Moved, Rewrite, Rebased, Unit
  <2> QED BY <1>1, <2>2
<1> HIDE DEF m
<1>7. ~overlap' => \E w \in Used : tree[w].path = m.old
  BY <1>1, <1>3, <1>5 DEF StillTrue, Seen
<1>8. ~overlap' => Event(m)
  BY <1>1, <1>2, <1>6, <1>7 DEF Event
<1> QED BY <1>1, <1>3, <1>5, <1>8, WriteReadsNoPath DEF TreeStep

LEMMA ReadsAreQuiet ==
  ASSUME OrgInv, ReadsOnly, NEW r \in Commands, NEW pc, pc # "store",
         NEW q, "pc" \in DOMAIN q, Reads(r, pc, q)
  PROVE  TreeStep /\ overlap' = overlap
<1> DEFINE new == [q EXCEPT !.pc = pc]
<1>1. new.pc # "store" /\ command' = [command EXCEPT ![r] = new]
  BY DEF Reads
<1> HIDE DEF new
<1> QED BY <1>1, ReadIsQuiet

LEMMA CommandSteps ==
  ASSUME OrgInv, NEW r \in Commands, Command(r)
  PROVE  ~overlap' => ~overlap /\ TreeStep
<1>1. command[r] \in CommandType
  BY DEF OrgInv, TreeIsSound, OrgTypeOK, CommandType
<1>2. "pc" \in DOMAIN command[r]
  BY <1>1 DEF CommandType
<1>3. ASSUME NEW id \in Units, NEW to \in Units, CreateRead(r, id, to)
      PROVE  TreeStep /\ overlap' = overlap
  <2> DEFINE q == [Idle EXCEPT !.id = id, !.to = to, !.parent = Seen(to)]
  <2>1. "pc" \in DOMAIN q
    BY DEF Idle
  <2>2. Reads(r, "create", q) /\ ReadsOnly
    BY <1>3 DEF CreateRead
  <2> HIDE DEF q
  <2> QED BY <2>1, <2>2, ReadsAreQuiet
<1>4. ASSUME NEW id \in Units, MoveReadUnit(r, id) PROVE TreeStep /\ overlap' = overlap
  <2> DEFINE q == [Idle EXCEPT !.id = id, !.unit = Seen(id)]
  <2>1. "pc" \in DOMAIN q
    BY DEF Idle
  <2>2. Reads(r, "moveParent", q) /\ ReadsOnly
    BY <1>4 DEF MoveReadUnit
  <2> HIDE DEF q
  <2> QED BY <2>1, <2>2, ReadsAreQuiet
<1>5. ASSUME NEW to \in Units, MoveReadParent(r, to) PROVE TreeStep /\ overlap' = overlap
  <2> DEFINE q == [command[r] EXCEPT !.to = to, !.parent = Seen(to)]
  <2>1. "pc" \in DOMAIN q
    BY <1>2
  <2>2. Reads(r, "moveDeepest", q) /\ ReadsOnly
    BY <1>5 DEF MoveReadParent
  <2> HIDE DEF q
  <2> QED BY <2>1, <2>2, ReadsAreQuiet
<1>6. ASSUME NEW id \in Units, DeactivateRead(r, id) PROVE TreeStep /\ overlap' = overlap
  <2> DEFINE q == [Idle EXCEPT !.id = id]
  <2>1. "pc" \in DOMAIN q
    BY DEF Idle
  <2>2. Reads(r, "deactivate", q) /\ ReadsOnly
    BY <1>6 DEF DeactivateRead
  <2> HIDE DEF q
  <2> QED BY <2>1, <2>2, ReadsAreQuiet
<1>7. ASSUME MoveReadDeepest(r) PROVE TreeStep /\ overlap' = overlap
  BY <1>2, <1>7, ReadsAreQuiet DEF MoveReadDeepest
<1>8. ASSUME GiveUp(r) PROVE TreeStep /\ overlap' = overlap
  <2>1. Idle.pc # "store"
    BY DEF Idle
  <2> QED BY <1>8, <2>1, ReadIsQuiet DEF GiveUp
<1> QED BY <1>3, <1>4, <1>5, <1>6, <1>7, <1>8, CreateWriteIsQuiet, DeactivateWriteIsQuiet,
           MoveWriteIsEvent DEF Command

LEMMA CommandKeepsPaths ==
  ASSUME PathsInv, NEW r \in Commands, Command(r), UNCHANGED copyVars, writing' \subseteq writing
  PROVE  PathsInv'
<1>1. OrgInv' /\ (~overlap' => ~overlap /\ TreeStep)
  BY CommandKeeps, CommandSteps DEF PathsInv
<1>2. HistoryInv' /\ CopiesInv'
  BY <1>1, HistoryStays, CopiesStay DEF PathsInv
<1>3. DOMAIN moves \subseteq DOMAIN moves'
  <2>1. moves \in Seq(Move)
    BY DEF PathsInv, OrgInv, TreeIsSound, OrgTypeOK
  <2>2. moves' = moves \/ \E m : moves' = Append(moves, m)
    BY DEF Command, CreateRead, MoveReadUnit, MoveReadParent, DeactivateRead, CreateWrite,
           MoveReadDeepest, MoveWrite, DeactivateWrite, GiveUp, ReadsOnly
  <2> QED BY <2>1, <2>2
<1>4. PathsTypeOK'
  BY <1>3 DEF PathsInv, PathsTypeOK, copyVars
<1> QED BY <1>1, <1>2, <1>4 DEF PathsInv

LEMMA ReadUnitKeepsPaths ==
  ASSUME PathsInv, NEW r \in Commands, NEW c \in Copies, NEW u \in Units, ReadUnit(r, c, u)
  PROVE  PathsInv'
<1> DEFINE q == [Idle EXCEPT !.to = u, !.parent = Seen(u), !.pc = "store"]
<1>1. u \in Used /\ command' = [command EXCEPT ![r] = q] /\ ReadsOnly /\ UNCHANGED copyVars
  BY DEF ReadUnit, Reads, Idle
<1>2. q.to = u /\ q.parent.path = tree[u].path
  BY DEF Idle, Seen
<1> HIDE DEF q
<1>3. OrgInv' /\ TreeStep /\ overlap' = overlap
  BY <1>1, <1>2, ReadIsQuiet, ReadUnitKeeps DEF PathsInv
<1>4. HistoryInv' /\ CopiesInv'
  BY <1>1, <1>3, HistoryStays, CopiesStay DEF PathsInv
<1>5. PathsTypeOK'
  <2>1. writing' = writing \union {<<r, c>>} BY DEF ReadUnit
  <2> QED BY <1>1, <2>1 DEF PathsInv, PathsTypeOK, copyVars, ReadsOnly
<1> QED BY <1>3, <1>4, <1>5 DEF PathsInv

LEMMA StoreKeepsPaths ==
  ASSUME PathsInv, NEW r \in Commands, NEW c \in Copies, Store(r, c)
  PROVE  PathsInv'
<1> DEFINE q == command[r]
           x == [unit |-> q.to, path |-> q.parent.path]
<1>1. /\ q.pc = "store" /\ copy' = [copy EXCEPT ![c] = x]
      /\ command' = [command EXCEPT ![r] = Idle] /\ ReadsOnly /\ applied' = applied
      /\ mixed' = (mixed \/ \E i \in applied : IsPrefix(moves[i].old, copy'[c].path))
  BY DEF Store
<1>2. q \in CommandType
  BY DEF PathsInv, OrgInv, TreeIsSound, OrgTypeOK, CommandType
<1>3. x.unit = q.to /\ x.path = q.parent.path
  OBVIOUS
<1>4. x \in [unit : Units \union {NoUnit}, path : Seq(Units)]
  BY <1>2 DEF CommandType, UnitSeen
<1> HIDE DEF q, x
<1>5. copy \in [Copies -> [unit : Units \union {NoUnit}, path : Seq(Units)]]
      /\ mixed \in BOOLEAN
  BY DEF PathsInv, PathsTypeOK
<1>6. copy'[c] = x /\ \A d \in Copies : d # c => copy'[d] = copy[d]
  BY <1>1, <1>5
<1>7. OrgInv' /\ TreeStep /\ overlap' = overlap /\ moves' = moves /\ tree' = tree
  <2>1. Idle.pc # "store"
    BY DEF Idle
  <2> QED BY <1>1, <2>1, ReadIsQuiet, StoreKeeps DEF PathsInv, ReadsOnly
<1>8. HistoryInv'
  BY <1>7, HistoryStays DEF PathsInv
<1>9. PathsTypeOK'
  <2>1. copy' \in [Copies -> [unit : Units \union {NoUnit}, path : Seq(Units)]]
    BY <1>1, <1>4, <1>5
  <2>2. mixed' \in BOOLEAN
    BY <1>1, <1>5
  <2>3. writing' \subseteq writing
    BY DEF Store
  <2> QED BY <1>1, <1>7, <2>1, <2>2, <2>3 DEF PathsInv, PathsTypeOK
<1>10. ASSUME ~overlap, ~mixed'
       PROVE  \E n \in 0..Len(moves) :
                applied' = 1..n /\ \A d \in Copies : Becomes(copy[d], n)'
  <2>1. PICK n \in 0..Len(moves) : applied = 1..n /\ \A d \in Copies : Becomes(copy[d], n)
    BY <1>1, <1>10 DEF PathsInv, CopiesInv
  <2>2. PICK H : /\ IsHistory(H, moves) /\ H[Len(moves)] = Paths
                 /\ \A d \in Commands : WasPath(H, command[d])
    BY <1>10 DEF PathsInv, HistoryInv
  <2>3. PICK k \in 0..Len(moves) : q.to \in DOMAIN H[k] /\ q.parent.path = H[k][q.to]
    BY <1>1, <2>2 DEF WasPath, q
  <2>4. \A i \in 1..n : ~IsPrefix(moves[i].old, H[k][q.to])
    BY <1>1, <1>3, <1>6, <1>10, <2>1, <2>3
  <2>5. n \in Nat /\ k \in Nat /\ n <= Len(moves) /\ k <= Len(moves)
    <3>1. Len(moves) \in Nat
      BY <2>2 DEF IsHistory
    <3> QED BY <3>1
  <2>6. /\ q.to \in DOMAIN H[Len(moves)]
        /\ \E g : /\ Follows(g, H[k][q.to], moves, n, Len(moves))
                  /\ g[Len(moves)] = H[Len(moves)][q.to]
    BY <2>2, <2>3, <2>4, <2>5, Arrives
  <2>7. q.to \in Used /\ H[Len(moves)][q.to] = tree[q.to].path
    BY <2>2, <2>6 DEF Paths
  <2>8. Becomes(x, n)
    BY <1>3, <2>3, <2>6, <2>7 DEF Becomes
  <2>9. \A d \in Copies : Becomes(copy'[d], n)
    BY <1>6, <2>1, <2>8
  <2>10. \A d \in Copies : Becomes(copy[d], n)'
    BY <1>7, <2>9 DEF Becomes, Used
  <2> QED BY <1>1, <2>1, <2>10
<1>11. CopiesInv'
  BY <1>7, <1>10 DEF CopiesInv
<1> QED BY <1>7, <1>8, <1>9, <1>11 DEF PathsInv

LEMMA ApplyOrgMoveKeepsPaths ==
  ASSUME PathsInv, NEW i, ApplyOrgMove(i)
  PROVE  PathsInv'
<1>1. /\ i \in DOMAIN moves \ applied /\ copy' = [c \in Copies |-> Rewritten(c, moves[i])]
      /\ applied' = applied \union {i}
      /\ mixed' = (mixed \/ \E j \in DOMAIN moves \ applied : j < i)
      /\ UNCHANGED orgVars
  BY DEF ApplyOrgMove
<1>2. tree' = tree /\ command' = command /\ moves' = moves /\ overlap' = overlap
  BY <1>1 DEF orgVars
<1>3. OrgInv'
  BY <1>1, TreeStutters DEF PathsInv
<1>4. HistoryInv'
  BY <1>2 DEF PathsInv, HistoryInv, WasPath, Paths, Used
<1>5. /\ moves \in Seq(Move) /\ Len(moves) \in Nat /\ DOMAIN moves = 1..Len(moves)
      /\ moves[i] \in Move
  BY <1>1 DEF PathsInv, OrgInv, TreeIsSound, OrgTypeOK
<1>6. copy \in [Copies -> [unit : Units \union {NoUnit}, path : Seq(Units)]]
      /\ mixed \in BOOLEAN /\ applied \subseteq DOMAIN moves
  BY DEF PathsInv, PathsTypeOK
<1>7. ASSUME NEW c \in Copies
      PROVE  /\ Rewritten(c, moves[i]).unit = copy[c].unit
             /\ Rewritten(c, moves[i]).path = Rewrite(moves[i], copy[c].path)
             /\ Rewritten(c, moves[i]) \in [unit : Units \union {NoUnit}, path : Seq(Units)]
  <2> DEFINE x == copy[c]
             m == moves[i]
             p == Rebased(m.old, m.new, x.path)
  <2>1. /\ x \in [unit : Units \union {NoUnit}, path : Seq(Units)]
        /\ x.unit \in Units \union {NoUnit} /\ x.path \in Seq(Units)
        /\ m.old \in Seq(Units) /\ m.new \in Seq(Units)
    BY <1>5, <1>6 DEF Move
  <2>2. Rewritten(c, m) = IF IsPrefix(m.old, x.path) THEN [x EXCEPT !.path = p] ELSE x
    BY <2>1 DEF Rewritten, Rebased
  <2>3. Rewrite(m, x.path) = IF IsPrefix(m.old, x.path) THEN p ELSE x.path
    BY DEF Rewrite
  <2>4. IsPrefix(m.old, x.path) => p \in Seq(Units)
    BY <2>1 DEF Rebased, IsPrefix
  <2> HIDE DEF x, m, p
  <2>5. CASE IsPrefix(m.old, x.path)
    <3>1. p \in Seq(Units) /\ Rewritten(c, m) = [x EXCEPT !.path = p] /\ Rewrite(m, x.path) = p
      BY <2>2, <2>3, <2>4, <2>5
    <3> QED BY <2>1, <3>1 DEF x, m
  <2>6. CASE ~IsPrefix(m.old, x.path)
    BY <2>1, <2>2, <2>3, <2>6 DEF x, m
  <2> QED BY <2>5, <2>6
<1>8. \A c \in Copies : copy'[c] = Rewritten(c, moves[i])
  BY <1>1
<1>9. PathsTypeOK'
  <2>1. copy' \in [Copies -> [unit : Units \union {NoUnit}, path : Seq(Units)]]
    BY <1>1, <1>7
  <2>2. mixed' \in BOOLEAN /\ applied' \subseteq DOMAIN moves
    BY <1>1, <1>6
  <2>3. writing' \subseteq Commands \X Copies
    BY DEF PathsInv, PathsTypeOK, ApplyOrgMove
  <2> QED BY <1>2, <2>1, <2>2, <2>3 DEF PathsTypeOK
<1>10. ASSUME ~overlap, ~mixed'
       PROVE  \E n \in 0..Len(moves) :
                applied' = 1..n /\ \A c \in Copies : Becomes(copy[c], n)'
  <2>1. PICK n \in 0..Len(moves) : applied = 1..n /\ \A c \in Copies : Becomes(copy[c], n)
    BY <1>1, <1>10 DEF PathsInv, CopiesInv
  <2>2. i = n + 1 /\ n + 1 \in 0..Len(moves) /\ n \in Nat /\ n + 1 <= Len(moves)
    <3>1. \A j \in DOMAIN moves \ applied : ~(j < i)
      BY <1>1, <1>10
    <3>2. i \in 1..Len(moves) /\ i \notin 1..n
      BY <1>1, <1>5, <2>1
    <3>3. n + 1 \in 1..Len(moves) /\ n + 1 \notin 1..n
      BY <1>5, <3>2
    <3>4. ~(n + 1 < i)
      BY <1>5, <2>1, <3>1, <3>3
    <3> QED BY <1>5, <3>2, <3>3, <3>4
  <2>3. applied' = 1..(n + 1)
    BY <1>1, <2>1, <2>2
  <2>4. ASSUME NEW c \in Copies, copy[c] = NoCopy PROVE copy'[c] = NoCopy
    <3>1. PICK H : IsHistory(H, moves)
      BY <1>10 DEF PathsInv, HistoryInv
    <3>2. n \in 0..Len(moves) /\ i \in 1..Len(moves) /\ i - 1 = n
      BY <1>5, <2>2
    <3>3. Lines(H[n]) /\ After(H[n], moves[i], H[i])
      BY <3>1, <3>2 DEF IsHistory
    <3>4. moves[i].old \in Seq(Units) /\ moves[i].old # <<>>
      BY <3>3 DEF After, Lines
    <3>5. ~IsPrefix(moves[i].old, <<>>)
      BY <3>4 DEF IsPrefix
    <3>6. copy[c].path = <<>>
      BY <2>4 DEF NoCopy
    <3>7. Rewritten(c, moves[i]) = copy[c]
      BY <3>5, <3>6 DEF Rewritten
    <3> QED BY <1>8, <2>4, <3>7
  <2>5. ASSUME NEW c \in Copies, copy'[c] # NoCopy
        PROVE  /\ copy'[c].unit \in Used
               /\ \E f : /\ Follows(f, copy'[c].path, moves, n + 1, Len(moves))
                         /\ f[Len(moves)] = tree[copy'[c].unit].path
    <3>1. copy[c] # NoCopy
      BY <2>4, <2>5
    <3>2. PICK f : /\ copy[c].unit \in Used /\ Follows(f, copy[c].path, moves, n, Len(moves))
                   /\ f[Len(moves)] = tree[copy[c].unit].path
      BY <2>1, <3>1 DEF Becomes
    <3>3. copy'[c].unit = copy[c].unit /\ copy'[c].path = Rewrite(moves[n + 1], copy[c].path)
      BY <1>7, <1>8, <2>2
    <3>4. \E g : /\ Follows(g, Rewrite(moves[n + 1], copy[c].path), moves, n + 1, Len(moves))
                 /\ g[Len(moves)] = f[Len(moves)]
      BY <1>5, <2>2, <3>2, FollowsRest
    <3> QED BY <3>2, <3>3, <3>4
  <2>6. \A c \in Copies : Becomes(copy[c], n + 1)'
    BY <1>2, <2>5 DEF Becomes, Used
  <2> QED BY <2>2, <2>3, <2>6
<1>11. CopiesInv'
  BY <1>2, <1>10 DEF CopiesInv
<1> QED BY <1>3, <1>4, <1>9, <1>11 DEF PathsInv

LEMMA PathsBegin == PathsInit => PathsInv
<1> SUFFICES ASSUME PathsInit PROVE PathsInv
  OBVIOUS
<1>1. OrgInv
  BY TreeBegins DEF PathsInit
<1>2. /\ moves = <<>> /\ command = [r \in Commands |-> Idle] /\ overlap = FALSE
      /\ copy = [c \in Copies |-> NoCopy] /\ applied = {} /\ mixed = FALSE /\ writing = {}
  BY DEF PathsInit, TreeInit
<1>3. PathsTypeOK
  <2>1. NoCopy \in [unit : Units \union {NoUnit}, path : Seq(Units)]
    BY DEF NoCopy
  <2> QED BY <1>2, <2>1 DEF PathsTypeOK
<1>4. HistoryInv
  <2> DEFINE H == [k \in {0} |-> Paths]
  <2>1. Lines(Paths)
    BY <1>1, <1>2, PathsAreLines
  <2>2. moves \in Seq(Move) /\ Len(moves) = 0 /\ 0..Len(moves) = {0} /\ 1..Len(moves) = {}
    BY <1>2
  <2>3. H[0] = Paths
    OBVIOUS
  <2> HIDE DEF H
  <2>4. IsHistory(H, moves) /\ H[Len(moves)] = Paths
    BY <2>1, <2>2, <2>3 DEF IsHistory
  <2>5. \A r \in Commands : WasPath(H, command[r])
    BY <1>2 DEF WasPath, Idle
  <2> QED BY <2>4, <2>5 DEF HistoryInv
<1>5. CopiesInv
  <2>1. 0 \in 0..Len(moves) /\ applied = 1..0
    BY <1>2
  <2>2. \A c \in Copies : Becomes(copy[c], 0)
    BY <1>2 DEF Becomes
  <2> QED BY <2>1, <2>2 DEF CopiesInv
<1> QED BY <1>1, <1>3, <1>4, <1>5 DEF PathsInv

LEMMA PathsStutter == ASSUME PathsInv, UNCHANGED pathVars PROVE PathsInv'
<1>1. UNCHANGED orgVars /\ UNCHANGED copyVars /\ UNCHANGED writing
  BY DEF pathVars
<1>2. /\ tree' = tree /\ command' = command /\ moves' = moves /\ overlap' = overlap
      /\ copy' = copy /\ applied' = applied /\ mixed' = mixed /\ writing' = writing
  BY <1>1 DEF orgVars, copyVars
<1>3. OrgInv'
  BY <1>1, TreeStutters DEF PathsInv
<1>4. HistoryInv'
  BY <1>2 DEF PathsInv, HistoryInv, WasPath, Paths, Used
<1>5. CopiesInv' /\ PathsTypeOK'
  BY <1>2 DEF PathsInv, CopiesInv, Becomes, Used, PathsTypeOK
<1> QED BY <1>3, <1>4, <1>5 DEF PathsInv

LEMMA PathsStep == PathsInv /\ [PathsNext]_pathVars => PathsInv'
<1> SUFFICES ASSUME PathsInv, [PathsNext]_pathVars PROVE PathsInv'
  OBVIOUS
<1>1. ASSUME NEW r \in Commands, Command(r), UNCHANGED copyVars, writing' \subseteq writing
      PROVE  PathsInv'
  BY <1>1, CommandKeepsPaths
<1>2. ASSUME NEW r \in Commands, NEW c \in Copies, NEW u \in Units, ReadUnit(r, c, u)
      PROVE  PathsInv'
  BY <1>2, ReadUnitKeepsPaths
<1>3. ASSUME NEW r \in Commands, NEW c \in Copies, Store(r, c) PROVE PathsInv'
  BY <1>3, StoreKeepsPaths
<1>4. ASSUME NEW i, ApplyOrgMove(i) PROVE PathsInv'
  BY <1>4, ApplyOrgMoveKeepsPaths
<1>5. CASE UNCHANGED pathVars
  BY <1>5, PathsStutter
<1>6. CASE TreeNext /\ UNCHANGED copyVars
           /\ writing' = {p \in writing : command'[p[1]].pc = "store"}
  <2>1. writing' \subseteq writing BY <1>6
  <2> QED BY <1>1, <1>6, <2>1 DEF TreeNext
<1> QED BY <1>2, <1>3, <1>4, <1>5, <1>6 DEF PathsNext

-----------------------------------------------------------------------------
(* Theorems                                                                *)

\* However commands overlap, the depth of every unit of the tree counts the units above
\* it on its path, which begins with the root and ends with the unit; and as long as no
\* command wrote on top of what it had not read, the paths follow the parents, active
\* units are under active ones and no unit is too deep (org.service.ts).
THEOREM TreeStaysSound == TreeSpec => []TreeIsSound
<1>1. OrgInv /\ [TreeNext]_orgVars => OrgInv'
  BY CommandKeeps, TreeStutters DEF TreeNext
<1>2. OrgInv => TreeIsSound
  BY DEF OrgInv
<1> QED BY <1>1, <1>2, TreeBegins, PTL DEF TreeSpec

\* The same with the services that copy paths of the tree.
THEOREM TreeStaysSoundBesideCopies == PathsSpec => []TreeIsSound
<1>1. PathsInv => TreeIsSound
  BY DEF PathsInv, OrgInv
<1> QED BY <1>1, PathsBegin, PathsStep, PTL DEF PathsSpec

\* A copy of a path of the tree, in a record or in a role assignment, is the path of its
\* unit when all moves were applied, whatever paths the commands had read by the time
\* they stored them, as long as no event overtook another one or a path it rewrites
\* (applyOrgMove of records.service.ts and assignments.service.ts).
THEOREM CopiesStayInStep == PathsSpec => []CopiesInStep
<1>1. PathsInv => CopiesInStep
  <2> SUFFICES ASSUME PathsInv, applied = DOMAIN moves, ~mixed, ~overlap,
                      NEW c \in Copies, copy[c] # NoCopy
               PROVE  copy[c].path = tree[copy[c].unit].path
    BY DEF PathsInv, CopiesInStep
  <2>1. PICK n \in 0..Len(moves) : applied = 1..n /\ Becomes(copy[c], n)
    BY DEF PathsInv, CopiesInv
  <2>2. PICK f : /\ Follows(f, copy[c].path, moves, n, Len(moves))
                 /\ f[Len(moves)] = tree[copy[c].unit].path
    BY <2>1 DEF Becomes
  <2>3. n = Len(moves)
    <3>1. moves \in Seq(Move)
      BY DEF PathsInv, OrgInv, TreeIsSound, OrgTypeOK
    <3>2. Len(moves) \in Nat /\ DOMAIN moves = 1..Len(moves)
      BY <3>1
    <3>3. 1..n = 1..Len(moves)
      BY <2>1, <3>2
    <3>4. n \in Nat /\ n <= Len(moves)
      BY <2>1, <3>2
    <3>5. \A a, b \in Nat : a <= b /\ 1..a = 1..b => a = b
      <4> SUFFICES ASSUME NEW a \in Nat, NEW b \in Nat, a < b PROVE 1..a # 1..b
        OBVIOUS
      <4>1. b \in 1..b /\ b \notin 1..a
        OBVIOUS
      <4> QED BY <4>1
    <3> QED BY <3>2, <3>3, <3>4, <3>5
  <2>4. f[n] = copy[c].path
    BY <2>2 DEF Follows
  <2> QED BY <2>2, <2>3, <2>4
<1> QED BY <1>1, PathsBegin, PathsStep, PTL DEF PathsSpec
=============================================================================
