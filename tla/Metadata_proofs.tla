-------------------------- MODULE Metadata_proofs --------------------------
(***************************************************************************)
(* Theorems about RecordRules, for any rules, values of fields and bodies, *)
(* and about Periods, for any days, fiscal years and days off.             *)
(***************************************************************************)
EXTENDS Metadata, FiniteSetTheorems, WellFoundedInduction, TLAPS

\* A set of natural numbers that holds 0 and what follows its members holds them all.
LEMMA Induction ==
  ASSUME NEW N \in Nat, NEW G, 0 \in G, \A n \in 1..N : n - 1 \in G => n \in G
  PROVE  \A n \in 0..N : n \in G
<1> DEFINE Less == {ss \in Nat \X Nat : ss[1] < ss[2]}
           T == {n \in 0..N : n \notin G}
<1>1. IsWellFoundedOn(Less, Nat) BY NatLessThanWellFounded, Zenon DEF OpToRel
<1>2. SUFFICES ASSUME T # {} PROVE FALSE OBVIOUS
<1>3. PICK x \in T : \A y \in T : <<y, x>> \notin Less
  <2>1. T \in SUBSET Nat OBVIOUS
  <2> HIDE DEF Less, T
  <2> QED BY <1>1, <1>2, <2>1, WFMin, Zenon
<1>4. x \in 1..N BY <1>3
<1>5. x - 1 \in T BY <1>3, <1>4
<1>6. <<x - 1, x>> \in Less BY <1>4
<1> QED BY <1>3, <1>5, <1>6

-----------------------------------------------------------------------------
(* RecordRules *)

Kinds == {"hide", "readonly", "require"}

\* What the code asks of the rules of an entity, and of the value that clears a field.
RulesAreSound ==
  /\ \A rs \in RuleSets :
       /\ Len(rs) \in Nat /\ DOMAIN rs = 1..Len(rs)
       /\ \A i \in DOMAIN rs : rs[i].effect \in Kinds \cup {"set", "block"}
  /\ Blank \notin Prices \cup Notes \cup {Item}

PassAt(f, n, rs, input, old) ==
  IF n = 0 THEN Unseen(input) ELSE ApplyOne(f[n - 1], rs[n], old)
IsPass(f, m, rs, input, old) == f = [n \in 0..m |-> PassAt(f, n, rs, input, old)]

\* The pass over the rules goes from one rule to the next.
LEMMA PassSteps ==
  ASSUME NEW rs, Len(rs) \in Nat, NEW input, NEW old
  PROVE  LET seen == Pass(rs, input, old) IN
         /\ seen[0] = Unseen(input)
         /\ \A n \in 1..Len(rs) : seen[n] = ApplyOne(seen[n - 1], rs[n], old)
<1> DEFINE Is(f, m) == IsPass(f, m, rs, input, old)
           G == {m \in Nat : \E f : Is(f, m)}
<1>1. 0 \in G
  <2> DEFINE f == [n \in 0..0 |-> Unseen(input)]
  <2>1. Is(f, 0) BY DEF IsPass, PassAt
  <2> QED BY <2>1
<1>2. ASSUME NEW m \in 1..Len(rs), m - 1 \in G PROVE m \in G
  <2>1. PICK f : Is(f, m - 1) BY <1>2
  <2> DEFINE g == [n \in 0..m |-> IF n = m THEN ApplyOne(f[m - 1], rs[m], old) ELSE f[n]]
  <2>2. \A n \in 0..(m - 1) : f[n] = PassAt(f, n, rs, input, old)
    BY <2>1 DEF IsPass
  <2>3. \A n \in 0..m : g[n] = PassAt(g, n, rs, input, old)
    <3> TAKE n \in 0..m
    <3>1. CASE n = m BY <3>1 DEF PassAt
    <3>2. CASE n # m
      <4>1. n \in 0..(m - 1) /\ (n # 0 => n - 1 \in 0..(m - 1)) BY <3>2
      <4> QED BY <2>2, <4>1 DEF PassAt
    <3> QED BY <3>1, <3>2
  <2>4. g = [n \in 0..m |-> g[n]] OBVIOUS
  <2>5. Is(g, m)
    <3> HIDE DEF g
    <3> QED BY <2>3, <2>4 DEF IsPass
  <2> QED BY <2>5
<1>3. \E f : Is(f, Len(rs))
  <2>1. \A m \in 1..Len(rs) : m - 1 \in G => m \in G BY <1>2
  <2>2. \A m \in 0..Len(rs) : m \in G
    <3> HIDE DEF G
    <3> QED BY <1>1, <2>1, Induction
  <2> QED BY <2>2
<1> DEFINE seen == Pass(rs, input, old)
<1>4. seen = CHOOSE f : Is(f, Len(rs)) BY DEF Pass, IsPass, PassAt
<1>5. Is(seen, Len(rs))
  <2> HIDE DEF Is, seen
  <2> QED BY <1>3, <1>4
<1>6. \A n \in 0..Len(rs) : seen[n] = PassAt(seen, n, rs, input, old)
  <2> HIDE DEF seen
  <2> QED BY <1>5 DEF IsPass
<1> HIDE DEF seen
<1>7. seen[0] = Unseen(input) BY <1>6 DEF PassAt
<1>8. ASSUME NEW n \in 1..Len(rs) PROVE seen[n] = ApplyOne(seen[n - 1], rs[n], old)
  BY <1>6 DEF PassAt
<1> QED BY <1>7, <1>8 DEF seen

RevertAt(f, n, rs, data, ks, old) ==
  IF n = 0 THEN data ELSE RevertOne(rs, f[n - 1], ks[n], old)
IsRevert(f, m, rs, data, ks, old) == f = [n \in 0..m |-> RevertAt(f, n, rs, data, ks, old)]

\* The protected fields are reverted one after the other.
LEMMA RevertSteps ==
  ASSUME NEW rs, NEW data, NEW ks, Len(ks) \in Nat, NEW old
  PROVE  LET reverted == Revert(rs, data, ks, old) IN
         /\ reverted[0] = data
         /\ \A n \in 1..Len(ks) : reverted[n] = RevertOne(rs, reverted[n - 1], ks[n], old)
<1> DEFINE Is(f, m) == IsRevert(f, m, rs, data, ks, old)
           G == {m \in Nat : \E f : Is(f, m)}
<1>1. 0 \in G
  <2> DEFINE f == [n \in 0..0 |-> data]
  <2>1. Is(f, 0) BY DEF IsRevert, RevertAt
  <2> QED BY <2>1
<1>2. ASSUME NEW m \in 1..Len(ks), m - 1 \in G PROVE m \in G
  <2>1. PICK f : Is(f, m - 1) BY <1>2
  <2> DEFINE g == [n \in 0..m |-> IF n = m THEN RevertOne(rs, f[m - 1], ks[m], old) ELSE f[n]]
  <2>2. \A n \in 0..(m - 1) : f[n] = RevertAt(f, n, rs, data, ks, old)
    BY <2>1 DEF IsRevert
  <2>3. \A n \in 0..m : g[n] = RevertAt(g, n, rs, data, ks, old)
    <3> TAKE n \in 0..m
    <3>1. CASE n = m BY <3>1 DEF RevertAt
    <3>2. CASE n # m
      <4>1. n \in 0..(m - 1) /\ (n # 0 => n - 1 \in 0..(m - 1)) BY <3>2
      <4> QED BY <2>2, <4>1 DEF RevertAt
    <3> QED BY <3>1, <3>2
  <2>4. g = [n \in 0..m |-> g[n]] OBVIOUS
  <2>5. Is(g, m)
    <3> HIDE DEF g
    <3> QED BY <2>3, <2>4 DEF IsRevert
  <2> QED BY <2>5
<1>3. \E f : Is(f, Len(ks))
  <2>1. \A m \in 1..Len(ks) : m - 1 \in G => m \in G BY <1>2
  <2>2. \A m \in 0..Len(ks) : m \in G
    <3> HIDE DEF G
    <3> QED BY <1>1, <2>1, Induction
  <2> QED BY <2>2
<1> DEFINE reverted == Revert(rs, data, ks, old)
<1>4. reverted = CHOOSE f : Is(f, Len(ks)) BY DEF Revert, IsRevert, RevertAt
<1>5. Is(reverted, Len(ks))
  <2> HIDE DEF Is, reverted
  <2> QED BY <1>3, <1>4
<1>6. \A n \in 0..Len(ks) : reverted[n] = RevertAt(reverted, n, rs, data, ks, old)
  <2> HIDE DEF reverted
  <2> QED BY <1>5 DEF IsRevert
<1> HIDE DEF reverted
<1>7. reverted[0] = data BY <1>6 DEF RevertAt
<1>8. ASSUME NEW n \in 1..Len(ks)
      PROVE  reverted[n] = RevertOne(rs, reverted[n - 1], ks[n], old)
  BY <1>6 DEF RevertAt
<1> QED BY <1>7, <1>8 DEF reverted

\* Rules that the pass is about: an effect that the code knows, a list.
Sound(rs) ==
  /\ Len(rs) \in Nat /\ DOMAIN rs = 1..Len(rs)
  /\ \A i \in DOMAIN rs : rs[i].effect \in Kinds \cup {"set", "block"}
FieldsOf(rs) == {rs[i].field : i \in DOMAIN rs}

\* A field that is added is there, and what was there stays.
LEMMA AddingContains ==
  ASSUME NEW S, NEW ks \in Seq(S), NEW k \in S
  PROVE  /\ Adding(ks, k) \in Seq(S)
         /\ Contains(Adding(ks, k), k)
         /\ \A j : Contains(ks, j) => Contains(Adding(ks, k), j)
<1>1. CASE Contains(ks, k) BY <1>1 DEF Adding
<1>2. CASE ~Contains(ks, k)
  <2>1. /\ Append(ks, k) \in Seq(S) /\ Len(Append(ks, k)) = Len(ks) + 1
        /\ Append(ks, k)[Len(ks) + 1] = k
        /\ \A i \in 1..Len(ks) : Append(ks, k)[i] = ks[i]
    OBVIOUS
  <2>2. Len(ks) \in Nat OBVIOUS
  <2> QED BY <1>2, <2>1, <2>2 DEF Adding, Contains
<1> QED BY <1>1, <1>2

\* The lists of fields found are lists of the rules' fields.
LEMMA PassTypes ==
  ASSUME NEW rs, Sound(rs), NEW input, NEW old
  PROVE  \A n \in 0..Len(rs) : Pass(rs, input, old)[n].fields \in [Kinds -> Seq(FieldsOf(rs))]
<1> DEFINE seen == Pass(rs, input, old)
           Lists == [Kinds -> Seq(FieldsOf(rs))]
           G == {n \in 0..Len(rs) : seen[n].fields \in Lists}
<1>1. seen[0] = Unseen(input)
      /\ \A n \in 1..Len(rs) : seen[n] = ApplyOne(seen[n - 1], rs[n], old)
  BY PassSteps DEF Sound
<1> HIDE DEF seen
<1>2. 0 \in G
  <2>1. seen[0].fields = [e \in Kinds |-> <<>>] BY <1>1 DEF Unseen, Kinds
  <2>2. <<>> \in Seq(FieldsOf(rs)) OBVIOUS
  <2>3. seen[0].fields \in Lists BY <2>1, <2>2
  <2>4. 0 \in 0..Len(rs) BY DEF Sound
  <2> QED BY <2>3, <2>4
<1>3. ASSUME NEW n \in 1..Len(rs), n - 1 \in G PROVE n \in G
  <2> DEFINE b == seen[n - 1]
             r == rs[n]
  <2>1. b.fields \in Lists /\ seen[n] = ApplyOne(b, r, old) BY <1>1, <1>3
  <2>2. r.effect \in Kinds \cup {"set", "block"} /\ r.field \in FieldsOf(rs)
    BY DEF Sound, FieldsOf
  <2> HIDE DEF b, r
  <2>3. CASE ApplyOne(b, r, old).fields = b.fields BY <2>1, <2>3, <1>3
  <2>4. CASE ApplyOne(b, r, old).fields # b.fields
    <3>1. r.effect \in Kinds BY <2>2, <2>4 DEF ApplyOne
    <3>2. ApplyOne(b, r, old).fields =
            [b.fields EXCEPT ![r.effect] = Adding(b.fields[r.effect], r.field)]
      BY <2>4 DEF ApplyOne
    <3>3. Adding(b.fields[r.effect], r.field) \in Seq(FieldsOf(rs))
      BY <2>1, <2>2, <3>1, AddingContains
    <3>4. seen[n].fields \in Lists BY <2>1, <3>1, <3>2, <3>3
    <3> QED BY <1>3, <3>4
  <2> QED BY <2>3, <2>4
<1>4. \A n \in 1..Len(rs) : n - 1 \in G => n \in G BY <1>3
<1>5. \A n \in 0..Len(rs) : n \in G
  <2> HIDE DEF G
  <2> QED BY <1>2, <1>4, Induction DEF Sound
<1> QED BY <1>5 DEF seen

\* Without rules that set values the pass changes no data, and it finds every field that
\* a rule protects whose condition holds.
LEMMA PassFinds ==
  ASSUME NEW rs, Sound(rs), NEW input, NEW old, \A i \in DOMAIN rs : rs[i].effect # "set"
  PROVE  LET seen == Pass(rs, input, old)[Len(rs)] IN
         /\ seen.data = input
         /\ \A i \in DOMAIN rs :
              rs[i].effect \in Kinds /\ Holds(rs[i].when, input, old)
                => Contains(seen.fields[rs[i].effect], rs[i].field)
<1> DEFINE seen == Pass(rs, input, old)
           Found(n) == \A i \in 1..n :
              rs[i].effect \in Kinds /\ Holds(rs[i].when, input, old)
                => Contains(seen[n].fields[rs[i].effect], rs[i].field)
           G == {n \in 0..Len(rs) : seen[n].data = input /\ Found(n)}
<1>1. seen[0] = Unseen(input)
      /\ \A n \in 1..Len(rs) : seen[n] = ApplyOne(seen[n - 1], rs[n], old)
  BY PassSteps DEF Sound
<1>2. \A n \in 0..Len(rs) : seen[n].fields \in [Kinds -> Seq(FieldsOf(rs))]
  BY PassTypes
<1> HIDE DEF seen
<1>3. 0 \in G BY <1>1 DEF Unseen, Sound
<1>4. ASSUME NEW n \in 1..Len(rs), n - 1 \in G PROVE n \in G
  <2> DEFINE b == seen[n - 1]
             r == rs[n]
  <2>1. /\ b.data = input /\ b.fields \in [Kinds -> Seq(FieldsOf(rs))]
        /\ seen[n] = ApplyOne(b, r, old)
    BY <1>1, <1>2, <1>4
  <2>2. /\ r.effect \in Kinds \cup {"set", "block"} /\ r.field \in FieldsOf(rs)
        /\ r.effect # "set"
    BY DEF Sound, FieldsOf
  <2>3. n \in 0..Len(rs) BY DEF Sound
  <2>4. CASE r.effect \in Kinds /\ Holds(r.when, input, old)
    <3> DEFINE added == Adding(b.fields[r.effect], r.field)
    <3>1. seen[n].data = input /\ seen[n].fields = [b.fields EXCEPT ![r.effect] = added]
      BY <2>1, <2>2, <2>4 DEF ApplyOne, Kinds
    <3>2. /\ Contains(added, r.field)
          /\ \A j : Contains(b.fields[r.effect], j) => Contains(added, j)
      <4>1. b.fields[r.effect] \in Seq(FieldsOf(rs)) BY <2>1, <2>4
      <4>2. \A ks \in Seq(FieldsOf(rs)), k \in FieldsOf(rs) :
              Contains(Adding(ks, k), k) /\ \A j : Contains(ks, j) => Contains(Adding(ks, k), j)
        BY AddingContains
      <4> QED BY <2>2, <4>1, <4>2
    <3> HIDE DEF added
    <3>3. /\ seen[n].fields[r.effect] = added
          /\ \A e \in Kinds : e # r.effect => seen[n].fields[e] = b.fields[e]
      BY <2>1, <2>4, <3>1
    <3>4. Found(n)
      <4> SUFFICES ASSUME NEW i \in 1..n, rs[i].effect \in Kinds,
                          Holds(rs[i].when, input, old)
                   PROVE  Contains(seen[n].fields[rs[i].effect], rs[i].field)
        OBVIOUS
      <4>1. CASE i = n BY <3>2, <3>3, <4>1
      <4>2. CASE i # n
        <5>1. Contains(b.fields[rs[i].effect], rs[i].field) BY <1>4, <4>2
        <5> QED BY <3>2, <3>3, <5>1
      <4> QED BY <4>1, <4>2
    <3> QED BY <2>3, <3>1, <3>4
  <2>5. CASE ~(r.effect \in Kinds /\ Holds(r.when, input, old))
    <3>1. seen[n] = b BY <2>1, <2>2, <2>5 DEF ApplyOne
    <3>2. Found(n)
      <4> SUFFICES ASSUME NEW i \in 1..n, rs[i].effect \in Kinds,
                          Holds(rs[i].when, input, old)
                   PROVE  Contains(seen[n].fields[rs[i].effect], rs[i].field)
        OBVIOUS
      <4>1. i \in 1..(n - 1) BY <2>5
      <4> QED BY <1>4, <3>1, <4>1
    <3> QED BY <2>1, <2>3, <3>1, <3>2
  <2> QED BY <2>4, <2>5
<1>5. \A n \in 1..Len(rs) : n - 1 \in G => n \in G BY <1>4
<1>6. \A n \in 0..Len(rs) : n \in G
  <2> HIDE DEF G
  <2> QED BY <1>3, <1>5, Induction DEF Sound
<1>7. Len(rs) \in G BY <1>6 DEF Sound
<1> QED BY <1>7 DEF Sound, seen

\* The pass leaves alone what no rule sets.
LEMMA PassKeeps ==
  ASSUME NEW rs, Sound(rs), NEW input, NEW old, NEW k \in DOMAIN input,
         \A i \in DOMAIN rs : rs[i].effect = "set" => rs[i].field # k
  PROVE  LET data == Pass(rs, input, old)[Len(rs)].data IN
         k \in DOMAIN data /\ data[k] = input[k]
<1> DEFINE seen == Pass(rs, input, old)
           G == {n \in 0..Len(rs) : k \in DOMAIN seen[n].data /\ seen[n].data[k] = input[k]}
<1>1. seen[0] = Unseen(input)
      /\ \A n \in 1..Len(rs) : seen[n] = ApplyOne(seen[n - 1], rs[n], old)
  BY PassSteps DEF Sound
<1> HIDE DEF seen
<1>2. 0 \in G BY <1>1 DEF Unseen, Sound
<1>3. ASSUME NEW n \in 1..Len(rs), n - 1 \in G PROVE n \in G
  <2> DEFINE b == seen[n - 1]
             r == rs[n]
  <2>1. /\ k \in DOMAIN b.data /\ b.data[k] = input[k]
        /\ seen[n] = ApplyOne(b, r, old)
    BY <1>1, <1>3
  <2>2. r.effect = "set" => r.field # k BY DEF Sound
  <2> HIDE DEF b, r
  <2>3. seen[n].data = b.data \/ (r.field # k /\ seen[n].data = With(b.data, r.field, r.value))
    BY <2>1, <2>2 DEF ApplyOne
  <2>4. k \in DOMAIN seen[n].data /\ seen[n].data[k] = input[k]
    BY <2>1, <2>3 DEF With
  <2> QED BY <2>4, <1>3 DEF Sound
<1>4. \A n \in 1..Len(rs) : n - 1 \in G => n \in G BY <1>3
<1>5. \A n \in 0..Len(rs) : n \in G
  <2> HIDE DEF G
  <2> QED BY <1>2, <1>4, Induction DEF Sound
<1>6. Len(rs) \in G BY <1>5 DEF Sound
<1> QED BY <1>6 DEF seen

\* Reverting leaves a value as it is that is the old one.
LEMMA RevertKeeps ==
  ASSUME NEW rs, NEW data, NEW ks, Len(ks) \in Nat, NEW old, NEW k,
         Filled(old, k), k \in DOMAIN data, data[k] = old[k]
  PROVE  LET d == Revert(rs, data, ks, old)[Len(ks)] IN k \in DOMAIN d /\ d[k] = old[k]
<1> DEFINE d == Revert(rs, data, ks, old)
           G == {n \in 0..Len(ks) : k \in DOMAIN d[n] /\ d[n][k] = old[k]}
<1>1. d[0] = data /\ \A n \in 1..Len(ks) : d[n] = RevertOne(rs, d[n - 1], ks[n], old)
  BY RevertSteps
<1> HIDE DEF d
<1>2. 0 \in G BY <1>1
<1>3. ASSUME NEW n \in 1..Len(ks), n - 1 \in G PROVE n \in G
  <2> DEFINE b == d[n - 1]
             j == ks[n]
  <2>1. k \in DOMAIN b /\ b[k] = old[k] /\ d[n] = RevertOne(rs, b, j, old)
    BY <1>1, <1>3
  <2> HIDE DEF b, j
  <2>2. \/ d[n] = b
        \/ d[n] = With(b, j, old[j])
        \/ ~Filled(old, j) /\ d[n] = Without(b, j)
    BY <2>1 DEF RevertOne
  <2>3. k \in DOMAIN d[n] /\ d[n][k] = old[k]
    BY <2>1, <2>2 DEF With, Without, Restrict
  <2> QED BY <2>3
<1>4. \A n \in 1..Len(ks) : n - 1 \in G => n \in G BY <1>3
<1>5. \A n \in 0..Len(ks) : n \in G
  <2> HIDE DEF G
  <2> QED BY <1>2, <1>4, Induction
<1>6. Len(ks) \in G BY <1>5
<1> QED BY <1>6 DEF d

\* A field is back when it has its old value, or none if it had none.
Back(data, k, old) ==
  IF Filled(old, k) THEN k \in DOMAIN data /\ data[k] = old[k] ELSE k \notin DOMAIN data

\* Without rules that set values all protected fields are back in the end.
LEMMA RevertRestores ==
  ASSUME NEW rs, NEW data, NEW ks, Len(ks) \in Nat, NEW old,
         \A i \in DOMAIN rs : rs[i].effect # "set"
  PROVE  \A i \in 1..Len(ks) : Back(Revert(rs, data, ks, old)[Len(ks)], ks[i], old)
<1> DEFINE d == Revert(rs, data, ks, old)
           G == {n \in 0..Len(ks) : \A i \in 1..n : Back(d[n], ks[i], old)}
<1>1. d[0] = data /\ \A n \in 1..Len(ks) : d[n] = RevertOne(rs, d[n - 1], ks[n], old)
  BY RevertSteps
<1> HIDE DEF d
<1>2. 0 \in G OBVIOUS
<1>3. ASSUME NEW n \in 1..Len(ks), n - 1 \in G PROVE n \in G
  <2> DEFINE b == d[n - 1]
             j == ks[n]
  <2>1. d[n] = RevertOne(rs, b, j, old) BY <1>1
  <2>2. ~SetByRule(rs, j, b, old) BY DEF SetByRule
  <2>3. d[n] = IF Filled(old, j) THEN With(b, j, old[j]) ELSE Without(b, j)
    BY <2>1, <2>2 DEF RevertOne
  <2>4. ASSUME NEW i \in 1..n PROVE Back(d[n], ks[i], old)
    <3>1. CASE ks[i] = j BY <2>3, <3>1 DEF Back, With, Without, Restrict
    <3>2. CASE ks[i] # j
      <4>1. i \in 1..(n - 1) BY <3>2
      <4>2. Back(b, ks[i], old) BY <1>3, <4>1
      <4> HIDE DEF b, j
      <4> QED BY <2>3, <3>2, <4>2 DEF Back, With, Without, Restrict
    <3> QED BY <3>1, <3>2
  <2> QED BY <2>4
<1>4. \A n \in 1..Len(ks) : n - 1 \in G => n \in G BY <1>3
<1>5. \A n \in 0..Len(ks) : n \in G
  <2> HIDE DEF G
  <2> QED BY <1>2, <1>4, Induction
<1>6. Len(ks) \in G BY <1>5
<1> QED BY <1>6 DEF d

\* What validateRecord makes of a field that a client may type, and of the formula.
LEMMA ValidatedField ==
  ASSUME NEW input, NEW old, NEW creating, NEW k \in Typed
  PROVE  LET below == Spread(DefaultsFor(input, creating), old)
             data == ValidateRecord(input, old, creating)
         IN /\ k \in DOMAIN input =>
                 /\ k \in DOMAIN data <=> input[k] # Blank
                 /\ k \in DOMAIN data => data[k] = input[k]
            /\ k \notin DOMAIN input =>
                 /\ k \in DOMAIN data <=> k \in DOMAIN below /\ below[k] # Blank
                 /\ k \in DOMAIN data => data[k] = below[k]
<1> DEFINE below == Spread(DefaultsFor(input, creating), old)
           merged == Merge(below, input)
           data == ValidateRecord(input, old, creating)
<1> HIDE DEF below
<1>1. /\ k \in DOMAIN input =>
           /\ k \in DOMAIN merged <=> input[k] # Blank
           /\ k \in DOMAIN merged => merged[k] = input[k]
      /\ k \notin DOMAIN input =>
           /\ k \in DOMAIN merged <=> k \in DOMAIN below /\ below[k] # Blank
           /\ k \in DOMAIN merged => merged[k] = below[k]
  BY DEF Merge
<1>2. data = ComputeFormulas(merged) BY DEF ValidateRecord, below
<1> HIDE DEF merged, data
<1>3. (k \in DOMAIN data <=> k \in DOMAIN merged) /\ (k \in DOMAIN merged => data[k] = merged[k])
  <2>1. k # "total" BY DEF Typed
  <2> QED BY <1>2, <2>1 DEF ComputeFormulas, Put, With, Without, Restrict
<1> QED BY <1>1, <1>3 DEF below, data

\* What is stored is filled, and the formula is that of the values stored.
LEMMA ValidatedRecord ==
  ASSUME NEW input, NEW old, NEW creating
  PROVE  LET data == ValidateRecord(input, old, creating) IN
         /\ \A k \in DOMAIN data : data[k] # Blank
         /\ entity.formula =>
              /\ Filled(data, "total") <=> Filled(data, "price")
              /\ Filled(data, "price") => data["total"] = data["price"]
<1> DEFINE merged == Merge(Spread(DefaultsFor(input, creating), old), input)
           data == ValidateRecord(input, old, creating)
<1>1. \A k \in DOMAIN merged : merged[k] # Blank BY DEF Merge
<1>2. data = ComputeFormulas(merged) BY DEF ValidateRecord
<1> HIDE DEF merged, data
<1>3. \A k \in DOMAIN data : data[k] # Blank
  BY <1>1, <1>2 DEF ComputeFormulas, Put, With, Without, Restrict, Filled
<1>4. ASSUME entity.formula
      PROVE  /\ Filled(data, "total") <=> Filled(data, "price")
             /\ Filled(data, "price") => data["total"] = data["price"]
  BY <1>2, <1>4 DEF ComputeFormulas, Put, With, Without, Restrict, Filled
<1> QED BY <1>3, <1>4 DEF data

\* The steps of a save.
SentOf(rs, body) == IF rs = <<>> THEN body ELSE Spread(body, Old)
EffectsOf(rs, body) == ApplyFieldRules(rs, SentOf(rs, body), Old)
InputOf(rs, body) == FillDefaults(EffectsOf(rs, body).data)
DataOf(rs, body) == ValidateRecord(InputOf(rs, body), Old, stored = NoRecord)

LEMMA SaveSteps ==
  ASSUME NEW rs, NEW body, Save(rs, body).kind = "record"
  PROVE  /\ Save(rs, body).data = DataOf(rs, body)
         /\ ~Refuses(rs, EffectsOf(rs, body), DataOf(rs, body), Old)
<1> DEFINE bad == Calculated(InputOf(rs, body))
                  \/ Refuses(rs, EffectsOf(rs, body), DataOf(rs, body), Old)
           d == DataOf(rs, body)
<1>1. Save(rs, body) = IF bad THEN [kind |-> "refused"] ELSE Record(d)
  BY Zenon DEF Save, DataOf, InputOf, EffectsOf, SentOf, Old
<1> HIDE DEF d
<1>2. Record(d).data = d BY DEF Record
<1>3. ~bad
  <2> SUFFICES ASSUME bad PROVE FALSE OBVIOUS
  <2>1. Save(rs, body) = [kind |-> "refused"] BY <1>1
  <2> QED BY <2>1
<1> QED BY <1>1, <1>2, <1>3 DEF d

\* A save obeys the blocking rules and the formula.
LEMMA SaveObeys ==
  ASSUME NEW body, Sound(rules) PROVE SavedObeys(body)
<1> SUFFICES ASSUME Save(rules, body).kind = "record"
             PROVE  /\ \A i \in RulesWith("block") :
                         ~Holds(rules[i].when, Save(rules, body).data, Old)
                    /\ entity.formula =>
                         LET d == Save(rules, body).data IN
                         /\ Filled(d, "total") <=> Filled(d, "price")
                         /\ Filled(d, "price") => d.total = d.price
  BY DEF SavedObeys
<1> DEFINE d == DataOf(rules, body)
<1>1. Save(rules, body).data = d /\ ~Refuses(rules, EffectsOf(rules, body), d, Old)
  BY SaveSteps
<1>2. entity.formula => /\ Filled(d, "total") <=> Filled(d, "price")
                        /\ Filled(d, "price") => d["total"] = d["price"]
  BY ValidatedRecord DEF DataOf
<1> HIDE DEF d
<1>3. \A i \in RulesWith("block") : ~Holds(rules[i].when, d, Old)
  BY <1>1 DEF Refuses, RulesWith
<1> QED BY <1>1, <1>2, <1>3

\* What a record has is filled, and so is the price of the linked record.
StoredOK == item # Blank /\ \A k \in DOMAIN Old : Old[k] # Blank

\* What the pass found in the end, and the fields it protects.
SeenBy(rs, input, old) == Pass(rs, input, old)[Len(rs)]
Shielded(rs, input, old) ==
  SeenBy(rs, input, old).fields["hide"] \o SeenBy(rs, input, old).fields["readonly"]

\* The data after the rules, before values of the linked record are filled in.
LEMMA RuledData ==
  ASSUME NEW rs, Sound(rs), NEW input, NEW old
  PROVE  /\ Len(Shielded(rs, input, old)) \in Nat
         /\ ApplyFieldRules(rs, input, old).data =
              Revert(rs, SeenBy(rs, input, old).data, Shielded(rs, input, old), old)
                [Len(Shielded(rs, input, old))]
         /\ \A k : \A e \in {"hide", "readonly"} :
              Contains(SeenBy(rs, input, old).fields[e], k)
                => \E i \in 1..Len(Shielded(rs, input, old)) : Shielded(rs, input, old)[i] = k
<1> DEFINE seen == SeenBy(rs, input, old)
           ks == Shielded(rs, input, old)
<1> DEFINE hide == seen.fields["hide"]
           readonly == seen.fields["readonly"]
<1>1. hide \in Seq(FieldsOf(rs)) /\ readonly \in Seq(FieldsOf(rs))
  <2>1. seen.fields \in [Kinds -> Seq(FieldsOf(rs))] BY PassTypes DEF Sound, SeenBy
  <2> QED BY <2>1 DEF Kinds
<1>2. ApplyFieldRules(rs, input, old).data = Revert(rs, seen.data, ks, old)[Len(ks)]
  BY DEF ApplyFieldRules, Shielded, SeenBy
<1>3. ks = hide \o readonly BY DEF Shielded
<1> HIDE DEF hide, readonly, ks
<1>4. /\ Len(ks) = Len(hide) + Len(readonly) /\ Len(hide) \in Nat /\ Len(readonly) \in Nat
      /\ \A i \in 1..Len(hide) : ks[i] = hide[i]
      /\ \A i \in 1..Len(readonly) : ks[Len(hide) + i] = readonly[i]
  BY <1>1, <1>3
<1>5. ASSUME NEW k, Contains(hide, k) \/ Contains(readonly, k)
      PROVE  \E i \in 1..Len(ks) : ks[i] = k
  <2>1. CASE Contains(hide, k)
    <3>1. PICK i \in 1..Len(hide) : hide[i] = k BY <2>1 DEF Contains
    <3>2. i \in 1..Len(ks) BY <1>4
    <3> QED BY <1>4, <3>1, <3>2
  <2>2. CASE Contains(readonly, k)
    <3>1. PICK i \in 1..Len(readonly) : readonly[i] = k BY <2>2 DEF Contains
    <3>2. Len(hide) + i \in 1..Len(ks) BY <1>4
    <3> QED BY <1>4, <3>1, <3>2
  <2> QED BY <1>5, <2>1, <2>2
<1>6. Len(ks) \in Nat BY <1>4
<1>7. \A k : \A e \in {"hide", "readonly"} :
        Contains(seen.fields[e], k) => \E i \in 1..Len(ks) : ks[i] = k
  BY <1>5 DEF hide, readonly
<1> QED BY <1>2, <1>6, <1>7 DEF ks

\* What the linked record adds: a price where there was none.
LEMMA FilledField ==
  ASSUME NEW data, NEW k, k # "price" \/ Filled(data, "price")
  PROVE  /\ k \in DOMAIN FillDefaults(data) <=> k \in DOMAIN data
         /\ k \in DOMAIN data => FillDefaults(data)[k] = data[k]
BY DEF FillDefaults, With

\* Protected fields keep their value, while no rule sets one.
LEMMA SaveProtects ==
  ASSUME NEW body, Sound(rules), StoredOK PROVE ProtectedKeeps(body)
<1> DEFINE after == Save(rules, body)
<1> SUFFICES ASSUME after.kind = "record", RulesWith("set") = {},
                    NEW i \in RulesWith("hide") \cup RulesWith("readonly"),
                    rules[i].field \in Typed, Holds(rules[i].when, Spread(body, Old), Old)
             PROVE  LET k == rules[i].field IN
                    IF Filled(Old, k) THEN after.data[k] = Old[k]
                    ELSE Filled(after.data, k) => /\ k # "link"
                                                  /\ k = "price" => after.data[k] = item
                                                  /\ k = "note" => stored = NoRecord /\ entity.default
  BY DEF ProtectedKeeps
<1> DEFINE k == rules[i].field
           sent == SentOf(rules, body)
           seen == SeenBy(rules, sent, Old)
           ks == Shielded(rules, sent, Old)
           ruled == Revert(rules, seen.data, ks, Old)[Len(ks)]
           input == InputOf(rules, body)
           below == Spread(DefaultsFor(input, stored = NoRecord), Old)
           data == DataOf(rules, body)
<1>1. after.data = data BY SaveSteps
<1>2. \A j \in DOMAIN rules : rules[j].effect # "set" BY DEF RulesWith
<1>3. i \in DOMAIN rules /\ rules[i].effect \in {"hide", "readonly"} BY DEF RulesWith
<1>4. sent = Spread(body, Old)
  <2>1. rules # <<>> BY <1>3 DEF Sound
  <2> QED BY <2>1 DEF SentOf
<1>5. Contains(seen.fields[rules[i].effect], k)
  <2>1. Holds(rules[i].when, sent, Old) BY <1>4
  <2> HIDE DEF sent
  <2> QED BY <1>2, <1>3, <2>1, PassFinds DEF Kinds, SeenBy
<1>6. /\ Len(ks) \in Nat /\ EffectsOf(rules, body).data = ruled
      /\ \E j \in 1..Len(ks) : ks[j] = k
  <2> HIDE DEF sent
  <2>1. Len(ks) \in Nat /\ ApplyFieldRules(rules, sent, Old).data = ruled
    BY RuledData
  <2>2. \E j \in 1..Len(ks) : ks[j] = k BY <1>3, <1>5, RuledData
  <2> QED BY <2>1, <2>2 DEF EffectsOf, sent
<1>7. Back(ruled, k, Old)
  <2> HIDE DEF seen, ks
  <2> QED BY <1>2, <1>6, RevertRestores
<1> HIDE DEF ruled, ks, seen, sent, after, data, k
<1>8. input = FillDefaults(ruled) BY <1>6 DEF InputOf
<1>9. /\ k \in DOMAIN input =>
           /\ k \in DOMAIN data <=> input[k] # Blank
           /\ k \in DOMAIN data => data[k] = input[k]
      /\ k \notin DOMAIN input =>
           /\ k \in DOMAIN data <=> k \in DOMAIN below /\ below[k] # Blank
           /\ k \in DOMAIN data => data[k] = below[k]
  <2>1. k \in Typed BY DEF k
  <2> QED BY <2>1, ValidatedField DEF DataOf, data
<1> HIDE DEF input, below
<1>10. CASE Filled(Old, k)
  <2>1. k \in DOMAIN ruled /\ ruled[k] = Old[k] /\ Old[k] # Blank BY <1>7, <1>10 DEF Back, Filled
  <2>2. k # "price" \/ Filled(ruled, "price") BY <2>1 DEF Filled
  <2>3. k \in DOMAIN input /\ input[k] = Old[k] BY <1>8, <2>1, <2>2, FilledField
  <2>4. data[k] = Old[k] BY <1>9, <2>1, <2>3
  <2> QED BY <1>1, <1>10, <2>4 DEF k
<1>11. CASE ~Filled(Old, k)
  <2>1. k \notin DOMAIN ruled BY <1>7, <1>11 DEF Back
  <2>2. k \notin DOMAIN Old BY <1>11 DEF Filled, StoredOK
  <2>3. k # "price" => k \notin DOMAIN input BY <1>8, <2>1, FilledField
  <2>4. k = "price" /\ k \in DOMAIN input => input[k] = item
    BY <1>8, <2>1 DEF FillDefaults, With
  <2>5. k \in DOMAIN below => k = "note" /\ stored = NoRecord /\ entity.default
    BY <2>2 DEF below, Spread, DefaultsFor, NoData
  <2>6. Filled(data, k) => /\ k # "link"
                           /\ k = "price" => data[k] = item
                           /\ k = "note" => stored = NoRecord /\ entity.default
    BY <1>9, <2>3, <2>4, <2>5 DEF Filled
  <2> QED BY <1>1, <1>11, <2>6 DEF k
<1> QED BY <1>10, <1>11

\* What the client did not send stays, unless a rule sets it.
LEMMA SaveKeepsRest ==
  ASSUME NEW body, Sound(rules), StoredOK PROVE RestIsKept(body)
<1> DEFINE after == Save(rules, body)
<1> SUFFICES ASSUME after.kind = "record", NEW k \in Typed \ DOMAIN body, Filled(Old, k),
                    \A i \in RulesWith("set") : rules[i].field # k
             PROVE  \/ Filled(after.data, k) /\ after.data[k] = Old[k]
                    \/ k = "price" /\ rules = <<>> /\ Filled(body, "link") /\ after.data[k] = item
  BY DEF RestIsKept
<1> DEFINE sent == SentOf(rules, body)
           seen == SeenBy(rules, sent, Old)
           ks == Shielded(rules, sent, Old)
           ruled == EffectsOf(rules, body).data
           input == InputOf(rules, body)
           below == Spread(DefaultsFor(input, stored = NoRecord), Old)
           data == DataOf(rules, body)
<1>1. after.data = data BY SaveSteps
<1>2. Len(ks) \in Nat /\ ruled = Revert(rules, seen.data, ks, Old)[Len(ks)]
  <2> HIDE DEF sent, ks
  <2>1. /\ Len(ks) \in Nat
        /\ ApplyFieldRules(rules, sent, Old).data = Revert(rules, seen.data, ks, Old)[Len(ks)]
    BY RuledData DEF ks
  <2> QED BY <2>1 DEF EffectsOf, sent
<1>3. input = FillDefaults(ruled) BY DEF InputOf
<1>4. /\ k \in DOMAIN input =>
           /\ k \in DOMAIN data <=> input[k] # Blank
           /\ k \in DOMAIN data => data[k] = input[k]
      /\ k \notin DOMAIN input =>
           /\ k \in DOMAIN data <=> k \in DOMAIN below /\ below[k] # Blank
           /\ k \in DOMAIN data => data[k] = below[k]
  BY ValidatedField DEF DataOf
<1>5. Old[k] # Blank /\ k \in DOMAIN Old BY DEF Filled
<1>6. CASE rules = <<>>
  <2>1. sent = body BY <1>6 DEF SentOf
  <2>2. ruled = body
    <3>1. Len(rules) = 0 BY <1>6
    <3>2. seen = Unseen(sent) BY <3>1, PassSteps DEF SeenBy
    <3>3. ks = <<>> /\ seen.data = body BY <2>1, <3>2 DEF Unseen, Shielded
    <3>4. Len(ks) = 0 BY <3>3
    <3> HIDE DEF ks, seen, ruled
    <3>5. Revert(rules, seen.data, ks, Old)[0] = seen.data BY <3>4, RevertSteps
    <3> QED BY <1>2, <3>3, <3>4, <3>5
  <2>3. \/ k \notin DOMAIN input
        \/ k = "price" /\ Filled(body, "link") /\ k \in DOMAIN input /\ input[k] = item
    BY <1>3, <2>2 DEF FillDefaults, With
  <2> HIDE DEF input, data, ruled
  <2>4. CASE k \notin DOMAIN input
    <3>1. stored # NoRecord BY <1>5 DEF Old, NoData
    <3>2. below = Spread(NoData, Old) BY <3>1 DEF DefaultsFor
    <3>3. k \in DOMAIN below /\ below[k] = Old[k] BY <1>5, <3>2 DEF Spread, NoData
    <3> HIDE DEF below
    <3> QED BY <1>1, <1>4, <1>5, <2>4, <3>3 DEF Filled
  <2>5. CASE k \in DOMAIN input
    <3>1. input[k] = item /\ k = "price" /\ Filled(body, "link") BY <2>3, <2>5
    <3> QED BY <1>1, <1>4, <1>6, <2>5, <3>1 DEF StoredOK
  <2> QED BY <2>4, <2>5
<1>7. CASE rules # <<>>
  <2>1. k \in DOMAIN sent /\ sent[k] = Old[k] BY <1>5, <1>7 DEF SentOf, Spread
  <2>2. \A i \in DOMAIN rules : rules[i].effect = "set" => rules[i].field # k BY DEF RulesWith
  <2>3. k \in DOMAIN seen.data /\ seen.data[k] = Old[k]
    <3> HIDE DEF sent
    <3> QED BY <2>1, <2>2, PassKeeps DEF SeenBy
  <2>4. k \in DOMAIN ruled /\ ruled[k] = Old[k]
    <3> HIDE DEF seen, ks, ruled
    <3> QED BY <1>2, <2>3, RevertKeeps
  <2> HIDE DEF ruled, input, data
  <2>5. k # "price" \/ Filled(ruled, "price") BY <1>5, <2>4 DEF Filled
  <2>6. k \in DOMAIN input /\ input[k] = Old[k] BY <1>3, <2>4, <2>5, FilledField
  <2> QED BY <1>1, <1>4, <1>5, <2>6 DEF Filled
<1> QED BY <1>6, <1>7

\* The inductive invariant: the rules are those of the entity, what is stored is filled.
RulesInv == rules \in RuleSets /\ item \in Prices /\ StoredOK

LEMMA WriteFills ==
  ASSUME RulesInv, NEW rs, NEW body, Write(rs, body) PROVE RulesInv'
<1>1. rules' \in RuleSets /\ item' = item BY DEF Write, RulesInv
<1>2. CASE stored' = stored BY <1>1, <1>2 DEF RulesInv, StoredOK, Old
<1>3. CASE stored' # stored
  <2>1. Save(rs, body).kind # "refused" /\ stored' = Save(rs, body) BY <1>3 DEF Write
  <2>2. Save(rs, body) = Record(DataOf(rs, body))
    <3> DEFINE bad == Calculated(InputOf(rs, body))
                      \/ Refuses(rs, EffectsOf(rs, body), DataOf(rs, body), Old)
               d == DataOf(rs, body)
    <3>1. Save(rs, body) = IF bad THEN [kind |-> "refused"] ELSE Record(d)
      BY Zenon DEF Save, DataOf, InputOf, EffectsOf, SentOf, Old
    <3> HIDE DEF bad, d
    <3> QED BY <2>1, <3>1 DEF d
  <2>3. PICK d : d = DataOf(rs, body) OBVIOUS
  <2>4. \A k \in DOMAIN d : d[k] # Blank BY <2>3, ValidatedRecord DEF DataOf
  <2>5. stored' = [kind |-> "record", data |-> d] BY <2>1, <2>2, <2>3 DEF Record
  <2>6. Old' = d BY <2>5 DEF Old, NoRecord
  <2> QED BY <1>1, <2>4, <2>6 DEF RulesInv, StoredOK
<1> QED BY <1>2, <1>3

\* Whatever rules an entity has and whatever clients send, what a save stores obeys the
\* blocking rules and the formula, protected fields keep their value, and so do fields that
\* were not sent (records.service.ts create and update, rules.ts, record.ts).
THEOREM RulesAreAlwaysObeyed ==
  ASSUME RulesAreSound PROVE RulesSpec => []SavesObeyRules /\ []RulesAreObeyed
<1>1. RulesInit => RulesInv BY DEF RulesAreSound, RulesInit, RulesInv, StoredOK, Old, NoData
<1>2. RulesInv /\ [RulesNext]_rulesVars => RulesInv'
  <2> SUFFICES ASSUME RulesInv, [RulesNext]_rulesVars PROVE RulesInv' OBVIOUS
  <2>1. ASSUME item' \in Prices, UNCHANGED <<rules, stored>> PROVE RulesInv'
    BY <2>1 DEF RulesAreSound, RulesInv, StoredOK, Old
  <2>2. ASSUME NEW body, Create(body) \/ Update(body) \/ SystemWrite(body) PROVE RulesInv'
    BY <2>2, WriteFills DEF Create, Update, SystemWrite
  <2> QED BY <2>1, <2>2 DEF RulesInv, RulesNext, rulesVars, ItemChanges
<1>3. RulesInv => SavesObeyRules
  BY SaveObeys, SaveProtects, SaveKeepsRest DEF RulesInv, RulesAreSound, Sound, SavesObeyRules
<1>4. SavesObeyRules => RulesAreObeyed BY DEF RulesAreObeyed
<1> QED BY <1>1, <1>2, <1>3, <1>4, PTL DEF RulesSpec

\* What a rule sets is a value of its field, or clears it, and a default exists.
RuleValuesFit ==
  /\ \A rs \in RuleSets : \A i \in DOMAIN rs :
       rs[i].effect = "set" /\ rs[i].field \in Typed
         => rs[i].value \in ValuesOf(rs[i].field) \cup {Blank}
  /\ Notes # {}

Fit(rs) ==
  \A i \in DOMAIN rs :
    rs[i].effect = "set" /\ rs[i].field \in Typed
      => rs[i].value \in ValuesOf(rs[i].field) \cup {Blank}

\* Values that may be sent: of their field, or empty.
Fitting(data) == \A k \in Typed : k \in DOMAIN data => data[k] \in ValuesOf(k) \cup {Blank}

\* The passes over the rules keep values of their fields.
LEMMA PassFits ==
  ASSUME NEW rs, Sound(rs), Fit(rs), NEW input, Fitting(input), NEW old
  PROVE  Fitting(Pass(rs, input, old)[Len(rs)].data)
<1> DEFINE seen == Pass(rs, input, old)
           G == {n \in 0..Len(rs) : Fitting(seen[n].data)}
<1>1. seen[0] = Unseen(input)
      /\ \A n \in 1..Len(rs) : seen[n] = ApplyOne(seen[n - 1], rs[n], old)
  BY PassSteps DEF Sound
<1> HIDE DEF seen
<1>2. 0 \in G BY <1>1 DEF Unseen, Sound
<1>3. ASSUME NEW n \in 1..Len(rs), n - 1 \in G PROVE n \in G
  <2> DEFINE b == seen[n - 1]
             r == rs[n]
  <2>1. Fitting(b.data) /\ seen[n] = ApplyOne(b, r, old) BY <1>1, <1>3
  <2>2. r.effect = "set" /\ r.field \in Typed => r.value \in ValuesOf(r.field) \cup {Blank}
    BY DEF Sound, Fit
  <2> HIDE DEF b, r
  <2>3. \/ seen[n].data = b.data
        \/ r.effect = "set" /\ seen[n].data = With(b.data, r.field, r.value)
    BY <2>1 DEF ApplyOne
  <2>4. Fitting(seen[n].data) BY <2>1, <2>2, <2>3 DEF Fitting, With
  <2> QED BY <2>4, <1>3 DEF Sound
<1>4. \A n \in 1..Len(rs) : n - 1 \in G => n \in G BY <1>3
<1>5. \A n \in 0..Len(rs) : n \in G
  <2> HIDE DEF G
  <2> QED BY <1>2, <1>4, Induction DEF Sound
<1>6. Len(rs) \in G BY <1>5 DEF Sound
<1> QED BY <1>6 DEF seen

LEMMA RevertFits ==
  ASSUME NEW rs, NEW data, Fitting(data), NEW ks, Len(ks) \in Nat, NEW old, Fitting(old)
  PROVE  Fitting(Revert(rs, data, ks, old)[Len(ks)])
<1> DEFINE d == Revert(rs, data, ks, old)
           G == {n \in 0..Len(ks) : Fitting(d[n])}
<1>1. d[0] = data /\ \A n \in 1..Len(ks) : d[n] = RevertOne(rs, d[n - 1], ks[n], old)
  BY RevertSteps
<1> HIDE DEF d
<1>2. 0 \in G BY <1>1
<1>3. ASSUME NEW n \in 1..Len(ks), n - 1 \in G PROVE n \in G
  <2> DEFINE b == d[n - 1]
             j == ks[n]
  <2>1. Fitting(b) /\ d[n] = RevertOne(rs, b, j, old) BY <1>1, <1>3
  <2> HIDE DEF b, j
  <2>2. \/ d[n] = b
        \/ Filled(old, j) /\ d[n] = With(b, j, old[j])
        \/ d[n] = Without(b, j)
    BY <2>1 DEF RevertOne
  <2>3. Fitting(d[n]) BY <2>1, <2>2 DEF Fitting, Filled, With, Without, Restrict
  <2> QED BY <2>3
<1>4. \A n \in 1..Len(ks) : n - 1 \in G => n \in G BY <1>3
<1>5. \A n \in 0..Len(ks) : n \in G
  <2> HIDE DEF G
  <2> QED BY <1>2, <1>4, Induction
<1>6. Len(ks) \in G BY <1>5
<1> QED BY <1>6 DEF d

\* What a record may hold.
OfItsFields(data) ==
  \A k \in DOMAIN data : k = "total" \/ (k \in Typed /\ data[k] \in ValuesOf(k))

\* A save of values that may be sent stores what a record may hold.
LEMMA SaveFits ==
  ASSUME NEW rs, Sound(rs), Fit(rs), Notes # {}, item \in Prices,
         OfItsFields(Old), NEW body, Fitting(body)
  PROVE  OfItsFields(DataOf(rs, body))
<1> DEFINE sent == SentOf(rs, body)
           seen == SeenBy(rs, sent, Old)
           ks == Shielded(rs, sent, Old)
           ruled == EffectsOf(rs, body).data
           input == InputOf(rs, body)
           below == Spread(DefaultsFor(input, stored = NoRecord), Old)
           merged == Merge(below, input)
<1>1. Fitting(Old) BY DEF OfItsFields, Fitting, Typed
<1>2. Fitting(sent) BY <1>1 DEF SentOf, Spread, Fitting
<1>3. Fitting(ruled)
  <2>1. Len(ks) \in Nat /\ ApplyFieldRules(rs, sent, Old).data = Revert(rs, seen.data, ks, Old)[Len(ks)]
    <3> HIDE DEF sent
    <3> QED BY RuledData
  <2>2. Fitting(seen.data)
    <3> HIDE DEF sent
    <3> QED BY <1>2, PassFits DEF SeenBy
  <2>3. Fitting(Revert(rs, seen.data, ks, Old)[Len(ks)])
    <3> HIDE DEF seen, ks
    <3> QED BY <1>1, <2>1, <2>2, RevertFits
  <2> QED BY <2>1, <2>3 DEF EffectsOf
<1>4. input = FillDefaults(ruled) BY DEF InputOf
<1> HIDE DEF ruled, input
<1>5. Fitting(input) BY <1>3, <1>4 DEF FillDefaults, Fitting, With, ValuesOf
<1>6. \A k \in DOMAIN below : k = "total" \/ (k \in Typed /\ below[k] \in ValuesOf(k))
  <2>1. (CHOOSE n \in Notes : TRUE) \in Notes OBVIOUS
  <2>2. ValuesOf("note") = Notes /\ "note" \in Typed BY DEF ValuesOf, Typed
  <2> QED BY <2>1, <2>2 DEF Spread, DefaultsFor, NoData, OfItsFields
<1> HIDE DEF below
<1>7. OfItsFields(merged) BY <1>5, <1>6 DEF Merge, OfItsFields, Fitting
<1>8. DataOf(rs, body) = ComputeFormulas(merged) BY DEF DataOf, ValidateRecord, below, input
<1> HIDE DEF merged
<1> QED BY <1>7, <1>8 DEF ComputeFormulas, Put, With, Without, Restrict, OfItsFields

\* Bodies are values that may be sent.
LEMMA BodiesFit == ASSUME NEW body \in Bodies PROVE Fitting(body)
<1>1. PICK ks \in SUBSET Typed :
        /\ body \in [ks -> Prices \cup Notes \cup {Item, Blank}]
        /\ \A k \in ks : body[k] \in ValuesOf(k) \cup {Blank}
  BY DEF Bodies
<1> QED BY <1>1 DEF Fitting

LEMMA WriteFits ==
  ASSUME item \in Prices, OfItsFields(Old), Notes # {},
         NEW rs, Sound(rs), Fit(rs), NEW body \in Bodies, Write(rs, body)
  PROVE  OfItsFields(Old')
<1>1. CASE stored' = stored BY <1>1 DEF Old
<1>2. CASE stored' # stored
  <2>1. Save(rs, body).kind # "refused" /\ stored' = Save(rs, body) BY <1>2 DEF Write
  <2>2. PICK d : d = DataOf(rs, body) OBVIOUS
  <2>3. Save(rs, body) = Record(d)
    <3> DEFINE bad == Calculated(InputOf(rs, body))
                      \/ Refuses(rs, EffectsOf(rs, body), DataOf(rs, body), Old)
    <3>1. Save(rs, body) = IF bad THEN [kind |-> "refused"] ELSE Record(DataOf(rs, body))
      BY Zenon DEF Save, DataOf, InputOf, EffectsOf, SentOf, Old
    <3> HIDE DEF bad
    <3> QED BY <2>1, <2>2, <3>1
  <2>4. OfItsFields(d) BY <2>2, BodiesFit, SaveFits
  <2>5. stored' = [kind |-> "record", data |-> d] BY <2>1, <2>3 DEF Record
  <2>6. Old' = d BY <2>5 DEF Old, NoRecord
  <2> QED BY <2>4, <2>6
<1> QED BY <1>1, <1>2

\* Whatever clients send and rules set, a record has its fields only, and values of their
\* kind: nothing that was cleared stays as an empty value, and a rule, a default, the linked
\* record or an old value puts nothing else there (validateRecord of record.ts).
THEOREM RecordsHaveTheirTypes ==
  ASSUME RulesAreSound, RuleValuesFit PROVE RulesSpec => []RulesTypeOK
<1> DEFINE Inv == rules \in RuleSets /\ item \in Prices /\ OfItsFields(Old)
<1>1. RulesInit => Inv BY DEF RulesInit, OfItsFields, Old, NoData
<1>2. Inv /\ [RulesNext]_rulesVars => Inv'
  <2> SUFFICES ASSUME Inv, [RulesNext]_rulesVars PROVE Inv' OBVIOUS
  <2>1. ASSUME item' \in Prices, UNCHANGED <<rules, stored>> PROVE Inv'
    BY <2>1 DEF Old
  <2>2. Sound(rules) /\ Fit(rules) /\ Notes # {}
    BY DEF RulesAreSound, RuleValuesFit, Sound, Fit
  <2>3. Sound(<<>>) /\ Fit(<<>>) BY DEF Sound, Fit
  <2>4. ASSUME NEW body \in Bodies, Create(body) \/ Update(body) \/ SystemWrite(body) PROVE Inv'
    <3>1. OfItsFields(Old')
      BY <2>2, <2>3, <2>4, WriteFits DEF Create, Update, SystemWrite
    <3>2. rules' = rules /\ item' = item BY <2>4 DEF Create, Update, SystemWrite, Write
    <3> QED BY <3>1, <3>2
  <2> QED BY <2>1, <2>4 DEF RulesNext, rulesVars, ItemChanges
<1>3. Inv => RulesTypeOK BY DEF OfItsFields, Old, RulesTypeOK
<1> QED BY <1>1, <1>2, <1>3, PTL DEF RulesSpec

-----------------------------------------------------------------------------
(* Periods: the calendar *)

\* How divisions count leap years.
LEMMA LeapDivisions ==
  ASSUME NEW y \in Int
  PROVE  /\ (y \div 4) - ((y - 1) \div 4) = IF y % 4 = 0 THEN 1 ELSE 0
         /\ (y \div 100) - ((y - 1) \div 100) = IF y % 100 = 0 THEN 1 ELSE 0
         /\ (y \div 400) - ((y - 1) \div 400) = IF y % 400 = 0 THEN 1 ELSE 0
         /\ (y % 400 = 0 => y % 100 = 0) /\ (y % 100 = 0 => y % 4 = 0)
<1>1. (y \div 4) - ((y - 1) \div 4) = IF y % 4 = 0 THEN 1 ELSE 0 OBVIOUS
<1>2. (y \div 100) - ((y - 1) \div 100) = IF y % 100 = 0 THEN 1 ELSE 0 OBVIOUS
<1>3. (y \div 400) - ((y - 1) \div 400) = IF y % 400 = 0 THEN 1 ELSE 0 OBVIOUS
<1>4. (y % 400 = 0 => y % 100 = 0) /\ (y % 100 = 0 => y % 4 = 0) OBVIOUS
<1> QED BY <1>1, <1>2, <1>3, <1>4

\* A year lasts 365 days, or 366.
LEMMA YearLength ==
  ASSUME NEW y \in Int
  PROVE  NewYear(y + 1) - NewYear(y) = IF Leap(y) THEN 366 ELSE 365
<1>1. LeapsBefore(y + 1) - LeapsBefore(y) = IF Leap(y) THEN 1 ELSE 0
  BY LeapDivisions DEF LeapsBefore, Leap
<1>2. LeapsBefore(y + 1) \in Int /\ LeapsBefore(y) \in Int /\ LeapsBefore(2000) \in Int
  BY DEF LeapsBefore
<1> QED BY <1>1, <1>2 DEF NewYear
\* Months and years.
LEMMA MonthParts ==
  ASSUME NEW i \in Int
  PROVE  /\ i \div 12 \in Int /\ i % 12 \in 0..11 /\ i = 12 * (i \div 12) + (i % 12)
         /\ i % 12 = 11 => (i + 1) \div 12 = (i \div 12) + 1 /\ (i + 1) % 12 = 0
         /\ i % 12 # 11 => (i + 1) \div 12 = i \div 12 /\ (i + 1) % 12 = (i % 12) + 1
OBVIOUS

\* A month lasts 28 to 31 days.
LEMMA MonthLengths ==
  ASSUME NEW i \in Int
  PROVE  Utc(i) \in Int /\ Utc(i + 1) - Utc(i) \in 28..31
<1> DEFINE m == i % 12
           y == YearOf(i)
<1>1. y \in Int /\ m \in 0..11 BY MonthParts DEF YearOf
<1>2. NewYear(y) \in Int /\ NewYear(y + 1) \in Int BY <1>1 DEF NewYear, LeapsBefore
<1>3. Utc(i) = NewYear(y) + IntoYear[m + 1] + (IF Leap(y) /\ m >= 2 THEN 1 ELSE 0)
  BY DEF Utc
<1> HIDE DEF m, y
<1>4. CASE m = 11
  <2>1. YearOf(i + 1) = y + 1 /\ (i + 1) % 12 = 0 BY <1>4, MonthParts DEF YearOf, y, m
  <2>2. Utc(i + 1) = NewYear(y + 1) BY <1>1, <1>2, <2>1 DEF Utc, IntoYear
  <2>3. Utc(i) = NewYear(y) + 334 + (IF Leap(y) THEN 1 ELSE 0) BY <1>1, <1>3, <1>4 DEF IntoYear
  <2> QED BY <1>1, <1>2, <2>2, <2>3, YearLength
<1>5. CASE m # 11
  <2>1. YearOf(i + 1) = y /\ (i + 1) % 12 = m + 1 BY <1>5, MonthParts DEF YearOf, y, m
  <2>2. Utc(i + 1) = NewYear(y) + IntoYear[m + 2] + (IF Leap(y) /\ m + 1 >= 2 THEN 1 ELSE 0)
    BY <1>1, <2>1 DEF Utc
  <2>3. IntoYear[m + 1] \in Int /\ IntoYear[m + 2] \in Int
        /\ IntoYear[m + 2] - IntoYear[m + 1] \in (IF m = 1 THEN {28} ELSE {30, 31})
    BY <1>1, <1>5 DEF IntoYear
  <2> QED BY <1>1, <1>2, <1>3, <2>2, <2>3
<1> QED BY <1>4, <1>5

\* So many months last 28 to 31 times as many days.
LEMMA MonthsPass ==
  ASSUME NEW i \in Int, NEW n \in Nat
  PROVE  Utc(i) \in Int /\ Utc(i + n) \in Int /\ Utc(i + n) - Utc(i) \in (28 * n)..(31 * n)
<1> DEFINE G == {m \in Nat : Utc(i + m) - Utc(i) \in (28 * m)..(31 * m)}
<1>1. 0 \in G BY MonthLengths
<1>2. ASSUME NEW m \in 1..n, m - 1 \in G PROVE m \in G
  <2>1. i + (m - 1) \in Int /\ (i + (m - 1)) + 1 = i + m OBVIOUS
  <2>2. /\ Utc(i) \in Int /\ Utc(i + (m - 1)) \in Int /\ Utc(i + m) \in Int
        /\ Utc(i + m) - Utc(i + (m - 1)) \in 28..31
    BY <2>1, MonthLengths
  <2>3. Utc(i + (m - 1)) - Utc(i) \in (28 * (m - 1))..(31 * (m - 1)) BY <1>2
  <2> QED BY <2>2, <2>3
<1>3. n \in G
  <2>1. \A m \in 1..n : m - 1 \in G => m \in G BY <1>2
  <2> HIDE DEF G
  <2> QED BY <1>1, <2>1, Induction
<1>4. i + n \in Int OBVIOUS
<1> QED BY <1>3, <1>4, MonthLengths

\* Day 0 begins month 0.
LEMMA FirstMonth == Utc(0) = 0
<1>1. YearOf(0) = 2000 BY DEF YearOf
<1>2. 0 % 12 = 0 OBVIOUS
<1> QED BY <1>1, <1>2 DEF Utc, NewYear, IntoYear, LeapsBefore

\* Every day is in a month.
LEMMA MonthExists == \A d \in Nat : \E i \in Nat : Utc(i) <= d /\ d < Utc(i + 1)
<1> SUFFICES ASSUME NEW d \in Nat PROVE \E i \in Nat : Utc(i) <= d /\ d < Utc(i + 1)
  OBVIOUS
<1> DEFINE G == {e \in Nat : \E i \in Nat : Utc(i) <= e /\ e < Utc(i + 1)}
<1>1. 0 \in G
  <2>1. Utc(0 + 1) - Utc(0) \in 28..31 /\ Utc(0 + 1) \in Int BY MonthLengths
  <2> QED BY <2>1, FirstMonth
<1>2. ASSUME NEW e \in 1..d, e - 1 \in G PROVE e \in G
  <2>1. PICK i \in Nat : Utc(i) <= e - 1 /\ e - 1 < Utc(i + 1) BY <1>2
  <2>2. /\ Utc(i) \in Int /\ Utc(i + 1) \in Int /\ Utc((i + 1) + 1) \in Int
        /\ Utc((i + 1) + 1) - Utc(i + 1) \in 28..31
    BY MonthLengths
  <2>3. CASE e < Utc(i + 1) BY <2>1, <2>2, <2>3
  <2>4. CASE e >= Utc(i + 1)
    <3>1. Utc(i + 1) <= e /\ e < Utc((i + 1) + 1) BY <2>1, <2>2, <2>4
    <3> QED BY <3>1
  <2> QED BY <2>2, <2>3, <2>4
<1>3. \A e \in 1..d : e - 1 \in G => e \in G BY <1>2
<1>4. d \in G
  <2> HIDE DEF G
  <2> QED BY <1>1, <1>3, Induction
<1> QED BY <1>4

\* Months follow each other.
LEMMA MonthsOrder ==
  ASSUME NEW i \in Int, NEW j \in Int, i <= j
  PROVE  Utc(i) \in Int /\ Utc(j) \in Int /\ Utc(i) <= Utc(j)
<1>1. PICK n \in Nat : j = i + n
  <2>1. j - i \in Nat /\ j = i + (j - i) OBVIOUS
  <2> QED BY <2>1
<1>2. Utc(i) \in Int /\ Utc(j) \in Int /\ Utc(j) - Utc(i) \in (28 * n)..(31 * n)
  BY <1>1, MonthsPass
<1> QED BY <1>2

\* MonthOf finds the month of a day.
LEMMA MonthOfDay ==
  ASSUME NEW d \in Nat
  PROVE  MonthOf(d) \in Nat /\ Utc(MonthOf(d)) <= d /\ d < Utc(MonthOf(d) + 1)
<1>1. PICK i \in Nat : Utc(i) <= d /\ d < Utc(i + 1) BY MonthExists
<1>2. /\ Utc(i) \in Int /\ Utc(i + 1) \in Int
      /\ 28 * i <= Utc(i) /\ Utc(i + 1) <= 31 * (i + 1)
  <2>1. ASSUME NEW n \in Nat PROVE Utc(n) \in Int /\ 28 * n <= Utc(n) /\ Utc(n) <= 31 * n
    <3>1. 0 + n = n /\ 0 \in Int OBVIOUS
    <3>2. Utc(n) \in Int /\ Utc(n) - Utc(0) \in (28 * n)..(31 * n) BY <3>1, MonthsPass
    <3> QED BY <3>2, FirstMonth
  <2> QED BY <2>1
<1>3. i \in (d \div 31)..(d \div 28) BY <1>1, <1>2
<1>4. d \div 31 \in Nat /\ d \div 28 \in Nat OBVIOUS
<1> QED BY <1>1, <1>3, <1>4 DEF MonthOf

\* A day is not before a month when its own month is not.
LEMMA SinceMonth ==
  ASSUME NEW d \in Nat, NEW i \in Int
  PROVE  Utc(i) \in Int /\ (Utc(i) <= d <=> i <= MonthOf(d))
<1> DEFINE m == MonthOf(d)
<1>1. m \in Nat /\ Utc(m) <= d /\ d < Utc(m + 1) BY MonthOfDay
<1>2. CASE i <= m BY <1>1, <1>2, MonthsOrder
<1>3. CASE m + 1 <= i BY <1>1, <1>3, MonthsOrder
<1> QED BY <1>1, <1>2, <1>3

\* January of the year of a month.
LEMMA Years ==
  ASSUME NEW i \in Int
  PROVE  /\ YearOf(i) \in Int /\ January(YearOf(i)) = i - (i % 12) /\ i % 12 \in 0..11
         /\ January(YearOf(i) + 1) = i - (i % 12) + 12
BY DEF YearOf, January

\* The fiscal year of a month begins so many months before it.
LEMMA FiscalYears ==
  ASSUME NEW i \in Int, fyStartMonth \in 1..12
  PROVE  /\ FiscalYearOf(i) \in Int /\ MonthsIntoYear(i) \in 0..11
         /\ January(FiscalYearOf(i)) + fyStartMonth - 1 = i - MonthsIntoYear(i)
<1>1. i % 12 \in 0..11 /\ i \div 12 \in Int /\ i = 12 * (i \div 12) + (i % 12) BY MonthParts
<1>2. CASE (i % 12) + 1 >= fyStartMonth
  <2>1. MonthsIntoYear(i) = (i % 12) - (fyStartMonth - 1) BY <1>1, <1>2 DEF MonthsIntoYear
  <2>2. FiscalYearOf(i) = 2000 + (i \div 12) BY <1>2 DEF FiscalYearOf, YearOf
  <2> QED BY <1>1, <1>2, <2>1, <2>2 DEF January
<1>3. CASE ~((i % 12) + 1 >= fyStartMonth)
  <2>1. MonthsIntoYear(i) = (i % 12) - (fyStartMonth - 1) + 12
    BY <1>1, <1>3 DEF MonthsIntoYear
  <2>2. FiscalYearOf(i) = 2000 + (i \div 12) - 1 BY <1>3 DEF FiscalYearOf, YearOf
  <2> QED BY <1>1, <1>3, <2>1, <2>2 DEF January
<1> QED BY <1>2, <1>3

\* The months of a fiscal year have it in common.
LEMMA FiscalYearsPass ==
  ASSUME NEW i \in Int, NEW j \in Int, fyStartMonth \in 1..12,
         i - MonthsIntoYear(i) <= j, j < i - MonthsIntoYear(i) + 12
  PROVE  /\ FiscalYearOf(j) = FiscalYearOf(i)
         /\ j - MonthsIntoYear(j) = i - MonthsIntoYear(i)
<1>1. /\ FiscalYearOf(i) \in Int /\ MonthsIntoYear(i) \in 0..11
      /\ (FiscalYearOf(i) - 2000) * 12 + fyStartMonth - 1 = i - MonthsIntoYear(i)
  BY FiscalYears DEF January
<1>2. /\ FiscalYearOf(j) \in Int /\ MonthsIntoYear(j) \in 0..11
      /\ (FiscalYearOf(j) - 2000) * 12 + fyStartMonth - 1 = j - MonthsIntoYear(j)
  BY FiscalYears DEF January
<1> QED BY <1>1, <1>2

\* The ranges that are made of months.
ByMonth == {"month", "quarter", "year", "fiscal_year"}
Span(b) == CASE b = "month" -> 1 [] b = "quarter" -> 3 [] OTHER -> 12
FirstOf(i, b) ==
  CASE b = "month" -> i
    [] b = "quarter" -> FiscalStart(i, 3)
    [] b = "year" -> i - (i % 12)
    [] b = "fiscal_year" -> FiscalStart(i, 12)
RangeOf(d, b) == BucketRange(BucketKey(d, b), b)

\* The first month of the range that a month is in.
LEMMA Starts ==
  ASSUME NEW i \in Int, fyStartMonth \in 1..12
  PROVE  /\ FirstOf(i, "month") = i
         /\ FirstOf(i, "quarter") = i - MonthsIntoYear(i) + 3 * (MonthsIntoYear(i) \div 3)
         /\ FirstOf(i, "year") = i - (i % 12)
         /\ FirstOf(i, "fiscal_year") = i - MonthsIntoYear(i)
         /\ FirstOf(i, "quarter") = FiscalStart(i, 3)
         /\ FirstOf(i, "fiscal_year") = FiscalStart(i, 12)
<1>1. MonthsIntoYear(i) \in 0..11 BY FiscalYears
<1>2. /\ MonthsIntoYear(i) % 12 = MonthsIntoYear(i)
      /\ MonthsIntoYear(i) = 3 * (MonthsIntoYear(i) \div 3) + (MonthsIntoYear(i) % 3)
      /\ MonthsIntoYear(i) \div 3 \in 0..3
  <2> HIDE DEF MonthsIntoYear
  <2> QED BY <1>1
<1>3. FiscalStart(i, 12) = i - MonthsIntoYear(i) BY <1>2 DEF FiscalStart
<1>4. FiscalStart(i, 3) = i - MonthsIntoYear(i) + 3 * (MonthsIntoYear(i) \div 3)
  <2>1. MonthsIntoYear(i) % 3 \in Int BY <1>1
  <2> QED BY <1>1, <1>2, <2>1 DEF FiscalStart
<1>5. /\ FirstOf(i, "quarter") = FiscalStart(i, 3)
      /\ FirstOf(i, "fiscal_year") = FiscalStart(i, 12)
      /\ FirstOf(i, "month") = i /\ FirstOf(i, "year") = i - (i % 12)
  BY DEF FirstOf
<1> QED BY <1>3, <1>4, <1>5

\* A month is in its range.
LEMMA InBucket ==
  ASSUME NEW i \in Int, NEW b \in ByMonth, fyStartMonth \in 1..12
  PROVE  /\ FirstOf(i, b) \in Int /\ Span(b) \in 1..12
         /\ FirstOf(i, b) <= i /\ i < FirstOf(i, b) + Span(b)
<1>1. MonthsIntoYear(i) \in 0..11 /\ i % 12 \in 0..11 BY FiscalYears
<1> DEFINE m == MonthsIntoYear(i)
<1>2. m \div 3 \in Int /\ m - 3 * (m \div 3) \in 0..2
  <2> HIDE DEF m
  <2> QED BY <1>1 DEF m
<1>3. Span("month") = 1 /\ Span("quarter") = 3 /\ Span("year") = 12 /\ Span("fiscal_year") = 12
  BY DEF Span
<1>4. m \in 0..11 BY <1>1
<1> HIDE DEF m
<1>5. CASE b = "month" BY <1>3, <1>5, Starts
<1>6. CASE b = "quarter"
  <2>1. FirstOf(i, b) = i - m + 3 * (m \div 3) BY <1>6, Starts DEF m
  <2>2. Span(b) = 3 BY <1>3, <1>6
  <2> QED BY <1>2, <1>4, <2>1, <2>2
<1>7. CASE b = "year" BY <1>1, <1>3, <1>7, Starts
<1>8. CASE b = "fiscal_year" BY <1>1, <1>3, <1>8, Starts
<1> QED BY <1>5, <1>6, <1>7, <1>8 DEF ByMonth

\* The months of a range have it in common.
LEMMA SameBucket ==
  ASSUME NEW i \in Int, NEW j \in Int, NEW b \in ByMonth, fyStartMonth \in 1..12,
         FirstOf(i, b) <= j, j < FirstOf(i, b) + Span(b)
  PROVE  FirstOf(j, b) = FirstOf(i, b)
<1>1. /\ MonthsIntoYear(i) \in 0..11 /\ i % 12 \in 0..11
      /\ MonthsIntoYear(j) \in 0..11 /\ j % 12 \in 0..11
  BY FiscalYears
<1>2. Span("month") = 1 /\ Span("quarter") = 3 /\ Span("year") = 12 /\ Span("fiscal_year") = 12
  BY DEF Span
<1>3. CASE b = "month" BY <1>2, <1>3, Starts
<1>4. CASE b = "year"
  <2>1. i - (i % 12) <= j /\ j < i - (i % 12) + 12 BY <1>2, <1>4, Starts
  <2>2. j - (j % 12) = i - (i % 12) BY <2>1
  <2> QED BY <1>4, <2>2, Starts
<1>5. CASE b = "fiscal_year"
  <2>1. i - MonthsIntoYear(i) <= j /\ j < i - MonthsIntoYear(i) + 12 BY <1>2, <1>5, Starts
  <2>2. j - MonthsIntoYear(j) = i - MonthsIntoYear(i) BY <2>1, FiscalYearsPass
  <2> QED BY <1>5, <2>2, Starts
<1>6. CASE b = "quarter"
  <2> DEFINE m == MonthsIntoYear(i)
             k == MonthsIntoYear(j)
  <2>1. i - m + 3 * (m \div 3) <= j /\ j < i - m + 3 * (m \div 3) + 3 BY <1>2, <1>6, Starts
  <2>2. m \div 3 \in 0..3
    <3> HIDE DEF m
    <3> QED BY <1>1 DEF m
  <2>3. i - m <= j /\ j < i - m + 12
    <3> HIDE DEF m
    <3> QED BY <1>1, <2>1, <2>2 DEF m
  <2>4. j - k = i - m BY <2>3, FiscalYearsPass
  <2>5. 3 * (k \div 3) = 3 * (m \div 3)
    <3>1. k \in 0..11 /\ m \in 0..11 BY <1>1
    <3> HIDE DEF k, m
    <3> QED BY <2>1, <2>2, <2>4, <3>1
  <2> QED BY <1>6, <2>4, <2>5, Starts
<1> QED BY <1>3, <1>4, <1>5, <1>6 DEF ByMonth

\* The range of a key, in months.
LEMMA MonthRange ==
  ASSUME NEW d \in Nat, NEW b \in ByMonth, fyStartMonth \in 1..12
  PROVE  LET first == FirstOf(MonthOf(d), b) IN
         RangeOf(d, b) = DateRange(Utc(first), Utc(first + Span(b)))
<1> DEFINE i == MonthOf(d)
<1>1. i \in Int BY MonthOfDay
<1>2. /\ YearOf(i) \in Int /\ January(YearOf(i)) = i - (i % 12) /\ i % 12 \in 0..11
      /\ January(YearOf(i) + 1) = i - (i % 12) + 12
  BY <1>1, Years
<1>3. /\ FiscalYearOf(i) \in Int /\ MonthsIntoYear(i) \in 0..11
      /\ January(FiscalYearOf(i)) + fyStartMonth - 1 = i - MonthsIntoYear(i)
  BY <1>1, FiscalYears
<1>4. /\ FirstOf(i, "month") = i
      /\ FirstOf(i, "quarter") = i - MonthsIntoYear(i) + 3 * (MonthsIntoYear(i) \div 3)
      /\ FirstOf(i, "year") = i - (i % 12)
      /\ FirstOf(i, "fiscal_year") = i - MonthsIntoYear(i)
  BY <1>1, Starts
<1>5. Span("month") = 1 /\ Span("quarter") = 3 /\ Span("year") = 12 /\ Span("fiscal_year") = 12
  BY DEF Span
<1>6. CASE b = "month"
  <2>1. BucketKey(d, b) = <<YearOf(i), (i % 12) + 1>> BY <1>6 DEF BucketKey
  <2>2. January(YearOf(i)) + ((i % 12) + 1) - 1 = i BY <1>1, <1>2
  <2>3. RangeOf(d, b) = DateRange(Utc(i), Utc(i + 1))
    <3> HIDE DEF i
    <3> QED BY <1>6, <2>1, <2>2 DEF RangeOf, BucketRange
  <2> QED BY <1>4, <1>5, <1>6, <2>3
<1>7. CASE b = "year"
  <2>1. BucketKey(d, b) = <<YearOf(i)>> BY <1>7 DEF BucketKey
  <2>2. RangeOf(d, b) = DateRange(Utc(January(YearOf(i))), Utc(January(YearOf(i) + 1)))
    <3> HIDE DEF i
    <3> QED BY <1>7, <2>1 DEF RangeOf, BucketRange
  <2> QED BY <1>2, <1>4, <1>5, <1>7, <2>2
<1>8. CASE b = "fiscal_year"
  <2>1. BucketKey(d, b) = <<FiscalYearOf(i)>> BY <1>8 DEF BucketKey
  <2>2. RangeOf(d, b) = DateRange(Utc(January(FiscalYearOf(i)) + fyStartMonth - 1),
                                  Utc(January(FiscalYearOf(i)) + fyStartMonth - 1 + 12))
    <3> HIDE DEF i
    <3> QED BY <1>8, <2>1 DEF RangeOf, BucketRange
  <2> QED BY <1>3, <1>4, <1>5, <1>8, <2>2
<1>9. CASE b = "quarter"
  <2> DEFINE q == MonthsIntoYear(i) \div 3
             start == January(FiscalYearOf(i)) + fyStartMonth - 1 + ((q + 1) - 1) * 3
  <2>1. BucketKey(d, b) = <<FiscalYearOf(i), q + 1>> BY <1>9 DEF BucketKey
  <2>2. RangeOf(d, b) = DateRange(Utc(start), Utc(start + 3))
    <3> HIDE DEF i, q
    <3> QED BY <1>9, <2>1 DEF RangeOf, BucketRange
  <2>3. q \in Int
    <3>1. \A m \in 0..11 : m \div 3 \in Int OBVIOUS
    <3> QED BY <1>3, <3>1
  <2>4. start = FirstOf(i, b)
    <3>1. FirstOf(i, b) = i - MonthsIntoYear(i) + 3 * q BY <1>4, <1>9
    <3> HIDE DEF i, q
    <3> QED BY <1>3, <2>3, <3>1
  <2> QED BY <1>5, <1>9, <2>2, <2>4
<1> QED BY <1>6, <1>7, <1>8, <1>9 DEF ByMonth

\* Months that begin their range together have one key.
LEMMA MonthKey ==
  ASSUME NEW d \in Nat, NEW e \in Nat, NEW b \in ByMonth, fyStartMonth \in 1..12,
         FirstOf(MonthOf(d), b) = FirstOf(MonthOf(e), b)
  PROVE  BucketKey(d, b) = BucketKey(e, b)
<1> DEFINE i == MonthOf(d)
           j == MonthOf(e)
<1>1. i \in Int /\ j \in Int BY MonthOfDay
<1>2. FirstOf(i, b) = FirstOf(j, b) OBVIOUS
<1>3. CASE b = "month"
  <2>1. i = j BY <1>1, <1>2, <1>3, Starts
  <2> QED BY <1>3, <2>1 DEF BucketKey
<1>4. CASE b = "year"
  <2>1. i - (i % 12) = j - (j % 12) BY <1>1, <1>2, <1>4, Starts
  <2>2. YearOf(i) = YearOf(j)
    <3> HIDE DEF i, j
    <3> QED BY <1>1, <2>1 DEF YearOf
  <2> QED BY <1>4, <2>2 DEF BucketKey
<1> DEFINE m == MonthsIntoYear(i)
           k == MonthsIntoYear(j)
<1>5. m \in 0..11 /\ k \in 0..11 BY <1>1, FiscalYears
<1>6. CASE b = "fiscal_year"
  <2>1. i - m = j - k BY <1>1, <1>2, <1>6, Starts
  <2>2. FiscalYearOf(j) = FiscalYearOf(i)
    <3> HIDE DEF i, j
    <3> QED BY <1>1, <1>5, <2>1, FiscalYearsPass
  <2> QED BY <1>6, <2>2 DEF BucketKey
<1>7. CASE b = "quarter"
  <2>1. i - m + 3 * (m \div 3) = j - k + 3 * (k \div 3) BY <1>1, <1>2, <1>7, Starts
  <2>2. i - m <= j /\ j < i - m + 12
    <3> HIDE DEF i, j, m, k
    <3> QED BY <1>1, <1>5, <2>1
  <2>3. FiscalYearOf(j) = FiscalYearOf(i) /\ j - k = i - m
    <3> HIDE DEF i, j
    <3> QED BY <1>1, <2>2, FiscalYearsPass
  <2>4. m \div 3 = k \div 3
    <3> HIDE DEF i, j, m, k
    <3> QED BY <1>1, <1>5, <2>1, <2>3
  <2> QED BY <1>7, <2>3, <2>4 DEF BucketKey
<1> QED BY <1>3, <1>4, <1>6, <1>7 DEF ByMonth

\* Days of one week: a Monday and the six days after it.
Monday(d) == d - ((Weekday(d) + 6) % 7)

\* Weeks follow each other.
LEMMA Weeks ==
  ASSUME NEW d \in Int
  PROVE  /\ Monday(d) \in Int /\ Monday(d) <= d /\ d < Monday(d) + 7
         /\ \A e \in Int : Monday(d) <= e /\ e < Monday(d) + 7 => Monday(e) = Monday(d)
         /\ \A w \in Int : Monday(d + 7 * w) = Monday(d) + 7 * w
BY DEF Monday, Weekday

\* Two Mondays less than a week apart are one.
LEMMA Mondays ==
  ASSUME NEW m \in Int, NEW n \in Int, m = Monday(m), n = Monday(n)
  PROVE  m - 7 < n /\ n < m + 7 => n = m
<1>1. CASE m <= n /\ n < m + 7 BY <1>1, Weeks
<1>2. CASE n <= m /\ m < n + 7 BY <1>2, Weeks
<1> QED BY <1>1, <1>2

\* The range of a week's key is the week: its Thursday decides the year, and the week of
\* 4 January is the first.
LEMMA WeekRange ==
  ASSUME NEW d \in Nat, d >= 3
  PROVE  RangeOf(d, "week") = DateRange(Monday(d), Monday(d) + 7)
<1> DEFINE t == d + 3 - ((Weekday(d) + 6) % 7)
           y == YearOf(MonthOf(t))
           jan == Utc(January(y))
           w == (t - jan) \div 7
<1>1. t = Monday(d) + 3 /\ t \in Nat
  <2>1. (Weekday(d) + 6) % 7 \in 0..6 BY DEF Weekday
  <2> QED BY <2>1 DEF Monday
<1>2. jan \in Int /\ jan <= t
  <2> DEFINE i == MonthOf(t)
  <2>1. i \in Nat BY <1>1, MonthOfDay
  <2>2. January(YearOf(i)) \in Int /\ January(YearOf(i)) <= i
    <3> HIDE DEF i
    <3>1. i \in Int BY <2>1
    <3>2. January(YearOf(i)) = i - (i % 12) /\ i % 12 \in 0..11 BY <3>1, Years
    <3> QED BY <3>1, <3>2
  <2> QED BY <1>1, <2>2, SinceMonth
<1>3. BucketKey(d, "week") = <<y, w + 1>> BY DEF BucketKey, WeekOf
<1>4. RangeOf(d, "week") =
        DateRange(Monday(jan + 3) + ((w + 1) - 1) * 7, Monday(jan + 3) + ((w + 1) - 1) * 7 + 7)
  <2> HIDE DEF y, w
  <2> QED BY <1>3 DEF RangeOf, BucketRange, Monday, jan
<1> HIDE DEF t, jan, y
<1>5. w \in Int /\ 7 * w <= t - jan /\ t - jan < 7 * w + 7 BY <1>1, <1>2
<1>6. Monday(jan + 3) + 7 * w = Monday(d)
  <2> HIDE DEF w
  <2>1. Monday(t) = Monday(d) /\ Monday(d) \in Int BY SMTT(20), <1>1, Weeks
  <2>2. Monday(jan + 3 + 7 * w) = Monday(jan + 3) + 7 * w BY <1>2, <1>5, Weeks
  <2>3. jan + 3 + 7 * w \in Int /\ Monday(d) <= jan + 3 + 7 * w /\ jan + 3 + 7 * w < Monday(d) + 7
    BY <1>1, <1>2, <1>5, <2>1
  <2> QED BY <2>1, <2>2, <2>3, Weeks
<1>7. ((w + 1) - 1) * 7 = 7 * w
  <2> HIDE DEF w
  <2> QED BY <1>5
<1>8. Monday(jan + 3) \in Int BY <1>2, Weeks
<1> QED
  <2> HIDE DEF w
  <2> QED BY <1>4, <1>5, <1>6, <1>7, <1>8

\* A day is in the range of its key.
LEMMA InRange ==
  ASSUME NEW d \in Nat, d >= 3, NEW b \in Buckets, fyStartMonth \in 1..12
  PROVE  LET r == RangeOf(d, b) IN
         r.from \in Int /\ r.to \in Int /\ r.from <= d /\ d < r.to /\ d < r.from + 373
<1>1. CASE b = "day"
  <2>1. RangeOf(d, b) = DateRange(d, d + 1) BY <1>1 DEF RangeOf, BucketRange, BucketKey
  <2> QED BY <2>1 DEF DateRange
<1>2. CASE b = "week"
  <2>1. RangeOf(d, b) = DateRange(Monday(d), Monday(d) + 7) BY <1>2, WeekRange
  <2>2. Monday(d) \in Int /\ Monday(d) <= d /\ d < Monday(d) + 7 BY Weeks
  <2> QED BY <2>1, <2>2 DEF DateRange
<1>3. CASE b \in ByMonth
  <2> DEFINE i == MonthOf(d)
             first == FirstOf(i, b)
             next == first + Span(b)
  <2>1. i \in Int BY MonthOfDay
  <2>2. first \in Int /\ next \in Int /\ Span(b) \in 1..12 /\ first <= i /\ i < next
    <3> HIDE DEF i
    <3> QED BY <1>3, <2>1, InBucket
  <2>3. RangeOf(d, b) = DateRange(Utc(first), Utc(next)) BY <1>3, MonthRange
  <2>4. Utc(first) \in Int /\ Utc(next) \in Int /\ Utc(first) <= d /\ d < Utc(next)
    <3>1. first <= MonthOf(d) /\ ~(next <= MonthOf(d)) BY <2>1, <2>2
    <3> HIDE DEF first, next
    <3>2. Utc(first) \in Int /\ Utc(first) <= d BY <2>2, <3>1, SinceMonth
    <3>3. Utc(next) \in Int /\ ~(Utc(next) <= d) BY <2>2, <3>1, SinceMonth
    <3> QED BY <3>2, <3>3
  <2>5. Utc(next) - Utc(first) <= 31 * Span(b)
    <3> HIDE DEF first
    <3> QED BY <2>2, MonthsPass
  <2> HIDE DEF first, next
  <2> QED BY <2>2, <2>3, <2>4, <2>5 DEF DateRange
<1> QED BY <1>1, <1>2, <1>3 DEF Buckets, ByMonth

\* The days of a range have the key of the range.
LEMMA SameKey ==
  ASSUME NEW d \in Nat, d >= 3, NEW b \in Buckets, fyStartMonth \in 1..12,
         NEW e \in Nat, RangeOf(d, b).from <= e, e < RangeOf(d, b).to
  PROVE  BucketKey(e, b) = BucketKey(d, b)
<1>1. CASE b = "day"
  <2>1. RangeOf(d, b) = DateRange(d, d + 1) BY <1>1 DEF RangeOf, BucketRange, BucketKey
  <2>2. e = d BY <2>1 DEF DateRange
  <2> QED BY <2>2
<1>2. CASE b = "week"
  <2>1. RangeOf(d, b) = DateRange(Monday(d), Monday(d) + 7) BY <1>2, WeekRange
  <2>2. Monday(d) <= e /\ e < Monday(d) + 7 BY <2>1 DEF DateRange
  <2>3. Monday(e) = Monday(d) /\ Monday(d) \in Int BY <2>2, Weeks
  <2>4. d + 3 - ((Weekday(d) + 6) % 7) = e + 3 - ((Weekday(e) + 6) % 7)
    BY <2>3 DEF Monday, Weekday
  <2>5. WeekOf(d) = WeekOf(e) BY <2>4 DEF WeekOf
  <2> QED BY <1>2, <2>5 DEF BucketKey
<1>3. CASE b \in ByMonth
  <2> DEFINE i == MonthOf(d)
             j == MonthOf(e)
             first == FirstOf(i, b)
             next == first + Span(b)
  <2>1. i \in Int /\ j \in Int BY MonthOfDay
  <2>2. first \in Int /\ Span(b) \in 1..12
    <3> HIDE DEF i
    <3> QED BY <1>3, <2>1, InBucket
  <2>3. RangeOf(d, b) = DateRange(Utc(first), Utc(next)) BY <1>3, MonthRange
  <2>4. Utc(first) <= e /\ e < Utc(next)
    <3> HIDE DEF first, next
    <3> QED BY <2>3 DEF DateRange
  <2>5. first <= j /\ j < next
    <3> HIDE DEF first
    <3>1. Utc(next) \in Int /\ next \in Int BY <2>2, SinceMonth
    <3> QED BY <2>1, <2>2, <2>4, <3>1, SinceMonth
  <2>6. FirstOf(j, b) = FirstOf(i, b)
    <3> HIDE DEF i, j
    <3> QED BY <1>3, <2>1, <2>5, SameBucket
  <2> QED BY <1>3, <2>6, MonthKey
<1> QED BY <1>1, <1>2, <1>3 DEF Buckets, ByMonth

\* A day is in a year when its first day has come.
LEMMA SinceYear ==
  ASSUME NEW d \in Nat, NEW y \in Int
  PROVE  /\ Utc(January(y)) \in Int /\ YearOf(MonthOf(d)) \in Int
         /\ Utc(January(y)) <= d <=> y <= YearOf(MonthOf(d))
<1> DEFINE i == MonthOf(d)
<1>1. i \in Int BY MonthOfDay
<1>2. January(y) \in Int /\ January(y) = 12 * (y - 2000) BY DEF January
<1>3. YearOf(i) \in Int /\ (12 * (y - 2000) <= i <=> y <= YearOf(i))
  <2> HIDE DEF i
  <2> QED BY <1>1 DEF YearOf
<1> QED BY <1>2, <1>3, SinceMonth

\* Week one begins on the Monday of the week that 4 January is in.
LEMMA WeekOneIs ==
  ASSUME NEW y \in Int
  PROVE  /\ Utc(January(y)) \in Int /\ WeekOne(y) = Monday(Utc(January(y)) + 3)
         /\ WeekOne(y) \in Int /\ WeekOne(y) = Monday(WeekOne(y))
         /\ Utc(January(y)) <= WeekOne(y) + 3 /\ WeekOne(y) + 3 < Utc(January(y)) + 7
<1> DEFINE first == Utc(January(y))
           m == (Weekday(first) + 6) % 7
<1>1. first \in Int BY SinceYear
<1>2. WeekOne(y) = IF m <= 3 THEN first - m ELSE first - m + 7 BY DEF WeekOne
<1>3. m \in 0..6 /\ Monday(first) = first - m
  <2> HIDE DEF first
  <2> QED BY <1>1 DEF Weekday, Monday
<1> HIDE DEF first, m
<1>4. CASE m <= 3
  <2>1. WeekOne(y) = Monday(first) /\ Monday(first) <= first + 3 /\ first + 3 < Monday(first) + 7
    BY <1>1, <1>2, <1>3, <1>4
  <2>2. Monday(Monday(first)) = Monday(first) /\ Monday(first + 3) = Monday(first)
    BY <1>1, <1>3, <2>1, Weeks
  <2> QED BY <1>1, <1>3, <1>4, <2>1, <2>2 DEF first
<1>5. CASE m > 3
  <2>1. WeekOne(y) = Monday(first) + 7 * 1 /\ Monday(first) + 7 <= first + 3
        /\ first + 3 < Monday(first) + 14
    BY <1>1, <1>2, <1>3, <1>5
  <2>2. Monday(first + 7 * 1) = Monday(first) + 7 * 1 /\ Monday(first) + 7 \in Int
    BY SMTT(20), <1>1, <1>3, Weeks
  <2>3. /\ Monday(Monday(first) + 7 * 1) = Monday(Monday(first)) + 7 * 1
        /\ Monday(Monday(first)) = Monday(first)
    BY <1>1, <1>3, Weeks
  <2>4. Monday(first + 3) = Monday(first + 7)
    <3>1. /\ Monday(first + 7) <= first + 3 /\ first + 3 < Monday(first + 7) + 7
          /\ first + 7 \in Int /\ first + 3 \in Int
      BY <1>1, <1>3, <2>1, <2>2
    <3> QED BY <3>1, Weeks
  <2> QED BY <1>1, <1>3, <1>5, <2>1, <2>2, <2>3, <2>4 DEF first
<1> QED BY <1>3, <1>4, <1>5

\* The database finds the week that the Thursday decides.
LEMMA DatabaseWeekAgrees ==
  ASSUME NEW d \in Nat, d >= 3
  PROVE  DatabaseWeek(d) = WeekOf(d)
<1> DEFINE y  == YearOf(MonthOf(d))
           t  == d + 3 - ((Weekday(d) + 6) % 7)
           wy == YearOf(MonthOf(t))
           g  == IF d >= WeekOne(y + 1) THEN y + 1 ELSE IF d < WeekOne(y) THEN y - 1 ELSE y
           jan == Utc(January(wy))
<1>1. t = Monday(d) + 3 /\ t \in Nat /\ Monday(d) \in Int /\ t <= d + 3 /\ d <= t + 3
  <2>1. (Weekday(d) + 6) % 7 \in 0..6 BY DEF Weekday
  <2> QED BY <2>1 DEF Monday
<1>2. y \in Int /\ wy \in Int BY <1>1, SinceYear
<1>3. WeekOf(d) = <<wy, ((t - jan) \div 7) + 1>> BY DEF WeekOf
<1>4. DatabaseWeek(d) = <<g, ((d - WeekOne(g)) \div 7) + 1>> BY DEF DatabaseWeek
\* A week one has begun when its Thursday's year has.
<1>5. ASSUME NEW z \in Int PROVE WeekOne(z) \in Int /\ (WeekOne(z) <= d <=> z <= wy)
  <2> DEFINE m == WeekOne(z)
             first == Utc(January(z))
  <2>1. /\ first \in Int /\ m \in Int /\ m = Monday(m)
        /\ first <= m + 3 /\ m + 3 < first + 7
    BY <1>5, WeekOneIs
  <2>2. first <= t <=> z <= wy BY <1>1, <1>5, SinceYear
  <2> HIDE DEF m, first
  <2>3. Monday(d) <= d /\ d < Monday(d) + 7 BY Weeks
  <2>4. Monday(d) < m \/ m <= Monday(d) BY <1>1, <2>1
  <2>5. CASE m <= Monday(d) BY <1>1, <2>1, <2>2, <2>3, <2>5 DEF m
  <2>6. CASE Monday(d) < m
    <3>1. Monday(d) + 7 <= m
      <4> SUFFICES ASSUME ~(Monday(d) + 7 <= m) PROVE FALSE OBVIOUS
      <4>1. m < Monday(d) + 7 BY <1>1, <2>1
      <4>2. Monday(m) = Monday(d) BY <2>1, <2>6, <4>1, Weeks
      <4> QED BY <1>1, <2>1, <2>6, <4>2
    <3>2. ~(m <= d) BY <1>1, <2>1, <2>3, <3>1
    <3>3. ~(first <= t) BY <1>1, <2>1, <3>1
    <3> QED BY <2>1, <2>2, <3>2, <3>3 DEF m
  <2> QED BY <2>4, <2>5, <2>6
<1>6. wy \in {y - 1, y, y + 1}
  <2>1. /\ Utc(January(y)) \in Int /\ Utc(January(y + 1)) \in Int /\ Utc(January(y)) <= d
        /\ ~(Utc(January(y + 1)) <= d)
    BY <1>2, SinceYear
  <2>2. /\ Utc(January(y - 1)) \in Int /\ Utc(January(y + 2)) \in Int
        /\ Utc(January(y - 1)) + 3 <= Utc(January(y))
        /\ Utc(January(y + 1)) + 3 <= Utc(January(y + 2))
    <3> DEFINE b == January(y - 1)
               c == January(y + 1)
    <3>1. b \in Int /\ c \in Int /\ January(y) = b + 12 /\ January(y + 2) = c + 12
      <4> HIDE DEF y
      <4> QED BY <1>2 DEF January
    <3> HIDE DEF b, c
    <3>2. /\ Utc(b) \in Int /\ Utc(b + 12) - Utc(b) >= 28 /\ Utc(b + 12) \in Int
          /\ Utc(c) \in Int /\ Utc(c + 12) - Utc(c) >= 28 /\ Utc(c + 12) \in Int
      BY <3>1, MonthsPass
    <3> QED BY <3>1, <3>2 DEF b, c
  <2>3. y - 1 \in Int /\ y + 2 \in Int BY <1>2
  <2>4. Utc(January(y - 1)) <= t /\ ~(Utc(January(y + 2)) <= t)
    BY <1>1, <2>1, <2>2
  <2>5. y - 1 <= wy /\ ~(y + 2 <= wy) BY <1>1, <2>3, <2>4, SinceYear
  <2> QED BY <1>2, <2>5
<1>7. g = wy
  <2>1. y \in Int /\ y + 1 \in Int BY <1>2
  <2>2. /\ WeekOne(y + 1) \in Int /\ (WeekOne(y + 1) <= d <=> y + 1 <= wy)
        /\ WeekOne(y) \in Int /\ (WeekOne(y) <= d <=> y <= wy)
    BY <1>5, <2>1
  <2> HIDE DEF y, wy
  <2> QED BY <1>2, <1>6, <2>2
<1>8. (d - WeekOne(wy)) \div 7 = (t - jan) \div 7
  <2> DEFINE w == (t - jan) \div 7
             m == WeekOne(wy)
  <2>1. jan \in Int /\ m \in Int /\ m = Monday(m) /\ jan <= m + 3 /\ m + 3 < jan + 7
    BY <1>2, WeekOneIs
  <2> HIDE DEF jan, m
  <2>2. w \in Int /\ 7 * w <= t - jan /\ t - jan < 7 * w + 7 BY <1>1, <2>1
  <2> HIDE DEF w
  <2>3. Monday(m + 7 * w) = m + 7 * w /\ m + 7 * w \in Int BY <2>1, <2>2, Weeks
  <2>4. Monday(d) <= d /\ d < Monday(d) + 7 /\ Monday(Monday(d)) = Monday(d) BY <1>1, Weeks
  <2>5. m + 7 * w = Monday(d)
    <3>1. Monday(d) - 7 < m + 7 * w /\ m + 7 * w < Monday(d) + 7 BY <1>1, <2>1, <2>2
    <3> QED BY <1>1, <2>3, <2>4, <3>1, Mondays
  <2>6. 7 * w <= d - m /\ d - m < 7 * w + 7 BY <1>1, <2>1, <2>2, <2>4, <2>5
  <2>7. (d - m) \div 7 = w BY <2>1, <2>2, <2>6
  <2> QED BY <2>7 DEF w, m
<1> HIDE DEF g, wy, jan
<1> QED BY <1>3, <1>4, <1>7, <1>8

\* The database computes the same keys.
LEMMA DatabaseAgrees ==
  ASSUME NEW d \in Nat, d >= 3, NEW b \in Buckets, fyStartMonth \in 1..12
  PROVE  DatabaseKey(d, b) = BucketKey(d, b)
<1> DEFINE i == MonthOf(d)
<1>1. i \in Int BY MonthOfDay
<1>2. CASE b \in {"day", "month", "year"} BY <1>2 DEF DatabaseKey, BucketKey
<1>6. CASE b = "week"
  <2>1. DatabaseKey(d, b) = DatabaseWeek(d) BY <1>6 DEF DatabaseKey
  <2>2. BucketKey(d, b) = WeekOf(d) BY <1>6 DEF BucketKey
  <2> QED BY <2>1, <2>2, DatabaseWeekAgrees
<1>3. DatabaseYear(i) = FiscalYearOf(i) BY DEF DatabaseYear, FiscalYearOf
<1>4. CASE b = "fiscal_year" BY <1>3, <1>4 DEF DatabaseKey, BucketKey
<1>5. CASE b = "quarter"
  <2>1. \A m \in 0..11 : ((m + 1 - fyStartMonth + 12) % 12) = ((m - (fyStartMonth - 1) + 12) % 12)
    OBVIOUS
  <2>2. DatabaseQuarter(i) = (MonthsIntoYear(i) \div 3) + 1
    <3>1. i % 12 \in 0..11 BY <1>1, Years
    <3> HIDE DEF i
    <3>2. MonthsIntoYear(i) = ((i % 12) + 1 - fyStartMonth + 12) % 12
      BY <2>1, <3>1 DEF MonthsIntoYear
    <3>3. MonthsIntoYear(i) \in 0..11 BY <1>1, FiscalYears
    <3> QED BY <3>1, <3>2, <3>3 DEF DatabaseQuarter
  <2>3. DatabaseKey(d, b) = <<DatabaseYear(i), DatabaseQuarter(i)>> BY <1>5 DEF DatabaseKey
  <2>4. BucketKey(d, b) = <<FiscalYearOf(i), (MonthsIntoYear(i) \div 3) + 1>>
    BY <1>5 DEF BucketKey
  <2> QED BY <1>3, <2>2, <2>3, <2>4
<1> QED BY <1>2, <1>4, <1>5, <1>6 DEF Buckets

\* What the dates of a calendar satisfy.
PeriodsInv == now \in Nat /\ now >= 731 /\ fyStartMonth \in 1..12

\* Keys split the days, for any calendar.
LEMMA KeysSplit == ASSUME PeriodsInv PROVE KeysSplitTheDays
<1> SUFFICES ASSUME NEW b \in Buckets
             PROVE  LET key == BucketKey(now, b)
                        r == BucketRange(key, b)
                    IN /\ r.from <= now /\ now < r.to
                       /\ BucketKey(r.from, b) = key /\ BucketKey(r.to - 1, b) = key
                       /\ BucketKey(r.from - 1, b) # key
                       /\ BucketKey(r.to, b) # key
                       /\ DatabaseKey(now, b) = key
  BY DEF KeysSplitTheDays
<1> DEFINE key == BucketKey(now, b)
           r == RangeOf(now, b)
<1>1. now \in Nat /\ now >= 731 /\ fyStartMonth \in 1..12 BY DEF PeriodsInv
<1>2. /\ r.from \in Int /\ r.to \in Int /\ r.from <= now /\ now < r.to
      /\ now < r.from + 373
  BY <1>1, InRange
<1>3. \A e \in Nat : r.from <= e /\ e < r.to => BucketKey(e, b) = key
  BY <1>1, SameKey
<1>4. \A e \in Nat : e >= 3 /\ BucketKey(e, b) = key => r.from <= e /\ e < r.to
  <2> SUFFICES ASSUME NEW e \in Nat, e >= 3, BucketKey(e, b) = key
               PROVE  r.from <= e /\ e < r.to
    OBVIOUS
  <2>1. RangeOf(e, b) = r BY DEF RangeOf
  <2>2. RangeOf(e, b).from <= e /\ e < RangeOf(e, b).to BY <1>1, InRange
  <2> QED BY <2>1, <2>2
<1>5. DatabaseKey(now, b) = key BY <1>1, DatabaseAgrees
<1>6. r = BucketRange(key, b) BY DEF RangeOf
<1> HIDE DEF key, r
<1>7. /\ r.from \in Nat /\ r.from - 1 \in Nat /\ r.to \in Nat /\ r.to - 1 \in Nat
      /\ r.from - 1 >= 3 /\ r.to >= 3
  BY <1>1, <1>2
<1>8. BucketKey(r.from, b) = key /\ BucketKey(r.to - 1, b) = key
  BY <1>1, <1>2, <1>3, <1>7
<1>9. BucketKey(r.from - 1, b) # key /\ BucketKey(r.to, b) # key
  BY <1>2, <1>4, <1>7
<1> QED BY <1>2, <1>5, <1>6, <1>8, <1>9 DEF key

\* The month of its first day.
LEMMA MonthOfFirst == ASSUME NEW i \in Nat PROVE Utc(i) \in Nat /\ MonthOf(Utc(i)) = i
<1>1. Utc(i) \in Int /\ Utc(i) >= 0 BY MonthsOrder, FirstMonth
<1>2. Utc(i) \in Nat /\ Utc(i + 1) \in Int /\ Utc(i) < Utc(i + 1) BY <1>1, MonthLengths
<1> DEFINE d == Utc(i)
<1>3. MonthOf(d) \in Nat BY <1>2, MonthOfDay
<1>4. i <= MonthOf(d) /\ ~(i + 1 <= MonthOf(d)) 
  <2>1. d \in Nat /\ Utc(i) <= d /\ ~(Utc(i + 1) <= d) BY <1>2
  <2> HIDE DEF d
  <2> QED BY <2>1, SinceMonth
<1> QED BY <1>2, <1>3, <1>4

\* The month before a range begins another, of as many months.
LEMMA BeforeBucket ==
  ASSUME NEW i \in Int, NEW b \in ByMonth, fyStartMonth \in 1..12
  PROVE  FirstOf(FirstOf(i, b) - 1, b) = FirstOf(i, b) - Span(b)
<1> DEFINE first == FirstOf(i, b)
           j == first - 1
           m == MonthsIntoYear(i)
           k == MonthsIntoYear(j)
<1>1. first \in Int /\ j \in Int BY InBucket
<1>2. Span("month") = 1 /\ Span("quarter") = 3 /\ Span("year") = 12 /\ Span("fiscal_year") = 12
  BY DEF Span
<1>3. /\ FirstOf(j, "month") = j /\ FirstOf(j, "year") = j - (j % 12)
      /\ FirstOf(j, "quarter") = j - k + 3 * (k \div 3)
      /\ FirstOf(j, "fiscal_year") = j - k
  <2> HIDE DEF j
  <2> QED BY <1>1, Starts
<1>4. /\ first = FirstOf(i, b)
      /\ FirstOf(i, "month") = i /\ FirstOf(i, "year") = i - (i % 12)
      /\ FirstOf(i, "quarter") = i - m + 3 * (m \div 3)
      /\ FirstOf(i, "fiscal_year") = i - m
  BY Starts
<1>5. \E y \in Int : i - m = 12 * y + fyStartMonth - 1 /\ m \in 0..11
  <2>1. /\ FiscalYearOf(i) \in Int /\ m \in 0..11
        /\ (FiscalYearOf(i) - 2000) * 12 + fyStartMonth - 1 = i - m
    BY FiscalYears DEF January
  <2> HIDE DEF m
  <2>2. /\ FiscalYearOf(i) - 2000 \in Int
        /\ i - m = 12 * (FiscalYearOf(i) - 2000) + fyStartMonth - 1
    BY <2>1
  <2> QED BY <2>1, <2>2
<1>6. \E z \in Int : j - k = 12 * z + fyStartMonth - 1 /\ k \in 0..11
  <2> HIDE DEF j
  <2>1. /\ FiscalYearOf(j) \in Int /\ k \in 0..11
        /\ (FiscalYearOf(j) - 2000) * 12 + fyStartMonth - 1 = j - k
    BY <1>1, FiscalYears DEF January
  <2> HIDE DEF k
  <2>2. /\ FiscalYearOf(j) - 2000 \in Int
        /\ j - k = 12 * (FiscalYearOf(j) - 2000) + fyStartMonth - 1
    BY <2>1
  <2> QED BY <2>1, <2>2
<1>7. j = first - 1 OBVIOUS
<1> HIDE DEF first, j, k, m
<1>8. CASE b = "month" BY <1>1, <1>2, <1>3, <1>7, <1>8 DEF first, j
<1>9. CASE b = "year"
  <2>1. first = i - (i % 12) BY <1>4, <1>9
  <2>2. j - (j % 12) = first - 12 BY <1>7, <2>1
  <2> QED BY <1>2, <1>3, <1>9, <2>2 DEF first, j
<1>10. CASE b = "fiscal_year"
  <2>1. first = i - m BY <1>4, <1>10
  <2>2. j - k = first - 12 BY <1>1, <1>5, <1>6, <1>7, <2>1
  <2> QED BY <1>2, <1>3, <1>10, <2>2 DEF first, j
<1>11. CASE b = "quarter"
  <2>1. first = i - m + 3 * (m \div 3) BY <1>4, <1>11
  <2>2. j - k + 3 * (k \div 3) = first - 3 BY <1>1, <1>5, <1>6, <1>7, <2>1
  <2> QED BY <1>2, <1>3, <1>11, <2>2 DEF first, j
<1> QED BY <1>8, <1>9, <1>10, <1>11 DEF ByMonth

\* A range of months is preceded by as many months, another by as many days.
LEMMA PreviousMonths ==
  ASSUME NEW first \in Nat, NEW n \in 1..12
  PROVE  PreviousRange(DateRange(Utc(first), Utc(first + n)))
           = DateRange(Utc(first - n), Utc(first))
<1> DEFINE r == DateRange(Utc(first), Utc(first + n))
<1>1. r.from = Utc(first) /\ r.to = Utc(first + n) BY DEF DateRange
<1>2. MonthOf(r.from) = first /\ MonthOf(r.to) = first + n BY <1>1, MonthOfFirst
<1>3. first + n - first = n OBVIOUS
<1> HIDE DEF r
<1>4. PreviousRange(r) = DateRange(Utc(first - n), r.from) BY <1>1, <1>2, <1>3 DEF PreviousRange
<1> QED BY <1>1, <1>4 DEF r

\* A range of days is preceded by as many.
LEMMA PreviousDays ==
  ASSUME NEW from \in Nat, NEW n \in {1, 7}
  PROVE  PreviousRange(DateRange(from, from + n)) = DateRange(from - n, from)
<1> DEFINE r == DateRange(from, from + n)
           i == MonthOf(from)
           j == MonthOf(from + n)
<1>1. r.from = from /\ r.to = from + n BY DEF DateRange
<1>2. ~(Utc(i) = from /\ Utc(j) = from + n /\ j - i >= 1)
  <2> SUFFICES ASSUME Utc(i) = from, Utc(j) = from + n, j - i >= 1 PROVE FALSE OBVIOUS
  <2>1. i \in Nat /\ j \in Nat BY MonthOfDay
  <2> HIDE DEF i, j
  <2>2. i + 1 <= j BY <2>1
  <2>3. Utc(i + 1) \in Int /\ Utc(j) \in Int /\ Utc(i + 1) <= Utc(j) BY <2>1, <2>2, MonthsOrder
  <2>4. Utc(i) \in Int /\ Utc(i + 1) - Utc(i) \in 28..31 BY <2>1, MonthLengths
  <2> QED BY <2>3, <2>4
<1>3. from + n - from = n OBVIOUS
<1> HIDE DEF r
<1>4. PreviousRange(r) = DateRange(r.from - (r.to - r.from), r.from)
  BY <1>1, <1>2 DEF PreviousRange
<1> QED BY <1>1, <1>3, <1>4 DEF r

\* Periods follow each other, for any calendar.
LEMMA Follow == ASSUME PeriodsInv PROVE PeriodsFollow
<1> SUFFICES ASSUME NEW b \in Buckets \ {"year"}
             PROVE  LET this == ThisPeriod(b) IN
                    /\ this = BucketRange(BucketKey(now, b), b)
                    /\ LastPeriod(b).to = this.from
                    /\ LastPeriod(b) = BucketRange(BucketKey(this.from - 1, b), b)
                    /\ PreviousRange(this) = LastPeriod(b)
  BY DEF PeriodsFollow
<1> DEFINE this == ThisPeriod(b)
<1>1. now \in Nat /\ now >= 731 /\ fyStartMonth \in 1..12 BY DEF PeriodsInv
<1>2. SUFFICES /\ this = RangeOf(now, b)
               /\ LastPeriod(b).to = this.from
               /\ LastPeriod(b) = RangeOf(this.from - 1, b)
               /\ PreviousRange(this) = LastPeriod(b)
  BY DEF RangeOf
<1>3. CASE b = "day"
  <2>1. this = DateRange(now, now + 1) /\ LastPeriod(b) = DateRange(now - 1, now)
    BY <1>3 DEF ThisPeriod, LastPeriod
  <2>2. \A d : RangeOf(d, b) = DateRange(d, d + 1)
    BY <1>3 DEF RangeOf, BucketRange, BucketKey
  <2>3. PreviousRange(DateRange(now, now + 1)) = DateRange(now - 1, now)
    BY <1>1, PreviousDays
  <2>4. this.from = now /\ LastPeriod(b).to = now /\ now - 1 + 1 = now
    BY <1>1, <2>1 DEF DateRange
  <2> HIDE DEF this
  <2> QED BY <2>1, <2>2, <2>3, <2>4
<1>4. CASE b = "week"
  <2> DEFINE monday == Monday(now)
  <2>1. this = DateRange(monday, monday + 7) /\ LastPeriod(b) = DateRange(monday - 7, monday)
    BY <1>4 DEF ThisPeriod, LastPeriod, Monday
  <2>2. monday \in Nat /\ monday >= 700 BY <1>1, Weeks
  <2>3. Monday(monday - 1) = monday - 7
    <3>1. Monday(now + 7 * (-1)) = monday + 7 * (-1) BY SMTT(20), <1>1, Weeks
    <3>2. now + 7 * (-1) \in Int /\ Monday(now + 7 * (-1)) <= monday - 1
          /\ monday - 1 < Monday(now + 7 * (-1)) + 7
      <4> HIDE DEF monday
      <4> QED BY <1>1, <2>2, <3>1
    <3>3. Monday(monday - 1) = Monday(now + 7 * (-1))
      <4> HIDE DEF monday
      <4> QED BY <2>2, <3>2, Weeks
    <3> HIDE DEF monday
    <3> QED BY <2>2, <3>1, <3>3
  <2>4. RangeOf(now, b) = DateRange(monday, monday + 7) BY <1>1, <1>4, WeekRange
  <2> HIDE DEF monday, this
  <2>5. RangeOf(monday - 1, b) = DateRange(monday - 7, monday)
    <3>1. monday - 1 \in Nat /\ monday - 1 >= 3 /\ monday - 7 + 7 = monday BY <2>2
    <3> QED BY <1>4, <2>3, <3>1, WeekRange
  <2>6. PreviousRange(DateRange(monday, monday + 7)) = DateRange(monday - 7, monday)
    BY <2>2, PreviousDays
  <2>7. this.from = monday /\ LastPeriod(b).to = monday BY <2>1 DEF DateRange
  <2> QED BY <2>1, <2>4, <2>5, <2>6, <2>7
<1>5. CASE b \in ByMonth
  <2> DEFINE i == MonthOf(now)
             first == FirstOf(i, b)
             n == Span(b)
  <2>1. i \in Int BY <1>1, MonthOfDay
  <2>2. /\ this = DateRange(Utc(first), Utc(first + n))
        /\ LastPeriod(b) = DateRange(Utc(first - n), Utc(first))
    <3>1. b # "year" OBVIOUS
    <3>2. /\ FirstOf(i, "month") = i
          /\ FirstOf(i, "quarter") = FiscalStart(i, 3)
          /\ FirstOf(i, "fiscal_year") = FiscalStart(i, 12)
      BY <1>1, <2>1, Starts
    <3>3. Span("month") = 1 /\ Span("quarter") = 3 /\ Span("fiscal_year") = 12 BY DEF Span
    <3>4. CASE b = "month" BY <3>2, <3>3, <3>4 DEF ThisPeriod, LastPeriod
    <3>5. CASE b = "quarter" BY <3>2, <3>3, <3>5 DEF ThisPeriod, LastPeriod
    <3>6. CASE b = "fiscal_year" BY <3>2, <3>3, <3>6 DEF ThisPeriod, LastPeriod
    <3> QED BY <1>5, <3>1, <3>4, <3>5, <3>6 DEF ByMonth
  <2>3. RangeOf(now, b) = DateRange(Utc(first), Utc(first + n)) BY <1>1, <1>5, MonthRange
  <2>4. first \in Nat /\ first - 1 \in Nat /\ n \in 1..12
    <3>1. 24 <= i
      <4>1. Utc(24) = 731
        <5>1. YearOf(24) = 2002 /\ 24 % 12 = 0 BY DEF YearOf
        <5> QED BY <5>1 DEF Utc, NewYear, LeapsBefore, IntoYear
      <4>2. Utc(24) <= now BY <1>1, <4>1
      <4> QED BY <1>1, <4>2, SinceMonth
    <3> HIDE DEF i
    <3>2. first \in Int /\ n \in 1..12 /\ i < first + n BY <1>1, <1>5, <2>1, InBucket
    <3> QED BY <2>1, <3>1, <3>2
  <2>5. FirstOf(first - 1, b) = first - n
    <3> HIDE DEF i
    <3> QED BY <1>1, <1>5, <2>1, BeforeBucket
  <2> HIDE DEF this, first, n
  <2>6. Utc(first) \in Nat /\ Utc(first) - 1 \in Nat /\ MonthOf(Utc(first) - 1) = first - 1
    <3>1. Utc(first) \in Int /\ Utc(first - 1) \in Int /\ Utc(first - 1) >= 0
          /\ Utc(first) - Utc(first - 1) \in 28..31
      <4>1. first - 1 \in Int /\ (first - 1) + 1 = first BY <2>4
      <4>2. Utc(first - 1) \in Nat BY <2>4, MonthOfFirst
      <4> QED BY <4>1, <4>2, MonthLengths
    <3> DEFINE e == Utc(first) - 1
    <3>2. e \in Nat /\ Utc(first - 1) <= e /\ ~(Utc(first) <= e) BY <3>1
    <3>3. MonthOf(e) \in Nat BY <3>2, MonthOfDay
    <3>4. first - 1 <= MonthOf(e) /\ ~(first <= MonthOf(e))
      <4> HIDE DEF e
      <4> QED BY <2>4, <3>2, SinceMonth
    <3> HIDE DEF e
    <3>5. MonthOf(e) = first - 1 BY <2>4, <3>3, <3>4
    <3> QED BY <3>1, <3>2, <3>5 DEF e
  <2>7. RangeOf(Utc(first) - 1, b) = DateRange(Utc(first - n), Utc(first))
    <3>1. RangeOf(Utc(first) - 1, b) = DateRange(Utc(first - n), Utc(first - n + n))
      BY <1>1, <1>5, <2>5, <2>6, MonthRange DEF n
    <3>2. first - n + n = first BY <2>4
    <3> QED BY <3>1, <3>2
  <2>8. PreviousRange(DateRange(Utc(first), Utc(first + n)))
          = DateRange(Utc(first - n), Utc(first))
    BY <2>4, PreviousMonths
  <2>9. this.from = Utc(first) /\ LastPeriod(b).to = Utc(first) BY <2>2 DEF DateRange
  <2> QED BY <2>2, <2>3, <2>7, <2>8, <2>9
<1> QED BY <1>3, <1>4, <1>5 DEF Buckets, ByMonth

-----------------------------------------------------------------------------
(* Periods: working time *)

WalkAt(f, n, start, hours) ==
  IF n = 0 THEN [left |-> hours, at |-> start]
  ELSE WorkOf(f[n - 1], (start \div 24) + n - 1, start)
IsWalk(f, m, start, hours) == f = [n \in 0..m |-> WalkAt(f, n, start, hours)]

\* The walk goes from one day to the next.
LEMMA WalkSteps ==
  ASSUME WalkDays \in Nat, NEW start, NEW hours
  PROVE  LET walk == Walk(start, hours) IN
         /\ walk[0] = [left |-> hours, at |-> start]
         /\ \A n \in 1..WalkDays :
              walk[n] = WorkOf(walk[n - 1], (start \div 24) + n - 1, start)
<1> DEFINE Is(f, m) == IsWalk(f, m, start, hours)
           G == {m \in Nat : \E f : Is(f, m)}
<1>1. 0 \in G
  <2> DEFINE f == [n \in 0..0 |-> [left |-> hours, at |-> start]]
  <2>1. Is(f, 0) BY DEF IsWalk, WalkAt
  <2> QED BY <2>1
<1>2. ASSUME NEW m \in 1..WalkDays, m - 1 \in G PROVE m \in G
  <2>1. PICK f : Is(f, m - 1) BY <1>2
  <2> DEFINE g == [n \in 0..m |-> IF n = m THEN WorkOf(f[m - 1], (start \div 24) + m - 1, start)
                                  ELSE f[n]]
  <2>2. \A n \in 0..(m - 1) : f[n] = WalkAt(f, n, start, hours)
    BY <2>1 DEF IsWalk
  <2>3. \A n \in 0..m : g[n] = WalkAt(g, n, start, hours)
    <3> TAKE n \in 0..m
    <3>1. CASE n = m BY <3>1 DEF WalkAt
    <3>2. CASE n # m
      <4>1. n \in 0..(m - 1) /\ (n # 0 => n - 1 \in 0..(m - 1)) BY <3>2
      <4> QED BY <2>2, <4>1 DEF WalkAt
    <3> QED BY <3>1, <3>2
  <2>4. g = [n \in 0..m |-> g[n]] OBVIOUS
  <2>5. Is(g, m)
    <3> HIDE DEF g
    <3> QED BY <2>3, <2>4 DEF IsWalk
  <2> QED BY <2>5
<1>3. \E f : Is(f, WalkDays)
  <2>1. \A m \in 1..WalkDays : m - 1 \in G => m \in G BY <1>2
  <2>2. \A m \in 0..WalkDays : m \in G
    <3> HIDE DEF G
    <3> QED BY <1>1, <2>1, Induction
  <2> QED BY <2>2
<1> DEFINE walk == Walk(start, hours)
<1>4. walk = CHOOSE f : Is(f, WalkDays) BY DEF Walk, IsWalk, WalkAt
<1>5. Is(walk, WalkDays)
  <2> HIDE DEF Is, walk
  <2> QED BY <1>3, <1>4
<1>6. \A n \in 0..WalkDays : walk[n] = WalkAt(walk, n, start, hours)
  <2> HIDE DEF walk
  <2> QED BY <1>5 DEF IsWalk
<1> HIDE DEF walk
<1>7. walk[0] = [left |-> hours, at |-> start] BY <1>6 DEF WalkAt
<1>8. ASSUME NEW n \in 1..WalkDays
      PROVE  walk[n] = WorkOf(walk[n - 1], (start \div 24) + n - 1, start)
  BY <1>6 DEF WalkAt
<1> QED BY <1>7, <1>8 DEF walk

\* The working hours of a part of a day.
LEMMA HoursOfDay ==
  ASSUME NEW d \in Nat, NEW from \in Nat, NEW to \in Nat, d * 24 <= from, to <= d * 24 + 24
  PROVE  \A t : t \in WorkingHours(from, to) <=>
                /\ t \in from..(to - 1) /\ WorkingDay(d)
                /\ d * 24 + Open <= t /\ t < d * 24 + Close
<1>1. ASSUME NEW t \in from..(to - 1) PROVE t \div 24 = d /\ t % 24 = t - d * 24
  <2>1. t \in Nat /\ d * 24 <= t /\ t < d * 24 + 24 BY <1>1
  <2> QED BY <2>1
<1>2. ASSUME NEW t \in from..(to - 1)
      PROVE  WorkingHour(t) <=> WorkingDay(d) /\ d * 24 + Open <= t /\ t < d * 24 + Close
  <2>1. t \in Int /\ t \div 24 = d /\ t % 24 = t - d * 24 BY <1>1, <1>2
  <2> QED BY <2>1 DEF WorkingHour, Open, Close
<1> QED BY <1>2 DEF WorkingHours

\* Disjoint sets are counted one after the other.
LEMMA DisjointUnion ==
  ASSUME NEW S, NEW T, IsFiniteSet(S), IsFiniteSet(T), S \cap T = {}
  PROVE  Cardinality(S \cup T) = Cardinality(S) + Cardinality(T)
<1>1. Cardinality(S \cup T) = Cardinality(S) + Cardinality(T) - Cardinality(S \cap T)
  BY FS_Union
<1>2. Cardinality(S \cap T) = 0 BY FS_EmptySet
<1>3. Cardinality(S) \in Nat /\ Cardinality(T) \in Nat BY FS_CardinalityType
<1> QED BY <1>1, <1>2, <1>3

\* Hours are counted one part after the other.
LEMMA HoursAdd ==
  ASSUME NEW a \in Nat, NEW b \in Nat, NEW c \in Nat, a <= b, b <= c
  PROVE  /\ Cardinality(WorkingHours(a, b)) \in Nat /\ Cardinality(WorkingHours(b, c)) \in Nat
         /\ Cardinality(WorkingHours(a, c)) =
              Cardinality(WorkingHours(a, b)) + Cardinality(WorkingHours(b, c))
<1>1. WorkingHours(a, c) = WorkingHours(a, b) \cup WorkingHours(b, c) BY DEF WorkingHours
<1>2. WorkingHours(a, b) \cap WorkingHours(b, c) = {} BY DEF WorkingHours
<1>3. IsFiniteSet(WorkingHours(a, b)) /\ IsFiniteSet(WorkingHours(b, c))
  <2>1. IsFiniteSet(a..(b - 1)) /\ IsFiniteSet(b..(c - 1)) BY FS_Interval
  <2>2. WorkingHours(a, b) \subseteq a..(b - 1) /\ WorkingHours(b, c) \subseteq b..(c - 1)
    BY DEF WorkingHours
  <2> QED BY <2>1, <2>2, FS_Subset
<1>4. Cardinality(WorkingHours(a, b)) \in Nat /\ Cardinality(WorkingHours(b, c)) \in Nat
  BY <1>3, FS_CardinalityType
<1> QED BY <1>1, <1>2, <1>3, <1>4, DisjointUnion

\* An empty set counts nothing.
LEMMA NoHours == \A S : S = {} => Cardinality(S) = 0
BY FS_EmptySet

\* Where a walk of so many days has come.
Reached(start, n) == IF n = 0 THEN start ELSE ((start \div 24) + n) * 24

\* What is left is what the working hours up to there lack; a walk that is done ends right
\* behind the last of the hours.
Walked(start, hours, n, acc) ==
  /\ acc.left \in Nat /\ acc.at \in Nat
  /\ acc.left # 0 => Cardinality(WorkingHours(start, Reached(start, n))) = hours - acc.left
  /\ acc.left = 0 => Cardinality(WorkingHours(start, acc.at)) = hours /\ WorkingHour(acc.at - 1)

\* One more day of the walk.
LEMMA WalkOn ==
  ASSUME NEW start \in Nat, NEW hours \in Nat, NEW n \in Nat, NEW acc
  PROVE  Walked(start, hours, n, acc)
           => Walked(start, hours, n + 1, WorkOf(acc, (start \div 24) + n, start))
<1> DEFINE d == (start \div 24) + n
           lo == Reached(start, n)
           from == IF d * 24 + Open > start THEN d * 24 + Open ELSE start
           room == d * 24 + Close - from
           next == WorkOf(acc, d, start)
<1>1. /\ d \in Nat /\ lo \in Nat /\ start <= lo /\ d * 24 <= lo /\ lo <= d * 24 + 24
      /\ from \in Nat /\ from = IF d * 24 + Open > lo THEN d * 24 + Open ELSE lo
  <2>1. start \div 24 \in Nat /\ (start \div 24) * 24 <= start /\ start < (start \div 24) * 24 + 24
    OBVIOUS
  <2>2. CASE n = 0
    <3>1. d = start \div 24 /\ lo = start BY <2>1, <2>2 DEF Reached
    <3> QED BY <2>1, <3>1 DEF Open
  <2>3. CASE n # 0
    <3>1. lo = ((start \div 24) + n) * 24 BY <2>3 DEF Reached
    <3>2. lo = d * 24 BY <3>1
    <3>3. d \in Nat /\ start < d * 24
      <4> DEFINE s == start \div 24
      <4> HIDE DEF s
      <4> QED BY <2>1, <2>3 DEF s
    <3> HIDE DEF d, lo
    <3> QED BY <3>2, <3>3 DEF Open
  <2> QED BY <2>2, <2>3
<1>2. Reached(start, n + 1) = d * 24 + 24
  <2>1. start \div 24 \in Nat /\ n + 1 # 0 OBVIOUS
  <2>2. Reached(start, n + 1) = ((start \div 24) + (n + 1)) * 24 BY <2>1 DEF Reached
  <2> DEFINE s == start \div 24
  <2> HIDE DEF s
  <2> QED BY <2>1, <2>2 DEF s
<1>3. next = IF acc.left = 0 \/ ~WorkingDay(d) \/ room <= 0 THEN acc
             ELSE IF room >= acc.left THEN [left |-> 0, at |-> from + acc.left]
             ELSE [left |-> acc.left - room, at |-> acc.at]
  BY DEF WorkOf
<1> DEFINE hi == d * 24 + 24
<1>4. ASSUME NEW to \in Nat, lo <= to
      PROVE  /\ Cardinality(WorkingHours(start, lo)) \in Nat
             /\ Cardinality(WorkingHours(lo, to)) \in Nat
             /\ Cardinality(WorkingHours(start, to)) =
                  Cardinality(WorkingHours(start, lo)) + Cardinality(WorkingHours(lo, to))
  <2>1. lo \in Nat /\ start <= lo BY <1>1
  <2> HIDE DEF d, lo
  <2> QED BY <1>4, <2>1, HoursAdd
<1>5. ASSUME NEW to \in Nat, to <= hi
       PROVE  \A t : t \in WorkingHours(lo, to) <=>
                     /\ t \in lo..(to - 1) /\ WorkingDay(d)
                     /\ d * 24 + Open <= t /\ t < d * 24 + Close
  <2>1. lo \in Nat /\ d \in Nat /\ d * 24 <= lo /\ to <= d * 24 + 24 BY <1>1, <1>5
  <2> HIDE DEF d, lo
  <2> QED BY <1>5, <2>1, HoursOfDay
<1>6. SUFFICES ASSUME Walked(start, hours, n, acc)
               PROVE  Walked(start, hours, n + 1, next)
  OBVIOUS
<1> HIDE DEF d, lo, from, next
<1>7. CASE acc.left = 0
  <2>1. next = acc BY <1>3, <1>7
  <2> QED BY <1>6, <1>7, <2>1 DEF Walked, next, d
<1>8. CASE acc.left # 0 /\ (~WorkingDay(d) \/ room <= 0)
  <2>1. next = acc BY <1>3, <1>8
  <2>2. WorkingHours(lo, hi) = {} BY <1>1, <1>5, <1>8 DEF Open, Close
  <2>3. Cardinality(WorkingHours(lo, hi)) = 0 BY <2>2, NoHours
  <2>4. Cardinality(WorkingHours(start, hi)) = Cardinality(WorkingHours(start, lo))
    BY <1>1, <1>4, <2>3
  <2> QED BY <1>2, <1>6, <1>8, <2>1, <2>4 DEF Walked, next, d, lo
<1>9. CASE acc.left # 0 /\ WorkingDay(d) /\ room > 0 /\ room >= acc.left
  <2>1. next.left = 0 /\ next.at = from + acc.left BY <1>1, <1>3, <1>9 DEF Close
  <2>2. acc.left \in Nat BY <1>6 DEF Walked
  <2>3. /\ next.at \in Nat /\ lo <= next.at /\ next.at <= hi /\ next.at <= d * 24 + Close
        /\ from <= next.at - 1
    BY <1>1, <1>9, <2>1, <2>2 DEF Close, Open
  <2>4. WorkingHours(lo, next.at) = from..(next.at - 1)
    <3>1. \A t : t \in WorkingHours(lo, next.at) <=>
                 /\ t \in lo..(next.at - 1) /\ WorkingDay(d)
                 /\ d * 24 + Open <= t /\ t < d * 24 + Close
      BY <1>5, <2>3
    <3>2. \A t : t \in WorkingHours(lo, next.at) <=> t \in from..(next.at - 1)
      BY <1>1, <1>9, <2>3, <3>1 DEF Close, Open
    <3> QED BY <3>2
  <2>5. Cardinality(WorkingHours(lo, next.at)) = acc.left
    <3>1. from \in Int /\ next.at - 1 \in Int /\ ~(from > next.at - 1) BY <1>1, <2>3
    <3>2. Cardinality(from..(next.at - 1)) = (next.at - 1) - from + 1
      BY <3>1, FS_Interval
    <3> QED BY <1>1, <2>1, <2>2, <2>4, <3>2
  <2>6. Cardinality(WorkingHours(start, next.at)) = hours
    BY <1>1, <1>4, <1>6, <1>9, <2>2, <2>3, <2>5 DEF Walked, lo
  <2>7. WorkingHour(next.at - 1)
    <3>1. next.at - 1 \in WorkingHours(lo, next.at) BY <1>1, <2>3, <2>4
    <3> QED BY <3>1 DEF WorkingHours
  <2> QED BY <2>1, <2>3, <2>6, <2>7 DEF Walked, next, d
<1>10. CASE acc.left # 0 /\ WorkingDay(d) /\ room > 0 /\ ~(room >= acc.left)
  <2>1. next.left = acc.left - room /\ next.at = acc.at BY <1>1, <1>3, <1>10 DEF Close
  <2>2. acc.left \in Nat /\ acc.at \in Nat BY <1>6 DEF Walked
  <2>3. room \in Nat /\ next.left \in Nat /\ next.left # 0
    BY <1>1, <1>10, <2>1, <2>2 DEF Close
  <2>4. WorkingHours(lo, hi) = from..(d * 24 + Close - 1)
    <3>1. hi \in Nat /\ lo <= hi BY <1>1
    <3>2. \A t : t \in WorkingHours(lo, hi) <=>
                 /\ t \in lo..(hi - 1) /\ WorkingDay(d)
                 /\ d * 24 + Open <= t /\ t < d * 24 + Close
      BY <1>5, <3>1
    <3>3. \A t : t \in WorkingHours(lo, hi) <=> t \in from..(d * 24 + Close - 1)
      BY <1>1, <1>10, <3>2 DEF Close, Open
    <3> QED BY <3>3
  <2>5. Cardinality(WorkingHours(lo, hi)) = room
    <3>1. from \in Int /\ d * 24 + Close - 1 \in Int /\ from <= d * 24 + Close - 1
      BY <1>1, <1>10 DEF Close
    <3>2. Cardinality(from..(d * 24 + Close - 1)) = (d * 24 + Close - 1) - from + 1
      BY <3>1, FS_Interval
    <3> QED BY <1>1, <2>4, <3>2 DEF Close
  <2>6. Cardinality(WorkingHours(start, hi)) = hours - next.left
    <3>1. hi \in Nat /\ lo <= hi BY <1>1
    <3>2. Cardinality(WorkingHours(start, lo)) = hours - acc.left BY <1>6, <1>10 DEF Walked, lo
    <3>3. Cardinality(WorkingHours(start, hi)) = (hours - acc.left) + room
      BY <1>4, <2>5, <3>1, <3>2
    <3> QED BY <2>1, <2>2, <2>3, <3>3
  <2> QED BY <1>2, <2>1, <2>2, <2>3, <2>6 DEF Walked, next, d
<1> QED
  <2>1. acc.left \in Nat /\ room \in Int BY <1>1, <1>6 DEF Walked, Close
  <2> HIDE DEF room
  <2> QED BY <1>7, <1>8, <1>9, <1>10, <2>1 DEF next, d

\* Working time is counted, whatever the days off.
LEMMA WorkIsCounted ==
  ASSUME WalkDays \in Nat \ {0}, NEW start \in Nat, NEW hours \in Nat \ {0}
  PROVE  Counts(start, hours)
<1> DEFINE walk == Walk(start, hours)
           G == {n \in Nat : Walked(start, hours, n, walk[n])}
<1>1. /\ walk[0] = [left |-> hours, at |-> start]
      /\ \A n \in 1..WalkDays : walk[n] = WorkOf(walk[n - 1], (start \div 24) + n - 1, start)
  BY WalkSteps
<1> HIDE DEF walk
<1>2. 0 \in G
  <2>1. WorkingHours(start, Reached(start, 0)) = {} BY DEF WorkingHours, Reached
  <2>2. Cardinality(WorkingHours(start, Reached(start, 0))) = 0 BY <2>1, NoHours
  <2> QED BY <1>1, <2>2 DEF Walked
<1>3. ASSUME NEW n \in 1..WalkDays, n - 1 \in G PROVE n \in G
  <2>1. n - 1 \in Nat /\ Walked(start, hours, n - 1, walk[n - 1]) BY <1>3
  <2>2. Walked(start, hours, (n - 1) + 1, WorkOf(walk[n - 1], (start \div 24) + (n - 1), start))
    BY <2>1, WalkOn
  <2>3. (n - 1) + 1 = n /\ (start \div 24) + (n - 1) = (start \div 24) + n - 1
    <3>1. start \div 24 \in Int OBVIOUS
    <3> DEFINE s == start \div 24
    <3> HIDE DEF s
    <3> QED BY <3>1 DEF s
  <2>4. walk[n] = WorkOf(walk[n - 1], (start \div 24) + n - 1, start) BY <1>1
  <2>5. Walked(start, hours, n, walk[n]) BY <2>2, <2>3, <2>4
  <2> QED BY <2>5
<1>4. Walked(start, hours, WalkDays, walk[WalkDays])
  <2>1. \A n \in 1..WalkDays : n - 1 \in G => n \in G BY <1>3
  <2>2. WalkDays \in G
    <3> HIDE DEF G
    <3> QED BY <1>2, <2>1, Induction
  <2> QED BY <2>2
<1>5. CASE walk[WalkDays].left = 0
  <2>1. AddWorkingTime(start, hours) = walk[WalkDays].at BY <1>5 DEF AddWorkingTime, walk
  <2> QED BY <1>4, <1>5, <2>1 DEF Counts, Walked, walk
<1>6. CASE walk[WalkDays].left # 0
  <2>1. Reached(start, WalkDays) = ((start \div 24) + WalkDays) * 24 BY DEF Reached
  <2> DEFINE counted == Cardinality(WorkingHours(start, ((start \div 24) + WalkDays) * 24))
  <2>2. counted = hours - walk[WalkDays].left /\ walk[WalkDays].left \in Nat
    BY <1>4, <1>6, <2>1 DEF Walked
  <2> HIDE DEF counted
  <2>3. counted < hours BY <1>6, <2>2
  <2> QED BY <1>6, <2>3 DEF Counts, walk, counted
<1> QED BY <1>5, <1>6

\* Working time is counted on every day of any calendar.
LEMMA TimeCounts ==
  ASSUME WalkDays \in Nat \ {0}, PeriodsInv PROVE WorkingTimeCounts
<1> SUFFICES ASSUME NEW hour \in {3, 9, 17, 20}, NEW hours \in {1, 8, 9, 20}
             PROVE  Counts(now * 24 + hour, hours)
  BY DEF WorkingTimeCounts
<1>1. now * 24 + hour \in Nat /\ hours \in Nat \ {0} BY DEF PeriodsInv
<1> QED BY <1>1, WorkIsCounted

\* What the constants of the calendar are: it begins two years or more after day 0, a
\* year begins with a month, and addWorkingTime looks at one day at least.
CalendarIsSound ==
  /\ FirstDays \subseteq {d \in Nat : d >= 731}
  /\ FiscalStarts \subseteq 1..12
  /\ WalkDays \in Nat \ {0}

\* The calendar stays one.
LEMMA CalendarGoesOn == ASSUME CalendarIsSound PROVE PeriodsSpec => []PeriodsInv
<1>1. PeriodsInit => PeriodsInv BY DEF PeriodsInit, PeriodsInv, CalendarIsSound
<1>2. PeriodsInv /\ [PeriodsNext]_periodVars => PeriodsInv'
  BY DEF PeriodsInv, PeriodsNext, NextDay, periodVars
<1> QED BY <1>1, <1>2, PTL DEF PeriodsSpec

\* On every day from then on, with any fiscal year and any days off: the keys that reports
\* group by split the days, periods follow each other, and working time is counted.
THEOREM PeriodsAreAlwaysRight ==
  ASSUME CalendarIsSound PROVE PeriodsSpec => []PeriodsFit /\ []PeriodsAreRight
<1>1. PeriodsInv => PeriodsFit
  BY KeysSplit, Follow, TimeCounts DEF PeriodsFit, CalendarIsSound
<1>2. PeriodsFit => PeriodsAreRight BY DEF PeriodsAreRight
<1> QED BY <1>1, <1>2, CalendarGoesOn, PTL
=============================================================================
