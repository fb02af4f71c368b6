----------------------- MODULE ConfigPublish_proofs -----------------------
(***************************************************************************)
(* Theorems about ConfigPublish for any packs, branches, fields, replicas, *)
(* requests and bounds.                                                    *)
(***************************************************************************)
EXTENDS ConfigPublish, ConfigReads, Numbering, SequenceTheorems, TLAPS

-----------------------------------------------------------------------------
(* ConfigPublish *)

-----------------------------------------------------------------------------
(* Lemmas about the layers of a configuration                              *)

\* The empty configuration is one.
LEMMA EmptyType == Empty \in Configs
BY DEF Empty, Configs, Layers, NoFields

\* An item that is archived is the same item otherwise.
LEMMA ArchivedItem ==
  ASSUME NEW item \in Items
  PROVE  /\ Archived(item) \in Items
         /\ Archived(item).type = item.type
         /\ Archived(item).locked = item.locked
         /\ Archived(item).archived
BY DEF Archived, Items

\* What the packs define are items.
LEMMA PacksType ==
  ASSUME NEW c \in Configs
  PROVE  PackLayer(c) \in Layers /\ PacksOf(c) \in Layers
<1>1. ASSUME NEW f \in Fields PROVE PackLayer(c)[f] \in Items \cup {None}
  BY PackAssumption DEF PackLayer, Configs, Layers
<1>2. PackLayer(c) \in Layers BY <1>1 DEF PackLayer, Layers
<1>3. c.retired \in Layers BY DEF Configs
<1>4. ASSUME NEW f \in Fields PROVE PacksOf(c)[f] \in Items \cup {None}
  BY <1>1, <1>3 DEF PacksOf, Over, Has, Layers
<1>5. PacksOf(c) \in Layers BY <1>4 DEF PacksOf, Over, Layers
<1> QED BY <1>2, <1>5

\* Retiring published content keeps the types.
LEMMA RetireType ==
  ASSUME NEW c \in Configs, NEW published \in Configs
  PROVE  Retire(c, published) \in Configs
<1> DEFINE new == [f \in Fields |->
             IF Has(PacksOf(published), f) /\ ~Has(PacksOf(c), f)
             THEN Archived(PacksOf(published)[f]) ELSE c.retired[f]]
<1>1. ASSUME NEW f \in Fields PROVE new[f] \in Items \cup {None}
  <2>1. PacksOf(published)[f] \in Items \cup {None} BY PacksType DEF Layers
  <2>2. Has(PacksOf(published), f) => Archived(PacksOf(published)[f]) \in Items
    BY <2>1, ArchivedItem DEF Has
  <2>3. c.retired[f] \in Items \cup {None} BY DEF Configs, Layers
  <2> QED BY <2>2, <2>3
<1>2. new \in Layers BY <1>1 DEF Layers
<1>3. Retire(c, published) = [c EXCEPT !.retired = new] BY DEF Retire, Configs
<1> HIDE DEF new
<1> QED BY <1>2, <1>3 DEF Configs

\* Installing a pack and taking its items keeps the types.
LEMMA InstallType ==
  ASSUME NEW c \in Configs, NEW m \in Manifests, NEW published \in Configs, NEW taken
  PROVE  InstallPack(c, m, published, taken) \in Configs
<1> DEFINE d == [c EXCEPT !.packs[m.pack] = m]
           new == [f \in Fields |-> IF f \in taken THEN None ELSE d.scopes[Company][f]]
<1>1. d \in Configs BY PackAssumption DEF Configs
<1>2. new \in Layers BY <1>1 DEF Layers, Configs, Scopes
<1>3. DropFromCompany(d, taken) = [d EXCEPT !.scopes[Company] = new]
  BY <1>1 DEF DropFromCompany, Configs, Scopes
<1>4. DropFromCompany(d, taken) \in Configs
  <2> HIDE DEF d, new
  <2> QED BY <1>1, <1>2, <1>3 DEF Configs, Scopes
<1> QED BY <1>4, RetireType DEF InstallPack

\* Removing a pack keeps the types.
LEMMA RemoveType ==
  ASSUME NEW c \in Configs, NEW p \in Packs, NEW published \in Configs
  PROVE  RemovePack(c, p, published) \in Configs
<1>1. [c EXCEPT !.packs[p] = None] \in Configs BY DEF Configs
<1> QED BY <1>1, RetireType DEF RemovePack

\* The layers of a target with what it lacks of the current version archived.
KeptLayer(to, from) ==
  [f \in Fields |-> IF Has(from, f) /\ ~Has(to, f) THEN Archived(from[f]) ELSE to[f]]

RetiredLayer(target, current) ==
  [f \in Fields |-> IF Has(PacksOf(current), f) /\ ~Has(PacksOf(target), f)
                    THEN Archived(PacksOf(current)[f]) ELSE target.retired[f]]

\* Each of its layers.
LEMMA LeftoversParts ==
  ASSUME NEW target \in Configs, NEW current \in Configs,
         NEW to, to = WithArchivedLeftovers(target, current)
  PROVE  /\ to \in Configs
         /\ to.packs = target.packs
         /\ to.retired = RetiredLayer(target, current)
         /\ \A s \in Scopes : to.scopes[s] = KeptLayer(target.scopes[s], current.scopes[s])
<1> DEFINE retired == RetiredLayer(target, current)
           scopes == [s \in Scopes |-> KeptLayer(target.scopes[s], current.scopes[s])]
<1>1. ASSUME NEW f \in Fields PROVE retired[f] \in Items \cup {None}
  <2>1. PacksOf(current)[f] \in Items \cup {None} BY PacksType DEF Layers
  <2>2. Has(PacksOf(current), f) => Archived(PacksOf(current)[f]) \in Items
    BY <2>1, ArchivedItem DEF Has
  <2>3. target.retired[f] \in Items \cup {None} BY DEF Configs, Layers
  <2> QED BY <2>2, <2>3 DEF RetiredLayer
<1>2. retired \in Layers BY <1>1 DEF Layers, RetiredLayer
<1>3. ASSUME NEW s \in Scopes PROVE scopes[s] \in Layers
  <2>1. ASSUME NEW f \in Fields PROVE scopes[s][f] \in Items \cup {None}
    <3>1. /\ current.scopes[s][f] \in Items \cup {None}
          /\ target.scopes[s][f] \in Items \cup {None}
      BY DEF Configs, Layers
    <3>2. Has(current.scopes[s], f) => Archived(current.scopes[s][f]) \in Items
      BY <3>1, ArchivedItem DEF Has
    <3> QED BY <3>1, <3>2 DEF KeptLayer
  <2> QED BY <2>1 DEF Layers, KeptLayer
<1>4. scopes \in [Scopes -> Layers] BY <1>3
<1>5. to = [target EXCEPT !.retired = retired, !.scopes = scopes]
  BY DEF WithArchivedLeftovers, Configs, RetiredLayer, KeptLayer
<1>6. \A s \in Scopes : scopes[s] = KeptLayer(target.scopes[s], current.scopes[s]) OBVIOUS
<1> HIDE DEF retired, scopes
<1>7. to \in Configs /\ to.packs = target.packs /\ to.retired = retired /\ to.scopes = scopes
  BY <1>2, <1>4, <1>5 DEF Configs
<1> QED BY <1>6, <1>7 DEF retired

-----------------------------------------------------------------------------
(* Requests                                                                *)

Changes ==
  [kind : {"field"}, scope : Scopes, field : EditFields, item : EditItems]
  \cup [kind : {"branch"}, scope : Branches]
  \cup [kind : {"install"}, manifest : Manifests, taken : SUBSET EditFields]
  \cup [kind : {"uninstall"}, pack : Packs]

HasParts(call, parts) == parts \subseteq DOMAIN call

\* The configuration a request read: nothing else is saved under its revision.
HasDraft(call, d) ==
  /\ HasParts(call, {"config", "rev"})
  /\ call.config \in Configs
  /\ call.rev \in 0..d.rev
  /\ call.rev = d.rev => call.config = d.config

\* What a request relies on when the draft is d and there are n versions.
EditOK(call, d, n) ==
  /\ call.op = "edit"
  /\ HasParts(call, {"op", "pc", "change", "tries"})
  /\ call.pc \in {"draft", "write"}
  /\ call.change \in Changes
  /\ call.pc = "write" => HasDraft(call, d)
  /\ call.change.kind \in {"install", "uninstall"} =>
       HasParts(call, {"seen"}) /\ call.seen \in 0..n

PublishOK(call, n) ==
  /\ call.op = "publish"
  /\ HasParts(call, {"op", "pc", "at", "config"})
  /\ call.pc \in {"latest", "write"}
  /\ call.at \in Replicas
  /\ call.config \in Configs
  /\ call.pc = "write" => HasParts(call, {"seen"}) /\ call.seen \in 0..n

RollbackOK(call, n) ==
  /\ call.op = "rollback"
  /\ HasParts(call, {"op", "pc", "at", "target", "seen"})
  /\ call.pc = "write"
  /\ call.at \in Replicas
  /\ call.target \in 0..n
  /\ call.seen \in 0..n

DiscardOK(call, n) ==
  /\ call.op = "discard"
  /\ HasParts(call, {"op", "pc", "seen"})
  /\ call.pc = "write"
  /\ call.seen \in 0..n

CallOK(call, d, n) ==
  call = Idle \/ EditOK(call, d, n) \/ PublishOK(call, n) \/ RollbackOK(call, n)
    \/ DiscardOK(call, n)

Drafts == [config : Configs, rev : Nat]
Remembered(n) == [Replicas -> (0..n) \cup {None}]

\* The inductive invariant: types, and what each request relies on.
PublishInv ==
  /\ versions \in Seq(Configs)
  /\ draft \in Drafts
  /\ latest \in Remembered(Len(versions))
  /\ calls = [a \in Admins |-> calls[a]]
  /\ \A a \in Admins : CallOK(calls[a], draft, Len(versions))

\* Later drafts and more versions take nothing from a request.
LEMMA CallKept ==
  ASSUME NEW c, NEW d \in Drafts, NEW e \in Drafts, NEW n \in Nat, NEW m \in Nat,
         CallOK(c, d, n), n <= m, e = d \/ d.rev < e.rev
  PROVE  CallOK(c, e, m)
<1>1. HasDraft(c, d) => HasDraft(c, e) BY DEF HasDraft, Drafts
<1>2. \A k \in 0..n : k \in 0..m OBVIOUS
<1>3. EditOK(c, d, n) => EditOK(c, e, m) BY <1>1, <1>2 DEF EditOK
<1>4. PublishOK(c, n) => PublishOK(c, m) BY <1>2 DEF PublishOK
<1>5. RollbackOK(c, n) => RollbackOK(c, m) BY <1>2 DEF RollbackOK
<1>6. DiscardOK(c, n) => DiscardOK(c, m) BY <1>2 DEF DiscardOK
<1> QED BY <1>3, <1>4, <1>5, <1>6 DEF CallOK

\* A step of one request that leaves it sound leaves all sound.
LEMMA StepOfOne ==
  ASSUME PublishInv, NEW a \in Admins, NEW c, Go(a, c),
         versions' \in Seq(Configs), draft' \in Drafts,
         latest' \in Remembered(Len(versions')),
         Len(versions) <= Len(versions'),
         draft' = draft \/ draft.rev < draft'.rev,
         CallOK(c, draft', Len(versions'))
  PROVE  PublishInv'
<1>1. calls' = [calls EXCEPT ![a] = c] BY DEF Go
<1>2. calls' = [b \in Admins |-> calls'[b]] BY <1>1 DEF PublishInv
<1>3. ASSUME NEW b \in Admins PROVE CallOK(calls'[b], draft', Len(versions'))
  <2>1. CASE b = a BY <1>1, <2>1 DEF PublishInv
  <2>2. CASE b # a
    <3>1. calls'[b] = calls[b] BY <1>1, <2>2 DEF PublishInv
    <3>2. CallOK(calls[b], draft, Len(versions)) BY DEF PublishInv
    <3>3. Len(versions) \in Nat /\ Len(versions') \in Nat /\ draft \in Drafts BY DEF PublishInv
    <3> QED BY <3>1, <3>2, <3>3, CallKept
  <2> QED BY <2>1, <2>2
<1> QED BY <1>2, <1>3 DEF PublishInv

\* The versions that exist are configurations.
LEMMA VersionType ==
  ASSUME versions \in Seq(Configs), NEW n \in 0..Len(versions)
  PROVE  Version(n) \in Configs
BY EmptyType DEF Version

\* What a request learns from its reads.
Answer(pc, n) == [pc |-> pc, seen |-> n]
Load(pc) == [pc |-> pc, config |-> draft.config, rev |-> draft.rev]
Again(n) == [pc |-> "draft", tries |-> n]

LEMMA AnswerParts ==
  ASSUME NEW pc, NEW n
  PROVE  /\ DOMAIN Answer(pc, n) = {"pc", "seen"}
         /\ Answer(pc, n)["pc"] = pc /\ Answer(pc, n)["seen"] = n
BY DEF Answer

LEMMA LoadParts ==
  ASSUME NEW pc
  PROVE  /\ DOMAIN Load(pc) = {"pc", "config", "rev"}
         /\ Load(pc)["pc"] = pc /\ Load(pc)["config"] = draft.config
         /\ Load(pc)["rev"] = draft.rev
BY DEF Load

LEMMA AgainParts ==
  ASSUME NEW n
  PROVE  /\ DOMAIN Again(n) = {"pc", "tries"}
         /\ Again(n)["pc"] = "draft" /\ Again(n)["tries"] = n
BY DEF Again

-----------------------------------------------------------------------------
(* Steps                                                                   *)

\* A refused request is over.
LEMMA RefuseStep ==
  ASSUME PublishInv, NEW a \in Admins, Refuse(a) PROVE PublishInv'
BY StepOfOne DEF PublishInv, Refuse, CallOK

\* A request that asks for the newest version goes on with it.
LEMMA AskStep ==
  ASSUME PublishInv, NEW a \in Admins, NEW r \in Replicas, NEW call, NEW pc,
         AskLatest(a, r, call, pc),
         ASSUME NEW n \in 0..Len(versions), NEW c,
                c = Further(call, Answer(pc, n))
         PROVE  CallOK(c, draft, Len(versions))
  PROVE  PublishInv'
<1> DEFINE n == Newest(r)
           c == Further(call, Answer(pc, n))
<1>1. n \in 0..Len(versions) BY DEF PublishInv, Newest, Remembered
<1>2. CallOK(c, draft, Len(versions)) BY <1>1
<1>3. latest' \in Remembered(Len(versions)) BY <1>1 DEF PublishInv, AskLatest, Remembered
<1>4. Go(a, c) /\ UNCHANGED <<versions, draft>> BY DEF AskLatest, Answer
<1> HIDE DEF n, c
<1> QED BY <1>2, <1>3, <1>4, StepOfOne DEF PublishInv

\* A request that loads the draft goes on with it.
LEMMA LoadStep ==
  ASSUME PublishInv, NEW a \in Admins, NEW call, NEW pc,
         ReadDraft(a, call, pc),
         ASSUME NEW c,
                c = Further(call, Load(pc))
         PROVE  CallOK(c, draft, Len(versions))
  PROVE  PublishInv'
<1> DEFINE c == Further(call, Load(pc))
<1>1. CallOK(c, draft, Len(versions)) OBVIOUS
<1>2. Go(a, c) /\ UNCHANGED <<versions, draft, latest>> BY DEF ReadDraft, Load
<1> HIDE DEF c
<1> QED BY <1>1, <1>2, StepOfOne DEF PublishInv

\* A change that has been loaded may be written.
LEMMA LoadedEdit ==
  ASSUME PublishInv, NEW call, call.op = "edit", HasParts(call, {"op", "change", "tries"}),
         call.change \in Changes,
         call.change.kind \in {"install", "uninstall"} =>
           HasParts(call, {"seen"}) /\ call.seen \in 0..Len(versions),
         NEW c, c = Further(call, Load("write"))
  PROVE  CallOK(c, draft, Len(versions))
<1>1. /\ DOMAIN c = DOMAIN call \cup {"pc", "config", "rev"}
      /\ c.pc = "write" /\ c.config = draft.config /\ c.rev = draft.rev
      /\ c.op = "edit" /\ c.change = call.change
      /\ HasParts(call, {"seen"}) => c.seen = call.seen
  BY LoadParts DEF Further, HasParts
<1>2. HasDraft(c, draft) BY <1>1 DEF HasDraft, HasParts, PublishInv, Drafts
<1>3. EditOK(c, draft, Len(versions)) BY <1>1, <1>2 DEF EditOK, HasParts
<1> QED BY <1>3 DEF CallOK

\* A request that begins with loading the draft: an edit or the removal of an override.
LEMMA BeginEdit ==
  ASSUME PublishInv, NEW a \in Admins, NEW change \in Changes, NEW tries,
         change.kind \notin {"install", "uninstall"},
         ReadDraft(a, Edit(change, tries), "write")
  PROVE  PublishInv'
<1> DEFINE call == Edit(change, tries)
<1>1. call.op = "edit" /\ call.change = change /\ HasParts(call, {"op", "change", "tries"})
  BY DEF Edit, HasParts
<1> HIDE DEF call
<1>2. ASSUME NEW c, c = Further(call, Load("write"))
      PROVE  CallOK(c, draft, Len(versions))
  BY <1>1, <1>2, LoadedEdit
<1>3. ReadDraft(a, call, "write") BY DEF call
<1> QED BY <1>2, <1>3, LoadStep

\* A pack is put in or taken out: the newest version is asked for first.
LEMMA BeginPack ==
  ASSUME PublishInv, NEW a \in Admins, NEW r \in Replicas, NEW change \in Changes,
         AskLatest(a, r, Edit(change, 1), "draft")
  PROVE  PublishInv'
<1> DEFINE call == Edit(change, 1)
<1>1. call.op = "edit" /\ call.change = change /\ HasParts(call, {"op", "change", "tries"})
  BY DEF Edit, HasParts
<1>2. AskLatest(a, r, call, "draft") OBVIOUS
<1> HIDE DEF call
<1>3. ASSUME NEW n \in 0..Len(versions), NEW c,
             c = Further(call, Answer("draft", n))
      PROVE  CallOK(c, draft, Len(versions))
  <2>1. /\ DOMAIN c = DOMAIN call \cup {"pc", "seen"} /\ c.pc = "draft" /\ c.seen = n
        /\ c.op = "edit" /\ c.change = change
    BY <1>1, <1>3, AnswerParts DEF Further, HasParts
  <2>2. EditOK(c, draft, Len(versions)) BY <1>1, <2>1 DEF EditOK, HasParts
  <2> QED BY <2>2 DEF CallOK
<1> QED BY <1>2, <1>3, AskStep

\* A publish begins with loading the draft.
LEMMA BeginPublish ==
  ASSUME PublishInv, NEW a \in Admins, NEW r \in Replicas,
         ReadDraft(a, [op |-> "publish", at |-> r], "latest")
  PROVE  PublishInv'
<1> DEFINE call == [op |-> "publish", at |-> r]
<1>1. call.op = "publish" /\ call.at = r /\ HasParts(call, {"op"}) /\ HasParts(call, {"at"})
  BY DEF HasParts
<1>2. ReadDraft(a, call, "latest") OBVIOUS
<1> HIDE DEF call
<1>3. ASSUME NEW c,
             c = Further(call, Load("latest"))
      PROVE  CallOK(c, draft, Len(versions))
  <2>1. /\ DOMAIN c = DOMAIN call \cup {"pc", "config", "rev"}
        /\ c.pc = "latest" /\ c.config = draft.config /\ c.op = "publish" /\ c.at = r
    BY <1>1, <1>3, LoadParts DEF Further, HasParts
  <2>2. PublishOK(c, Len(versions))
    BY <1>1, <2>1 DEF PublishOK, HasParts, PublishInv, Drafts
  <2> QED BY <2>2 DEF CallOK
<1> QED BY <1>2, <1>3, LoadStep

\* A rollback begins with asking for the newest version.
LEMMA BeginRollback ==
  ASSUME PublishInv, NEW a \in Admins, NEW r \in Replicas, NEW t \in 1..Len(versions),
         AskLatest(a, r, [op |-> "rollback", at |-> r, target |-> t], "write")
  PROVE  PublishInv'
<1> DEFINE call == [op |-> "rollback", at |-> r, target |-> t]
<1>1. /\ call.op = "rollback" /\ call.at = r /\ call.target = t
      /\ HasParts(call, {"op"}) /\ HasParts(call, {"at"}) /\ HasParts(call, {"target"})
  BY DEF HasParts
<1>2. AskLatest(a, r, call, "write") OBVIOUS
<1> HIDE DEF call
<1>3. ASSUME NEW n \in 0..Len(versions), NEW c,
             c = Further(call, Answer("write", n))
      PROVE  CallOK(c, draft, Len(versions))
  <2>1. /\ DOMAIN c = DOMAIN call \cup {"pc", "seen"} /\ c.pc = "write" /\ c.seen = n
        /\ c.op = "rollback" /\ c.at = r /\ c.target = t
    BY <1>1, <1>3, AnswerParts DEF Further, HasParts
  <2>2. Len(versions) \in Nat BY DEF PublishInv
  <2>3. RollbackOK(c, Len(versions)) BY <1>1, <2>1, <2>2 DEF RollbackOK, HasParts
  <2> QED BY <2>3 DEF CallOK
<1> QED BY <1>2, <1>3, AskStep

\* So does a discard.
LEMMA BeginDiscard ==
  ASSUME PublishInv, NEW a \in Admins, NEW r \in Replicas,
         AskLatest(a, r, [op |-> "discard"], "write")
  PROVE  PublishInv'
<1> DEFINE call == [op |-> "discard"]
<1>1. call.op = "discard" /\ HasParts(call, {"op"}) BY DEF HasParts
<1>2. AskLatest(a, r, call, "write") OBVIOUS
<1> HIDE DEF call
<1>3. ASSUME NEW n \in 0..Len(versions), NEW c,
             c = Further(call, Answer("write", n))
      PROVE  CallOK(c, draft, Len(versions))
  <2>1. /\ DOMAIN c = DOMAIN call \cup {"pc", "seen"} /\ c.pc = "write" /\ c.seen = n
        /\ c.op = "discard"
    BY <1>1, <1>3, AnswerParts DEF Further, HasParts
  <2>2. DiscardOK(c, Len(versions)) BY <1>1, <2>1 DEF DiscardOK, HasParts
  <2> QED BY <2>2 DEF CallOK
<1> QED BY <1>2, <1>3, AskStep

\* The second read of a publish or of a change.
LEMMA ReadOnStep ==
  ASSUME PublishInv, NEW a \in Admins, ReadOn(a) PROVE PublishInv'
<1> DEFINE call == calls[a]
<1>1. CallOK(call, draft, Len(versions)) BY DEF PublishInv
<1>2. CASE call.pc = "latest" /\ AskLatest(a, call.at, call, "write")
  <2>1. PublishOK(call, Len(versions))
    BY <1>1, <1>2 DEF CallOK, EditOK, RollbackOK, DiscardOK, Idle
  <2> HIDE DEF call
  <2>2. ASSUME NEW n \in 0..Len(versions), NEW c,
               c = Further(call, Answer("write", n))
        PROVE  CallOK(c, draft, Len(versions))
    <3>1. /\ HasParts(call, {"op"}) /\ HasParts(call, {"at"}) /\ HasParts(call, {"config"})
          /\ call.op = "publish"
      BY <2>1 DEF PublishOK, HasParts
    <3>2. /\ DOMAIN c = DOMAIN call \cup {"pc", "seen"} /\ c.pc = "write" /\ c.seen = n
          /\ c.op = "publish" /\ c.at = call.at /\ c.config = call.config
      BY <2>2, <3>1, AnswerParts DEF Further, HasParts
    <3>3. PublishOK(c, Len(versions)) BY <2>1, <3>2 DEF PublishOK, HasParts
    <3> QED BY <3>3 DEF CallOK
  <2>3. call.at \in Replicas BY <2>1 DEF PublishOK
  <2> QED BY <1>2, <2>2, <2>3, AskStep
<1>3. CASE call.pc = "draft" /\ ReadDraft(a, call, "write")
  <2>1. EditOK(call, draft, Len(versions))
    BY <1>1, <1>3 DEF CallOK, PublishOK, RollbackOK, DiscardOK, Idle
  <2> HIDE DEF call
  <2>2. ASSUME NEW c,
               c = Further(call, Load("write"))
        PROVE  CallOK(c, draft, Len(versions))
    BY <2>1, <2>2, LoadedEdit DEF EditOK, HasParts
  <2> QED BY <1>3, <2>2, LoadStep
<1> QED BY <1>2, <1>3 DEF ReadOn

\* What a change makes of the draft it read is a configuration.
LEMMA ChangedType ==
  ASSUME PublishInv, NEW call, EditOK(call, draft, Len(versions)), call.pc = "write"
  PROVE  Changed(call) \in Configs
<1>1. call.config \in Configs BY DEF EditOK, HasDraft
<1>2. call.change \in Changes BY DEF EditOK
<1>3. CASE call.change.kind = "field"
  <2>1. call.change \in [kind : {"field"}, scope : Scopes, field : EditFields, item : EditItems]
    BY <1>2, <1>3 DEF Changes
  <2>2. call.change.item \in Items \cup {None} BY <2>1, PublishAssumption
  <2> QED BY <1>1, <1>3, <2>1, <2>2, PublishAssumption DEF Changed, Configs, Layers
<1>4. CASE call.change.kind = "branch"
  <2>1. call.change.scope \in Scopes BY <1>2, <1>4 DEF Changes, Scopes
  <2>2. NoFields \in Layers BY DEF NoFields, Layers
  <2>3. Changed(call) = [call.config EXCEPT !.scopes[call.change.scope] = NoFields]
    BY <1>4 DEF Changed
  <2> QED BY <1>1, <2>1, <2>2, <2>3 DEF Configs
<1>5. CASE call.change.kind = "install"
  <2>1. call.change.manifest \in Manifests
    BY <1>2, <1>5 DEF Changes
  <2>2. Changed(call) = InstallPack(call.config, call.change.manifest, Version(call.seen),
                                    call.change.taken)
    BY <1>5 DEF Changed
  <2>3. Version(call.seen) \in Configs BY <1>5, VersionType DEF PublishInv, EditOK
  <2> QED BY <1>1, <2>1, <2>2, <2>3, InstallType
<1>6. CASE call.change.kind = "uninstall"
  <2>1. call.change.pack \in Packs BY <1>2, <1>6 DEF Changes
  <2>2. Changed(call) = RemovePack(call.config, call.change.pack, Version(call.seen))
    BY <1>6 DEF Changed
  <2>3. Version(call.seen) \in Configs BY <1>6, VersionType DEF PublishInv, EditOK
  <2> QED BY <1>1, <2>1, <2>2, <2>3, RemoveType
<1> QED BY <1>2, <1>3, <1>4, <1>5, <1>6 DEF Changes

\* Writing a change: it is saved, tried again or given up.
LEMMA WriteDraftStep ==
  ASSUME PublishInv, NEW a \in Admins, WriteDraft(a) PROVE PublishInv'
<1> DEFINE call == calls[a]
<1>1. CallOK(call, draft, Len(versions)) BY DEF PublishInv
<1>2. call.op = "edit" /\ call.pc = "write" /\ UNCHANGED <<versions, latest>>
  BY DEF WriteDraft
<1>3. EditOK(call, draft, Len(versions))
  BY <1>1, <1>2 DEF CallOK, PublishOK, RollbackOK, DiscardOK, Idle
<1>4. ASSUME draft' = [config |-> Changed(call), rev |-> draft.rev + 1], Go(a, Idle)
      PROVE  PublishInv'
  <2>1. Changed(call) \in Configs BY <1>2, <1>3, ChangedType
  <2>2. draft' \in Drafts /\ draft.rev < draft'.rev
    BY <1>4, <2>1 DEF PublishInv, Drafts
  <2>3. CallOK(Idle, draft', Len(versions')) BY DEF CallOK
  <2> QED BY <1>2, <1>4, <2>2, <2>3, StepOfOne DEF PublishInv
<1>5. ASSUME Go(a, Further(call, [pc |-> "draft", tries |-> call.tries + 1])),
             UNCHANGED draft
      PROVE  PublishInv'
  <2> DEFINE c == Further(call, Again(call.tries + 1))
  <2>1. /\ DOMAIN c = DOMAIN call \cup {"pc", "tries"} /\ c.pc = "draft"
        /\ c.op = "edit" /\ c.change = call.change
        /\ HasParts(call, {"seen"}) => c.seen = call.seen
    BY <1>2, <1>3, AgainParts DEF Further, HasParts, EditOK
  <2>2. Go(a, c) BY <1>5 DEF Again
  <2> HIDE DEF c
  <2>3. EditOK(c, draft, Len(versions)) BY <1>3, <2>1 DEF EditOK, HasParts
  <2>4. CallOK(c, draft', Len(versions')) BY <1>2, <1>5, <2>3 DEF CallOK
  <2> QED BY <1>2, <1>5, <2>2, <2>4, StepOfOne DEF PublishInv
<1>6. ASSUME Go(a, Idle), UNCHANGED draft PROVE PublishInv'
  BY <1>2, <1>6, StepOfOne DEF PublishInv, CallOK
<1> QED BY <1>4, <1>5, <1>6 DEF WriteDraft

\* A discard saves a published version as the draft.
LEMMA DiscardStep ==
  ASSUME PublishInv, NEW a \in Admins, WriteDiscard(a) PROVE PublishInv'
<1>1. calls[a].op = "discard" /\ calls[a].pc = "write" /\ Go(a, Idle)
      /\ UNCHANGED <<versions, latest>>
      /\ draft' = [config |-> Version(calls[a].seen), rev |-> draft.rev + 1]
  BY DEF WriteDiscard, DiscardTo
<1>2. DiscardOK(calls[a], Len(versions))
  BY <1>1 DEF PublishInv, CallOK, EditOK, PublishOK, RollbackOK, Idle
<1>3. Version(calls[a].seen) \in Configs BY <1>2, VersionType DEF PublishInv, DiscardOK
<1>4. draft' \in Drafts /\ draft.rev < draft'.rev BY <1>1, <1>3 DEF PublishInv, Drafts
<1>5. CallOK(Idle, draft', Len(versions')) BY DEF CallOK
<1> QED BY <1>1, <1>4, <1>5, StepOfOne DEF PublishInv

\* What SaveVersion may do: nothing, or append a version that keeps what the newest has.
LEMMA SaveParts ==
  ASSUME PublishInv, NEW a \in Admins, SaveVersion(a)
  PROVE  \/ Refuse(a)
         \/ \E config \in Configs :
              /\ Publishable(config, Version(Len(versions)))
              /\ versions' = Append(versions, config)
              /\ draft' = [config |-> config, rev |-> draft.rev + 1]
              /\ Go(a, Idle)
              /\ latest' \in Remembered(Len(versions))
<1> DEFINE call == calls[a]
           config == ToPublish(call)
<1>1. call.op \in {"publish", "rollback"} /\ call.pc = "write" BY DEF SaveVersion, SaveIf
<1>2. PublishOK(call, Len(versions)) \/ RollbackOK(call, Len(versions))
  BY <1>1 DEF PublishInv, CallOK, EditOK, DiscardOK, Idle
<1>3. call.seen \in 0..Len(versions) BY <1>1, <1>2 DEF PublishOK, RollbackOK
<1>4. config \in Configs
  <2>1. CASE call.op = "publish"
    BY <1>2, <2>1 DEF PublishOK, RollbackOK, ToPublish
  <2>2. CASE call.op # "publish"
    <3>1. call.target \in 0..Len(versions) BY <1>2, <2>2 DEF PublishOK, RollbackOK
    <3>2. Version(call.target) \in Configs /\ Version(call.seen) \in Configs
      BY <1>3, <3>1, VersionType DEF PublishInv
    <3> QED BY <2>2, <3>2, LeftoversParts DEF ToPublish
  <2> QED BY <2>1, <2>2
<1>5. ASSUME /\ Publishable(config, Version(call.seen))
             /\ call.seen + 1 = Len(versions) + 1
             /\ versions' = Append(versions, config)
             /\ draft' = [config |-> config, rev |-> draft.rev + 1]
             /\ latest' = [latest EXCEPT ![call.at] = None]
             /\ Go(a, Idle)
      PROVE  /\ Publishable(config, Version(Len(versions)))
             /\ latest' \in Remembered(Len(versions))
  <2>1. call.seen = Len(versions) BY <1>3, <1>5 DEF PublishInv
  <2>2. latest' \in Remembered(Len(versions)) BY <1>5 DEF PublishInv, Remembered
  <2> QED BY <1>5, <2>1, <2>2
<1>6. \/ Refuse(a)
      \/ /\ Publishable(config, Version(call.seen))
         /\ call.seen + 1 = Len(versions) + 1
         /\ versions' = Append(versions, config)
         /\ draft' = [config |-> config, rev |-> draft.rev + 1]
         /\ latest' = [latest EXCEPT ![call.at] = None]
         /\ Go(a, Idle)
  BY DEF SaveVersion, SaveIf
<1> HIDE DEF config, call
<1> QED BY <1>4, <1>5, <1>6

LEMMA SaveStep ==
  ASSUME PublishInv, NEW a \in Admins, SaveVersion(a) PROVE PublishInv'
<1>1. CASE Refuse(a) BY <1>1, RefuseStep
<1>2. CASE \E config \in Configs :
              /\ Publishable(config, Version(Len(versions)))
              /\ versions' = Append(versions, config)
              /\ draft' = [config |-> config, rev |-> draft.rev + 1]
              /\ Go(a, Idle)
              /\ latest' \in Remembered(Len(versions))
  <2>1. PICK config \in Configs :
              /\ versions' = Append(versions, config)
              /\ draft' = [config |-> config, rev |-> draft.rev + 1]
              /\ Go(a, Idle)
              /\ latest' \in Remembered(Len(versions))
    BY <1>2
  <2>2. /\ versions' \in Seq(Configs) /\ Len(versions') = Len(versions) + 1
        /\ Len(versions) \in Nat
    BY <2>1 DEF PublishInv
  <2>3. draft' \in Drafts /\ draft.rev < draft'.rev BY <2>1 DEF PublishInv, Drafts
  <2>4. latest' \in Remembered(Len(versions')) BY <2>1, <2>2 DEF Remembered
  <2>5. CallOK(Idle, draft', Len(versions')) BY DEF CallOK
  <2> QED BY <2>1, <2>2, <2>3, <2>4, <2>5, StepOfOne
<1> QED BY <1>1, <1>2, SaveParts

\* The initial state and every step keep the invariant.
LEMMA InitSound == Init => PublishInv
<1> SUFFICES ASSUME Init PROVE PublishInv OBVIOUS
<1>1. versions \in Seq(Configs) /\ Len(versions) = 0 BY DEF Init
<1>2. draft \in Drafts BY EmptyType DEF Init, Drafts
<1>3. latest \in Remembered(Len(versions)) BY DEF Init, Remembered
<1>4. calls = [a \in Admins |-> Idle] BY DEF Init
<1> QED BY <1>1, <1>2, <1>3, <1>4 DEF PublishInv, CallOK

LEMMA StepSound == PublishInv /\ [Next]_vars => PublishInv'
<1> SUFFICES ASSUME PublishInv, [Next]_vars PROVE PublishInv' OBVIOUS
<1>1. ASSUME NEW a \in Admins, NEW r \in Replicas, NEW m \in Manifests,
             NEW taken \in SUBSET EditFields, PutPack(a, r, m, taken)
      PROVE  PublishInv'
  <2>1. Install(m, taken) \in Changes BY DEF Install, Changes
  <2> QED BY <1>1, <2>1, BeginPack DEF PutPack
<1>2. ASSUME NEW a \in Admins, NEW r \in Replicas, NEW p \in Packs, TakePack(a, r, p)
      PROVE  PublishInv'
  <2>1. Uninstall(p) \in Changes BY DEF Uninstall, Changes
  <2> QED BY <1>2, <2>1, BeginPack DEF TakePack
<1>3. ASSUME NEW a \in Admins, NEW r \in Replicas, Publish(a, r) PROVE PublishInv'
  BY <1>3, BeginPublish DEF Publish
<1>4. ASSUME NEW a \in Admins, NEW r \in Replicas, NEW n \in 1..Len(versions), Rollback(a, r, n)
      PROVE  PublishInv'
  BY <1>4, BeginRollback DEF Rollback
<1>5. ASSUME NEW a \in Admins, NEW r \in Replicas, DiscardDraft(a, r) PROVE PublishInv'
  BY <1>5, BeginDiscard DEF DiscardDraft
<1>6. ASSUME NEW a \in Admins, NEW s \in Scopes, NEW f \in EditFields, NEW item \in EditItems,
             EditItem(a, s, f, item)
      PROVE  PublishInv'
  <2>1. Field(s, f, item) \in Changes /\ Field(s, f, item).kind = "field"
    BY DEF Field, Changes
  <2> QED BY <1>6, <2>1, BeginEdit DEF EditItem
<1>7. ASSUME NEW a \in Admins, NEW s \in Branches, RemoveOverride(a, s) PROVE PublishInv'
  <2>1. Branch(s) \in Changes /\ Branch(s).kind = "branch" BY DEF Branch, Changes
  <2> QED BY <1>7, <2>1, BeginEdit DEF RemoveOverride
<1>8. ASSUME NEW r \in Replicas, Expires(r) PROVE PublishInv'
  <2>1. latest' \in Remembered(Len(versions)) /\ UNCHANGED <<versions, draft, calls>>
    BY <1>8 DEF Expires, PublishInv, Remembered
  <2> QED BY <2>1 DEF PublishInv
<1>9. CASE UNCHANGED vars BY <1>9 DEF vars, PublishInv
<1>10. ASSUME NEW a \in Admins, Abandon(a) PROVE PublishInv'
  BY <1>10, RefuseStep DEF Abandon
<1> QED BY <1>1, <1>2, <1>3, <1>4, <1>5, <1>6, <1>7, <1>8, <1>9, <1>10, ReadOnStep,
           WriteDraftStep, DiscardStep, SaveStep DEF Next

\* The invariant holds in every behaviour.
THEOREM RequestsAreSound == Spec => []PublishInv
<1> QED BY InitSound, StepSound, PTL DEF Spec

-----------------------------------------------------------------------------
\* A change is computed on the configuration that it replaces: no revision stands for
\* two drafts (config.service.ts, mutate).
THEOREM RevisionsIdentifyDrafts == Spec => []RevIdentifiesDraft
<1>1. PublishInv => RevIdentifiesDraft
  BY DEF PublishInv, RevIdentifiesDraft, CallOK, EditOK, HasDraft, PublishOK, RollbackOK,
         DiscardOK, Idle
<1> QED BY <1>1, RequestsAreSound, PTL

\* Every version keeps what the version before it has, live or archived, on however many
\* replicas requests validate against versions they remember (saveVersion).
THEOREM NothingPublishedIsDropped == Spec => []PublishedStays
<1>1. Init => PublishedStays
  <2> SUFFICES ASSUME Init PROVE PublishedStays OBVIOUS
  <2>1. Len(versions) = 0 BY DEF Init
  <2> QED BY <2>1 DEF PublishedStays
<1>2. PublishInv /\ PublishedStays /\ [Next]_vars => PublishedStays'
  <2> SUFFICES ASSUME PublishInv, PublishedStays, [Next]_vars PROVE PublishedStays' OBVIOUS
  <2>1. CASE versions' = versions BY <2>1 DEF PublishedStays, Version
  <2>2. ASSUME NEW config \in Configs, Publishable(config, Version(Len(versions))),
               versions' = Append(versions, config)
        PROVE  PublishedStays'
    <3>1. Len(versions) \in Nat /\ Len(versions') = Len(versions) + 1
      BY <2>2 DEF PublishInv
    <3>2. ASSUME NEW n \in 0..Len(versions)
          PROVE  (IF n = 0 THEN Empty ELSE versions'[n]) = Version(n)
      BY <2>2, <3>1 DEF Version, PublishInv
    <3>3. versions'[Len(versions) + 1] = config BY <2>2 DEF PublishInv
    <3>4. ASSUME NEW n \in 0..(Len(versions') - 1)
          PROVE  Publishable(IF n + 1 = 0 THEN Empty ELSE versions'[n + 1],
                             IF n = 0 THEN Empty ELSE versions'[n])
      <4>1. CASE n = Len(versions) BY <2>2, <3>1, <3>2, <3>3, <4>1
      <4>2. CASE n # Len(versions)
        <5>1. n \in 0..(Len(versions) - 1) /\ n + 1 \in 0..Len(versions) BY <3>1, <4>2
        <5>2. Publishable(Version(n + 1), Version(n)) BY <5>1 DEF PublishedStays
        <5> QED BY <3>2, <5>1, <5>2
      <4> QED BY <4>1, <4>2
    <3> QED BY <3>4 DEF PublishedStays, Version
  <2>3. ASSUME NEW a \in Admins, SaveVersion(a) PROVE PublishedStays'
    BY <2>1, <2>2, <2>3, SaveParts DEF Refuse
  <2> QED BY <2>1, <2>3 DEF Next, vars, PutPack, TakePack, Publish, Rollback, DiscardDraft,
        EditItem, RemoveOverride, ReadOn, WriteDraft, WriteDiscard, DiscardTo, Abandon,
        Expires, AskLatest, ReadDraft, Refuse
<1> QED BY <1>1, <1>2, RequestsAreSound, InitSound, PTL DEF Spec

-----------------------------------------------------------------------------
(* What can be published                                                   *)

\* Retiring keeps all that the packs of the published configuration have, with types that
\* fit, unless a pack retypes its own.
LEMMA RetireKeepsPacks ==
  ASSUME NEW c \in Configs, NEW published \in Configs, c.retired = published.retired,
         ~Retyped(PackLayer(published), PackLayer(c))
  PROVE  /\ Keeps(PacksOf(published), PacksOf(Retire(c, published)))
         /\ Retire(c, published).scopes = c.scopes
         /\ PackLayer(Retire(c, published)) = PackLayer(c)
<1> DEFINE new == [f \in Fields |->
             IF Has(PacksOf(published), f) /\ ~Has(PacksOf(c), f)
             THEN Archived(PacksOf(published)[f]) ELSE c.retired[f]]
<1>1. Retire(c, published) = [c EXCEPT !.retired = new] BY DEF Retire, Configs
<1>2. /\ Retire(c, published).retired = new
      /\ Retire(c, published).packs = c.packs
      /\ Retire(c, published).scopes = c.scopes
  <2> HIDE DEF new
  <2> QED BY <1>1 DEF Configs
<1>3. PackLayer(Retire(c, published)) = PackLayer(c)
  BY <1>2 DEF PackLayer
<1>4. ASSUME NEW f \in Fields, Has(PacksOf(published), f)
      PROVE  /\ Has(PacksOf(Retire(c, published)), f)
             /\ Fits(PacksOf(published)[f], PacksOf(Retire(c, published))[f])
  <2>1. PacksOf(Retire(c, published)) = Over(PackLayer(c), new)
    BY <1>2, <1>3 DEF PacksOf
  <2>2. /\ PacksOf(published)[f] \in Items
        /\ Archived(PacksOf(published)[f]) \in Items
        /\ Archived(PacksOf(published)[f]).type = PacksOf(published)[f].type
    BY <1>4, PacksType, ArchivedItem DEF Layers, Has
  <2>3. CASE ~Has(PacksOf(c), f)
    <3>1. new[f] = Archived(PacksOf(published)[f]) BY <1>4, <2>3
    <3>2. new[f] # None BY <2>2, <3>1, PackAssumption
    <3>3. PacksOf(Retire(c, published))[f] = new[f] BY <2>1, <3>2 DEF Over, Has
    <3> HIDE DEF new
    <3> QED BY <2>2, <3>1, <3>2, <3>3 DEF Has, Fits
  <2>4. CASE Has(PacksOf(c), f)
    <3>1. new[f] = c.retired[f] BY <2>4
    <3>2. PacksOf(Retire(c, published))[f] = PacksOf(c)[f]
      BY <2>1, <3>1 DEF PacksOf, Over, Has
    <3>3. Fits(PacksOf(published)[f], PacksOf(c)[f])
      <4>1. CASE Has(c.retired, f)
        BY <4>1 DEF PacksOf, Over, Has, Fits
      <4>2. CASE ~Has(c.retired, f)
        <5>1. PacksOf(published)[f] = PackLayer(published)[f] /\ PacksOf(c)[f] = PackLayer(c)[f]
          BY <4>2 DEF PacksOf, Over, Has
        <5> QED BY <1>4, <2>4, <5>1 DEF Retyped, Has
      <4> QED BY <4>1, <4>2
    <3> QED BY <2>4, <3>2, <3>3 DEF Has
  <2> QED BY <2>3, <2>4
<1> QED BY <1>2, <1>3, <1>4 DEF Keeps

\* A layer fits itself; its locked items are live if none is frozen.
LEMMA ScopesFit ==
  ASSUME NEW c \in Configs, ~Frozen(c), NEW d, d.scopes = c.scopes, NEW s \in Scopes
  PROVE  Keeps(c.scopes[s], d.scopes[s]) /\ KeepsLocked(c.scopes[s], d.scopes[s])
BY DEF Keeps, Fits, KeepsLocked, Frozen

\* Installing a pack of which no item of the company is dropped, or upgrading it.
LEMMA InstallPublishes ==
  ASSUME NEW c \in Configs, NEW m \in Manifests, LocksHold(c), ~Frozen(c),
         ~Retyped(PackLayer(c), m.own), ~LocksOver(m, c)
  PROVE  Publishable(InstallPack(c, m, c, {}), c)
<1> DEFINE d == [c EXCEPT !.packs[m.pack] = m]
           e == DropFromCompany(d, {})
<1>1. /\ d \in Configs /\ d.scopes = c.scopes /\ d.retired = c.retired
      /\ \A p \in Packs : d.packs[p] = IF p = m.pack THEN m ELSE c.packs[p]
  BY PackAssumption DEF Configs
<1>2. e = d
  <2>1. [f \in Fields |-> IF f \in {} THEN None ELSE d.scopes[Company][f]]
          = d.scopes[Company]
    BY <1>1 DEF Configs, Layers, Scopes
  <2>2. e = [d EXCEPT !.scopes[Company] = d.scopes[Company]]
    BY <1>1, <2>1 DEF DropFromCompany, Configs, Scopes
  <2> HIDE DEF d, e
  <2>3. [d.scopes EXCEPT ![Company] = d.scopes[Company]] = d.scopes
    BY <1>1 DEF Configs
  <2> QED BY <1>1, <2>2, <2>3 DEF Configs
<1>3. InstallPack(c, m, c, {}) = Retire(d, c)
  BY <1>2 DEF InstallPack
<1> HIDE DEF d, e
<1>4. ASSUME NEW f \in Fields
      PROVE  PackLayer(d)[f] = IF Owner[f] = m.pack THEN m.own[f] ELSE PackLayer(c)[f]
  BY <1>1, PackAssumption DEF PackLayer
<1>5. ~Retyped(PackLayer(c), PackLayer(d))
  BY <1>4 DEF Retyped, Fits, Has
<1>6. /\ Keeps(PacksOf(c), PacksOf(Retire(d, c)))
      /\ Retire(d, c).scopes = c.scopes
      /\ PackLayer(Retire(d, c)) = PackLayer(d)
  BY <1>1, <1>5, RetireKeepsPacks
<1>7. LocksHold(Retire(d, c))
  <2> SUFFICES ASSUME NEW f \in Fields, NEW s \in Scopes,
                      Has(PackLayer(d), f), PackLayer(d)[f].locked, Has(c.scopes[s], f)
               PROVE  c.scopes[s][f].type = PackLayer(d)[f].type /\ ~c.scopes[s][f].archived
    BY <1>6 DEF LocksHold
  <2>1. CASE Owner[f] = m.pack BY <1>4, <2>1 DEF LocksOver, Has
  <2>2. CASE Owner[f] # m.pack BY <1>4, <2>2 DEF LocksHold, Has
  <2> QED BY <2>1, <2>2
<1>8. \A s \in Scopes : /\ Keeps(c.scopes[s], Retire(d, c).scopes[s])
                        /\ KeepsLocked(c.scopes[s], Retire(d, c).scopes[s])
  BY <1>6, ScopesFit
<1> QED BY <1>3, <1>6, <1>7, <1>8 DEF Publishable

\* Removing a pack.
LEMMA RemovePublishes ==
  ASSUME NEW c \in Configs, NEW p \in Packs, LocksHold(c), ~Frozen(c)
  PROVE  Publishable(RemovePack(c, p, c), c)
<1> DEFINE d == [c EXCEPT !.packs[p] = None]
<1>1. /\ d \in Configs /\ d.scopes = c.scopes /\ d.retired = c.retired
      /\ \A q \in Packs : d.packs[q] = IF q = p THEN None ELSE c.packs[q]
  BY DEF Configs
<1>2. RemovePack(c, p, c) = Retire(d, c) BY DEF RemovePack
<1> HIDE DEF d
<1>3. ASSUME NEW f \in Fields
      PROVE  PackLayer(d)[f] = IF Owner[f] = p THEN None ELSE PackLayer(c)[f]
  BY <1>1, PackAssumption DEF PackLayer
<1>4. ~Retyped(PackLayer(c), PackLayer(d))
  BY <1>3 DEF Retyped, Fits, Has
<1>5. /\ Keeps(PacksOf(c), PacksOf(Retire(d, c)))
      /\ Retire(d, c).scopes = c.scopes
      /\ PackLayer(Retire(d, c)) = PackLayer(d)
  BY <1>1, <1>4, RetireKeepsPacks
<1>6. LocksHold(Retire(d, c))
  BY <1>3, <1>5 DEF LocksHold, Has
<1>7. \A s \in Scopes : /\ Keeps(c.scopes[s], Retire(d, c).scopes[s])
                        /\ KeepsLocked(c.scopes[s], Retire(d, c).scopes[s])
  BY <1>5, ScopesFit
<1> QED BY <1>2, <1>5, <1>6, <1>7 DEF Publishable

\* Going back to an older version.
LEMMA LeftoversPublish ==
  ASSUME NEW target \in Configs, NEW current \in Configs, LocksHold(target), ~Frozen(current),
         ~Retyped(PacksOf(current), PacksOf(target)),
         \A s \in Scopes : ~Retyped(current.scopes[s], target.scopes[s]),
         ~LockedSince(target, current)
  PROVE  Publishable(WithArchivedLeftovers(target, current), current)
<1> DEFINE to == WithArchivedLeftovers(target, current)
<1>1. /\ to.packs = target.packs
      /\ to.retired = RetiredLayer(target, current)
      /\ \A s \in Scopes : to.scopes[s] = KeptLayer(target.scopes[s], current.scopes[s])
  BY LeftoversParts
<1> HIDE DEF to
<1>2. PackLayer(to) = PackLayer(target)
  BY <1>1 DEF PackLayer
<1>3. ASSUME NEW f \in Fields, Has(PacksOf(current), f)
      PROVE  Has(PacksOf(to), f) /\ Fits(PacksOf(current)[f], PacksOf(to)[f])
  <2>1. PacksOf(to) = Over(PackLayer(target), RetiredLayer(target, current))
    BY <1>1, <1>2 DEF PacksOf
  <2>2. /\ PacksOf(current)[f] \in Items
        /\ Archived(PacksOf(current)[f]) \in Items
        /\ Archived(PacksOf(current)[f]).type = PacksOf(current)[f].type
    BY <1>3, PacksType, ArchivedItem DEF Layers, Has
  <2>3. CASE ~Has(PacksOf(target), f)
    <3>1. RetiredLayer(target, current)[f] = Archived(PacksOf(current)[f])
      BY <1>3, <2>3 DEF RetiredLayer
    <3>2. RetiredLayer(target, current)[f] # None BY <2>2, <3>1, PackAssumption
    <3>3. PacksOf(to)[f] = RetiredLayer(target, current)[f] BY <2>1, <3>2 DEF Over, Has
    <3> QED BY <2>2, <3>1, <3>2, <3>3 DEF Has, Fits
  <2>4. CASE Has(PacksOf(target), f)
    <3>1. RetiredLayer(target, current)[f] = target.retired[f]
      BY <2>4 DEF RetiredLayer
    <3>2. PacksOf(to)[f] = PacksOf(target)[f]
      BY <2>1, <3>1 DEF PacksOf, Over, Has
    <3> QED BY <1>3, <2>4, <3>2 DEF Retyped, Has
  <2> QED BY <2>3, <2>4
<1>4. ASSUME NEW s \in Scopes, NEW f \in Fields, Has(current.scopes[s], f)
      PROVE  /\ Has(to.scopes[s], f) /\ Fits(current.scopes[s][f], to.scopes[s][f])
             /\ current.scopes[s][f].locked =>
                  to.scopes[s][f].type = current.scopes[s][f].type /\ ~to.scopes[s][f].archived
  <2>1. /\ current.scopes[s][f] \in Items
        /\ Archived(current.scopes[s][f]) \in Items
        /\ Archived(current.scopes[s][f]).type = current.scopes[s][f].type
    BY <1>4, ArchivedItem DEF Configs, Layers, Has
  <2>2. to.scopes[s][f] = IF ~Has(target.scopes[s], f) THEN Archived(current.scopes[s][f])
                          ELSE target.scopes[s][f]
    BY <1>1, <1>4 DEF KeptLayer
  <2>3. current.scopes[s][f].locked =>
          target.scopes[s][f] = current.scopes[s][f] /\ ~current.scopes[s][f].archived
    BY <1>4 DEF LockedSince, Frozen
  <2>4. CASE Has(target.scopes[s], f)
    BY <1>4, <2>2, <2>3, <2>4 DEF Retyped, Has
  <2>5. CASE ~Has(target.scopes[s], f)
    BY <1>4, <2>1, <2>2, <2>3, <2>5, PackAssumption DEF Has, Fits
  <2> QED BY <2>4, <2>5
<1>5. LocksHold(to)
  <2> SUFFICES ASSUME NEW f \in Fields, NEW s \in Scopes,
                      Has(PackLayer(target), f), PackLayer(target)[f].locked,
                      Has(to.scopes[s], f)
               PROVE  /\ to.scopes[s][f].type = PackLayer(target)[f].type
                      /\ ~to.scopes[s][f].archived
    BY <1>2 DEF LocksHold
  <2>1. to.scopes[s][f] = target.scopes[s][f]
    <3>1. to.scopes[s][f] = IF Has(current.scopes[s], f) /\ ~Has(target.scopes[s], f)
                            THEN Archived(current.scopes[s][f]) ELSE target.scopes[s][f]
      BY <1>1 DEF KeptLayer
    <3>2. CASE Has(current.scopes[s], f) /\ ~Has(target.scopes[s], f)
      BY <3>2 DEF LockedSince, Has
    <3> QED BY <3>1, <3>2
  <2> QED BY <2>1 DEF LocksHold, Has
<1> QED BY <1>3, <1>4, <1>5 DEF Publishable, Keeps, KeepsLocked, to

\* Every version that was published obeys the locks of its packs.
LEMMA VersionsHold ==
  ASSUME PublishInv, PublishedStays, NEW n \in 0..Len(versions)
  PROVE  LocksHold(Version(n))
<1>1. CASE n = 0
  BY <1>1 DEF Version, Empty, NoFields, LocksHold, Has, Scopes
<1>2. CASE n # 0
  <2>1. n - 1 \in 0..(Len(versions) - 1) /\ (n - 1) + 1 = n BY <1>2 DEF PublishInv
  <2> QED BY <2>1 DEF PublishedStays, Publishable
<1> QED BY <1>1, <1>2

\* Whatever is published, packs can be installed, upgraded and removed and versions rolled
\* back, but for types that do not change that way and fields that a pack locks
\* (pack-ops.ts, diff.ts, validate.ts).
THEOREM PackChangesCanBePublished == Spec => []PackChangesPublish
<1>1. PublishInv /\ PublishedStays => PackChangesPublish
  <2> SUFFICES ASSUME PublishInv, PublishedStays PROVE PackChangesPublish OBVIOUS
  <2>1. ASSUME NEW n \in 0..Len(versions) PROVE Version(n) \in Configs /\ LocksHold(Version(n))
    BY EmptyType, VersionsHold DEF PublishInv, Version
  <2>2. Len(versions) \in 0..Len(versions) /\ 1..Len(versions) \subseteq 0..Len(versions)
    BY DEF PublishInv
  <2> QED BY <2>1, <2>2, InstallPublishes, RemovePublishes, LeftoversPublish
          DEF PackChangesPublish
<1> QED BY <1>1, RequestsAreSound, NothingPublishedIsDropped, PTL

-----------------------------------------------------------------------------
(* ConfigReads *)

Memory == [version : {{}} \cup {{v} : v \in Nat}, foreign : BOOLEAN]

ReaderStates == [pc : {"idle", "version", "fetch", "answered", "done"}, since : Nat,
                 version : Nat, excused : BOOLEAN]

ReadsTyped ==
    /\ live \in Nat /\ told \in 0..live
    /\ remembered \in [ConfigReplicas -> Memory]
    /\ publishing \in [ConfigReplicas -> 0..live]
    /\ question.state \in {"none", "sent", "read"} /\ question.version \in Nat
    /\ readers \in [Readers -> ReaderStates]

\* The versions that replicas are about to answer are different and not yet told.
AnswersDiffer ==
    \A q \in ConfigReplicas : publishing[q] # 0 =>
        /\ publishing[q] # told
        /\ \A p \in ConfigReplicas : publishing[p] = publishing[q] => p = q

\* What a replica remembers while no other publishes is the newest version, or the one
\* before the version that it is publishing itself.
MemoryIsNew ==
    \A q \in ConfigReplicas :
      /\ remembered[q].version = {} => ~remembered[q].foreign
      /\ \A v \in remembered[q].version :
           ~remembered[q].foreign => v = live \/ (publishing[q] = live /\ v + 1 = live)

\* What a call has been told is not older than what was told before it.
CallsAreCurrent ==
    \A r \in Readers :
        /\ readers[r].since <= told
        /\ ~readers[r].excused =>
             /\ readers[r].pc = "version" /\ question.state = "read" =>
                  question.version >= readers[r].since
             /\ readers[r].pc \in {"answered", "done"} =>
                  readers[r].version >= readers[r].since

ReadsInv == ReadsTyped /\ AnswersDiffer /\ MemoryIsNew /\ CallsAreCurrent

LEMMA ReadsBegin == ReadsInit => ReadsInv
BY DEF ReadsInit, NoMemory, NoReader, NoQuestion, ReadsInv, ReadsTyped, Memory, ReaderStates,
       AnswersDiffer, MemoryIsNew, CallsAreCurrent

LEMMA CommitVersionKeeps ==
  ASSUME ReadsInv, NEW q \in ConfigReplicas, CommitVersion(q)
  PROVE  ReadsInv'
<1> USE DEF ReadsInv
<1>1. /\ live' = live + 1 /\ publishing[q] = 0 /\ remembered[q].version \in {{}, {live}}
      /\ publishing' = [publishing EXCEPT ![q] = live + 1]
      /\ \A p \in ConfigReplicas : remembered'[p] =
           IF p = q \/ remembered[p] = NoMemory THEN remembered[p]
           ELSE [remembered[p] EXCEPT !.foreign = TRUE]
      /\ told' = told /\ question' = question /\ readers' = readers
  BY DEF CommitVersion
<1>2. \A p \in ConfigReplicas : publishing'[p] = IF p = q THEN live + 1 ELSE publishing[p]
  BY <1>1 DEF ReadsTyped
<1>3. \A p \in ConfigReplicas :
        /\ remembered'[p] \in Memory /\ remembered'[p].version = remembered[p].version
        /\ p # q /\ remembered[p] # NoMemory => remembered'[p].foreign
  BY ZenonT(20), <1>1 DEF ReadsTyped, Memory
<1>4. ReadsTyped'
  <2>1. remembered' \in [ConfigReplicas -> Memory]
    BY <1>3 DEF CommitVersion
  <2>2. publishing' \in [ConfigReplicas -> 0..live']
    BY <1>1 DEF ReadsTyped
  <2> QED BY <1>1, <2>1, <2>2 DEF ReadsTyped
<1>5. AnswersDiffer'
  BY <1>1, <1>2 DEF ReadsTyped, AnswersDiffer
<1>6. MemoryIsNew'
  <2> SUFFICES ASSUME NEW p \in ConfigReplicas, NEW v \in remembered'[p].version,
                      ~remembered'[p].foreign
               PROVE  v = live' \/ (publishing'[p] = live' /\ v + 1 = live')
    <3>1. ASSUME NEW p \in ConfigReplicas, remembered'[p].version = {}
          PROVE  ~remembered'[p].foreign
      <4>1. remembered[p] \in Memory /\ remembered[p].version = {}
        BY <1>3, <3>1 DEF ReadsTyped
      <4>2. ~remembered[p].foreign
        BY <4>1 DEF MemoryIsNew
      <4>3. remembered[p] = NoMemory
        BY <4>1, <4>2 DEF Memory, NoMemory
      <4> QED BY <1>1, <4>2, <4>3
    <3> QED BY <3>1 DEF MemoryIsNew
  <2>1. p = q
    BY <1>3 DEF NoMemory
  <2> QED BY <1>1, <1>2, <1>3, <2>1 DEF ReadsTyped
<1>7. CallsAreCurrent'
  BY <1>1 DEF CallsAreCurrent
<1> QED BY <1>4, <1>5, <1>6, <1>7

LEMMA ForgetLatestKeeps ==
  ASSUME ReadsInv, NEW q \in ConfigReplicas, ForgetLatest(q)
  PROVE  ReadsInv'
<1> USE DEF ReadsInv
<1>1. /\ publishing[q] # 0 /\ publishing' = [publishing EXCEPT ![q] = 0]
      /\ remembered' = [remembered EXCEPT ![q] = NoMemory]
      /\ told' = IF publishing[q] > told THEN publishing[q] ELSE told
      /\ live' = live /\ question' = question /\ readers' = readers
  BY DEF ForgetLatest, Publishes
<1>2. \A p \in ConfigReplicas :
        /\ publishing'[p] = IF p = q THEN 0 ELSE publishing[p]
        /\ remembered'[p] = IF p = q THEN NoMemory ELSE remembered[p]
  BY <1>1 DEF ReadsTyped
<1>3. NoMemory \in Memory
  BY DEF NoMemory, Memory
<1>4. ReadsTyped'
  BY <1>1, <1>3 DEF ReadsTyped
<1>5. AnswersDiffer'
  BY <1>1, <1>2 DEF ReadsTyped, AnswersDiffer
<1>6. MemoryIsNew'
  BY <1>1, <1>2 DEF MemoryIsNew, NoMemory
<1>7. told' >= told
  BY <1>1 DEF ReadsTyped
<1>8. CallsAreCurrent'
  BY <1>1, <1>4, <1>7 DEF CallsAreCurrent, ReadsTyped, ReaderStates
<1> QED BY <1>4, <1>5, <1>6, <1>8

LEMMA MemoryExpiresKeeps ==
  ASSUME ReadsInv, NEW q \in ConfigReplicas, MemoryExpires(q)
  PROVE  ReadsInv'
<1>1. NoMemory \in Memory /\ NoMemory.version = {} /\ ~NoMemory.foreign
  BY DEF NoMemory, Memory
<1> QED BY <1>1 DEF MemoryExpires, ReadsInv, ReadsTyped, AnswersDiffer, MemoryIsNew,
                   CallsAreCurrent

\* A step of the client or its calls that leaves the versions as they are.
LEMMA ClientKeeps ==
  ASSUME ReadsInv, UNCHANGED <<live, told, remembered, publishing>>,
         question'.state \in {"none", "sent", "read"}, question'.version \in Nat,
         readers' \in [Readers -> ReaderStates], CallsAreCurrent'
  PROVE  ReadsInv'
BY DEF ReadsInv, ReadsTyped, AnswersDiffer, MemoryIsNew

LEMMA CallEffectiveKeeps ==
  ASSUME ReadsInv, NEW r \in Readers, CallEffective(r)
  PROVE  ReadsInv'
<1> DEFINE call == [pc |-> "version", since |-> told, version |-> 0,
                    excused |-> question.state = "read"]
<1>1. call \in ReaderStates /\ call.since = told /\ call.pc = "version"
        /\ (~call.excused => question.state # "read")
  <2>1. (question.state = "read") \in BOOLEAN
    OBVIOUS
  <2>2. told \in Nat
    BY DEF ReadsInv, ReadsTyped
  <2>3. call.since = told /\ call.pc = "version" /\ call.excused = (question.state = "read")
    BY Zenon
  <2>4. call \in ReaderStates
    BY <2>1, <2>2, Zenon DEF ReaderStates
  <2> QED BY <2>3, <2>4
<1>2. /\ readers' = [readers EXCEPT ![r] = call]
      /\ question' = IF question = NoQuestion THEN [question EXCEPT !.state = "sent"]
                     ELSE question
      /\ UNCHANGED <<live, told, remembered, publishing>>
  BY DEF CallEffective
<1> HIDE DEF call
<1>3. \A s \in Readers : readers'[s] = IF s = r THEN call ELSE readers[s]
  BY <1>2 DEF ReadsInv, ReadsTyped
<1>4. /\ question'.state \in {"none", "sent", "read"} /\ question'.version \in Nat
      /\ question'.state = "read" => question.state = "read" /\ question'.version = question.version
  BY <1>2 DEF ReadsInv, ReadsTyped, NoQuestion
<1>5. CallsAreCurrent'
  <2> SUFFICES ASSUME NEW s \in Readers
               PROVE  /\ readers'[s].since <= told'
                      /\ ~readers'[s].excused =>
                           /\ readers'[s].pc = "version" /\ question'.state = "read" =>
                                question'.version >= readers'[s].since
                           /\ readers'[s].pc \in {"answered", "done"} =>
                                readers'[s].version >= readers'[s].since
    BY DEF CallsAreCurrent
  <2>1. CASE s = r
    BY <1>1, <1>2, <1>3, <1>4, <2>1 DEF ReadsInv, ReadsTyped
  <2>2. CASE s # r
    BY <1>2, <1>3, <1>4, <2>2 DEF ReadsInv, CallsAreCurrent
  <2> QED BY <2>1, <2>2
<1> QED BY <1>1, <1>2, <1>4, <1>5, ClientKeeps DEF ReadsInv, ReadsTyped

LEMMA ReadVersionKeeps ==
  ASSUME ReadsInv, ReadVersion
  PROVE  ReadsInv'
<1>1. /\ question'.state = "read" /\ question'.version = live
      /\ UNCHANGED <<live, told, remembered, publishing, readers>>
  BY DEF ReadVersion
<1>2. CallsAreCurrent'
  BY <1>1 DEF ReadsInv, ReadsTyped, ReaderStates, CallsAreCurrent
<1> QED BY <1>1, <1>2, ClientKeeps DEF ReadsInv, ReadsTyped

LEMMA VersionAnsweredKeeps ==
  ASSUME ReadsInv, VersionAnswered
  PROVE  ReadsInv'
<1>1. /\ question.state = "read" /\ question'.state = "none" /\ question'.version = 0
      /\ UNCHANGED <<live, told, remembered, publishing>>
  BY DEF VersionAnswered, NoQuestion
<1>2. ASSUME NEW r \in Readers
      PROVE  /\ readers'[r] \in ReaderStates /\ readers'[r].since = readers[r].since
             /\ readers'[r].excused = readers[r].excused
             /\ readers'[r].pc \in {"answered", "done"} =>
                  \/ readers'[r].version = readers[r].version /\ readers'[r].pc = readers[r].pc
                  \/ readers[r].pc = "version" /\ readers'[r].version = question.version
  <2>1. readers[r] \in ReaderStates /\ question.version \in Nat
    BY DEF ReadsInv, ReadsTyped
  <2>2. CASE r \notin Waiting
    BY <2>1, <2>2 DEF VersionAnswered
  <2>3. CASE r \in Waiting /\ UsesKept(question.version)
    <3>1. (CHOOSE v \in kept : TRUE) = question.version
      BY <2>3 DEF UsesKept
    <3>2. readers'[r] = [readers[r] EXCEPT !.pc = "done", !.version = question.version]
      BY <2>3, <3>1 DEF VersionAnswered
    <3> QED BY <2>1, <2>3, <3>2 DEF ReaderStates, Waiting
  <2>4. CASE r \in Waiting /\ ~UsesKept(question.version)
    BY <2>1, <2>4 DEF VersionAnswered, ReaderStates
  <2> QED BY <2>2, <2>3, <2>4
<1>3. readers' \in [Readers -> ReaderStates]
  BY <1>2 DEF VersionAnswered
<1>4. CallsAreCurrent'
  BY <1>1, <1>2 DEF ReadsInv, CallsAreCurrent
<1> QED BY <1>1, <1>3, <1>4, ClientKeeps

LEMMA VersionFailedKeeps ==
  ASSUME ReadsInv, VersionFailed
  PROVE  ReadsInv'
<1>1. /\ question'.state = "none" /\ question'.version = 0
      /\ readers' = [r \in Readers |-> IF r \in Waiting THEN NoReader ELSE readers[r]]
      /\ UNCHANGED <<live, told, remembered, publishing>>
  BY DEF VersionFailed, NoQuestion
<1>2. readers' \in [Readers -> ReaderStates]
  BY <1>1 DEF ReadsInv, ReadsTyped, ReaderStates, NoReader
<1>3. CallsAreCurrent'
  BY <1>1 DEF ReadsInv, ReadsTyped, CallsAreCurrent, NoReader
<1> QED BY <1>1, <1>2, <1>3, ClientKeeps

\* A replica answers with a version that it knows: the newest, or what it remembers.
LEMMA FetchEffectiveKeeps ==
  ASSUME ReadsInv, NEW r \in Readers, NEW q \in ConfigReplicas, FetchEffective(r, q)
  PROVE  ReadsInv'
<1> USE DEF ReadsInv
<1>1. PICK v \in Nat : NewestKnown(q) = {v}
  <2>1. CASE remembered[q] = NoMemory
    BY <2>1 DEF NewestKnown, ReadsTyped
  <2>2. CASE remembered[q] # NoMemory
    <3>1. remembered[q] \in Memory
      BY DEF ReadsTyped
    <3>2. remembered[q].version # {}
      BY <2>2, <3>1 DEF Memory, NoMemory, MemoryIsNew
    <3>3. remembered[q].version \in {{}} \cup {{v} : v \in Nat}
      BY <3>1 DEF Memory
    <3> QED BY <2>2, <3>2, <3>3 DEF NewestKnown
  <2> QED BY <2>1, <2>2
<1>2. (CHOOSE w \in NewestKnown(q) : TRUE) = v
  BY <1>1
<1>3. /\ readers' = [readers EXCEPT ![r].pc = "answered", ![r].version = v,
                                    ![r].excused = @ \/ remembered[q].foreign]
      /\ remembered' = [remembered EXCEPT ![q].version = {v}]
      /\ UNCHANGED <<live, told, publishing, question>>
  BY <1>1, <1>2 DEF FetchEffective
<1>4. ~remembered[q].foreign => v = live \/ (publishing[q] = live /\ v + 1 = live)
  BY <1>1 DEF NewestKnown, NoMemory, MemoryIsNew
<1>5. ~remembered[q].foreign => v >= told
  BY <1>1, <1>4 DEF AnswersDiffer, ReadsTyped
<1>6. \A p \in ConfigReplicas :
        /\ remembered'[p].version = IF p = q THEN {v} ELSE remembered[p].version
        /\ remembered'[p].foreign = remembered[p].foreign
  BY <1>3 DEF ReadsTyped, Memory
<1>7. PICK excused \in BOOLEAN : excused = (readers[r].excused \/ remembered[q].foreign)
  OBVIOUS
<1>12. readers[r] \in ReaderStates
  BY DEF ReadsTyped
<1>13. [readers[r] EXCEPT !.pc = "answered", !.version = v, !.excused = excused] \in ReaderStates
  BY <1>12, <1>7, <1>1 DEF ReaderStates
<1>14. readers' = [readers EXCEPT ![r] =
                     [readers[r] EXCEPT !.pc = "answered", !.version = v, !.excused = excused]]
  BY <1>3, <1>7 DEF ReadsTyped
<1>8. ReadsTyped'
  <2>1. remembered' \in [ConfigReplicas -> Memory]
    BY <1>1, <1>3 DEF ReadsTyped, Memory
  <2>2. readers' \in [Readers -> ReaderStates]
    BY <1>13, <1>14 DEF ReadsTyped
  <2> QED BY <1>3, <2>1, <2>2 DEF ReadsTyped
<1>9. MemoryIsNew'
  BY <1>3, <1>4, <1>6 DEF MemoryIsNew
<1>10. AnswersDiffer'
  BY <1>3 DEF AnswersDiffer
<1>11. CallsAreCurrent'
  <2> SUFFICES ASSUME NEW s \in Readers
               PROVE  /\ readers'[s].since <= told'
                      /\ ~readers'[s].excused =>
                           /\ readers'[s].pc = "version" /\ question'.state = "read" =>
                                question'.version >= readers'[s].since
                           /\ readers'[s].pc \in {"answered", "done"} =>
                                readers'[s].version >= readers'[s].since
    BY DEF CallsAreCurrent
  <2>1. CASE s = r
    <3>1. readers[r].since \in Nat /\ told \in Nat
      BY DEF ReadsTyped, ReaderStates
    <3>2. /\ readers'[s].pc = "answered" /\ readers'[s].since = readers[r].since
          /\ readers'[s].version = v /\ readers'[s].excused = excused
      BY <1>12, <1>14, <2>1 DEF ReadsTyped, ReaderStates
    <3>3. readers[r].since <= told
      BY DEF CallsAreCurrent
    <3>4. ~excused => ~remembered[q].foreign
      BY <1>7, Zenon
    <3>5. ~readers'[s].excused => v >= told
      BY <1>5, <3>2, <3>4
    <3> QED BY <1>1, <1>3, <3>1, <3>2, <3>3, <3>5
  <2>2. CASE s # r
    BY <1>3, <1>14, <2>2 DEF ReadsTyped, CallsAreCurrent
  <2> QED BY <2>1, <2>2
<1> QED BY <1>8, <1>9, <1>10, <1>11

LEMMA CallEndsKeep ==
  ASSUME ReadsInv, NEW r \in Readers, KeepAnswer(r) \/ Return(r)
  PROVE  ReadsInv'
<1>1. question' = question /\ UNCHANGED <<live, told, remembered, publishing>>
  BY DEF KeepAnswer, KeepIn, Return
<1>2. CASE KeepAnswer(r)
  <2>1. readers[r].pc = "answered" /\ readers' = [readers EXCEPT ![r].pc = "done"]
    BY <1>2 DEF KeepAnswer, KeepIn
  <2>2. readers' \in [Readers -> ReaderStates]
    BY <2>1 DEF ReadsInv, ReadsTyped, ReaderStates
  <2>3. CallsAreCurrent'
    BY <1>1, <2>1 DEF ReadsInv, ReadsTyped, ReaderStates, CallsAreCurrent
  <2> QED BY <1>1, <2>2, <2>3, ClientKeeps DEF ReadsInv, ReadsTyped
<1>3. CASE Return(r)
  <2>1. readers' = [readers EXCEPT ![r] = NoReader]
    BY <1>3 DEF Return
  <2>2. readers' \in [Readers -> ReaderStates]
    BY <2>1 DEF ReadsInv, ReadsTyped, ReaderStates, NoReader
  <2>3. CallsAreCurrent'
    BY <1>1, <2>1 DEF ReadsInv, ReadsTyped, CallsAreCurrent, NoReader
  <2> QED BY <1>1, <2>2, <2>3, ClientKeeps DEF ReadsInv, ReadsTyped
<1> QED BY <1>2, <1>3

LEMMA InvalidateKeeps == ReadsInv /\ Invalidate => ReadsInv'
BY DEF Invalidate, ReadsInv, ReadsTyped, AnswersDiffer, MemoryIsNew, CallsAreCurrent

\* A call of effective() gets no version older than the one whose publish had answered
\* when it began (config-client.ts), whatever calls and replicas there are, unless it
\* shared an older question or a replica remembered what another published over.
THEOREM CallsGetTheNewest == ReadsSpec => []ReadsAreCurrent
<1>1. ReadsInv /\ [ReadsNext]_readVars => ReadsInv'
  <2> SUFFICES ASSUME ReadsInv, [ReadsNext]_readVars PROVE ReadsInv' OBVIOUS
  <2>1. CASE ReadsNext
    BY <2>1, CommitVersionKeeps, ForgetLatestKeeps, MemoryExpiresKeeps, CallEffectiveKeeps,
       CallEndsKeep, FetchEffectiveKeeps, ReadVersionKeeps, VersionAnsweredKeeps,
       VersionFailedKeeps, InvalidateKeeps DEF ReadsNext
  <2>2. CASE UNCHANGED readVars
    BY <2>2 DEF readVars, ReadsInv, ReadsTyped, AnswersDiffer, MemoryIsNew, CallsAreCurrent
  <2> QED BY <2>1, <2>2
<1>2. ReadsInv => ReadsAreCurrent
  BY DEF ReadsInv, CallsAreCurrent, ReadsAreCurrent
<1> QED BY ReadsBegin, <1>1, <1>2, PTL DEF ReadsSpec

-----------------------------------------------------------------------------
(* Numbering *)

Day == Nat \X (1..12)

\* A request that has read its series and, once it has a bucket, what it counts by.
IsCall(c) ==
    /\ c \in [unit : Where, layer : Where, series : SeriesDefs, start : 1..12,
              bucket : Where \cup {NoSeries}, date : Day \cup {NoSeries}]
    /\ c.bucket # NoSeries =>
         c.date \in Day /\ (c.series.scope = "org_unit" => c.bucket = c.unit)

NumbersTyped ==
    /\ layers \in [Where -> SeriesDefs \cup {NoSeries}]
    /\ startMonth \in 1..12
    /\ today \in 1..Len(Dates)
    /\ asking = [r \in Requests |-> asking[r]]
    /\ \A r \in Requests : asking[r] # NoSeries => IsCall(asking[r])

\* The request of a number got this count, and the counter is at least there.
Made(number) ==
    /\ IsCall(number.call) /\ number.call.bucket # NoSeries
    /\ number.text = Render(number.call, number.seq)
    /\ Counter(number.call) \in DOMAIN counters
    /\ number.seq \in 1..counters[Counter(number.call)]

\* Each number has a count of its own in its counter, and no counter is ahead of the numbers.
NumbersMade ==
    /\ Len(issued) \in 0..MaxNumbers /\ issued = [i \in 1..Len(issued) |-> issued[i]]
    /\ \A k \in DOMAIN counters : counters[k] \in 1..Len(issued)
    /\ \A i \in 1..Len(issued) : Made(issued[i])
    /\ \A i, j \in 1..Len(issued) :
          Counter(issued[i].call) = Counter(issued[j].call) /\ issued[i].seq = issued[j].seq
            => i = j

NumbersInv == NumbersTyped /\ NumbersMade

\* A fiscal year counted in months is the one that the code finds.
LEMMA FiscalYearOfMonths ==
  ASSUME NEW y \in Nat, NEW m \in 1..12, NEW s \in 1..12
  PROVE  (12 * y + m - s) \div 12 = IF m >= s THEN y ELSE y - 1
<1>1. CASE m >= s
  <2>1. m - s \in 0..11 BY <1>1
  <2> QED BY <1>1, <2>1
<1>2. CASE m < s
  <2>1. m - s + 12 \in 0..11 BY <1>2
  <2>2. 12 * y + m - s = 12 * (y - 1) + (m - s + 12) OBVIOUS
  <2> QED BY <1>2, <2>1, <2>2
<1> QED BY <1>1, <1>2

\* The counter of a request is the one that is meant, if its layer is.
LEMMA CountsWhatIsMeant ==
  ASSUME NEW c, IsCall(c), c.bucket # NoSeries,
         c.series.scope = "company" => c.bucket = c.layer
  PROVE  MeantToCount(c) = Counter(c)
<1>1. /\ c.series \in SeriesDefs /\ c.start \in 1..12 /\ c.date \in Day
      /\ c.series.scope = "org_unit" => c.bucket = c.unit
  BY DEF IsCall
<1>2. /\ c.series.scope \in {"company", "org_unit"}
      /\ c.series.reset \in {"never", "yearly", "monthly"}
  BY <1>1, NumberingAssumption
<1>3. (IF c.series.scope = "org_unit" THEN c.unit ELSE c.layer) = c.bucket
  BY <1>1, <1>2
<1>4. (12 * c.date[1] + c.date[2] - c.start) \div 12 = FiscalYear(c.date, c.start)
  <2>1. c.date[1] \in Nat /\ c.date[2] \in 1..12 BY <1>1 DEF Day
  <2> QED BY <1>1, <2>1, FiscalYearOfMonths DEF FiscalYear
<1>5. (CASE c.series.reset = "never" -> <<>>
         [] c.series.reset = "yearly" ->
               <<(12 * c.date[1] + c.date[2] - c.start) \div 12>>
         [] c.series.reset = "monthly" -> c.date)
        = Period(c.series.reset, c.date, c.start)
  BY <1>4 DEF Period
<1> QED BY <1>3, <1>5 DEF MeantToCount, Counter

LEMMA NumbersBegin == NumbersInit => NumbersInv
<1> SUFFICES ASSUME NumbersInit PROVE NumbersInv OBVIOUS
<1>1. NumbersTyped
  BY NumberingAssumption DEF NumbersInit, NumbersTyped
<1>2. Len(issued) = 0 /\ DOMAIN counters = {} /\ issued = <<>>
  BY DEF NumbersInit
<1>3. issued = [i \in 1..Len(issued) |-> issued[i]]
  BY <1>2
<1> QED BY <1>1, <1>2, <1>3, NumberingAssumption DEF NumbersInv, NumbersMade

\* The numbers that were made are the same numbers still.
LEMMA MadeBefore ==
  ASSUME NumbersMade, UNCHANGED <<counters, issued>>
  PROVE  NumbersMade'
BY DEF NumbersMade, Made

LEMMA AskKeeps ==
  ASSUME NumbersInv, NEW r \in Requests, NEW unit \in Where, Ask(r, unit)
  PROVE  NumbersInv'
<1> DEFINE call == [unit |-> unit, layer |-> DefiningLayer(unit),
                    series |-> layers[DefiningLayer(unit)], start |-> startMonth,
                    bucket |-> NoSeries, date |-> NoSeries]
<1>1. IsCall(call)
  <2>1. DefiningLayer(unit) \in Where BY DEF DefiningLayer, Where
  <2>2. layers[DefiningLayer(unit)] \in SeriesDefs
    BY <2>1 DEF Ask, NumbersInv, NumbersTyped
  <2> QED BY <2>1, <2>2 DEF NumbersInv, NumbersTyped, IsCall
<1>2. /\ asking' = [asking EXCEPT ![r] = call]
      /\ UNCHANGED <<layers, startMonth, today, counters, issued>>
  BY DEF Ask
<1> HIDE DEF call
<1>3. NumbersTyped'
  BY <1>1, <1>2 DEF NumbersInv, NumbersTyped
<1> QED BY <1>2, <1>3, MadeBefore DEF NumbersInv

LEMMA AskLayerKeeps ==
  ASSUME NumbersInv, NEW r \in Requests, AskLayer(r)
  PROVE  NumbersInv'
<1> DEFINE call == asking[r]
           counted == IF call.series.scope = "company"
                      THEN [call EXCEPT !.bucket = DefiningLayer(call.unit), !.date = Dates[today]]
                      ELSE IF call.unit = CompanyLayer THEN NoSeries
                      ELSE [call EXCEPT !.bucket = call.unit, !.date = Dates[today]]
<1>1. call # NoSeries /\ asking' = [asking EXCEPT ![r] = counted]
      /\ UNCHANGED <<layers, startMonth, today, counters, issued>>
  BY DEF AskLayer
<1>2. IsCall(call) BY <1>1 DEF NumbersInv, NumbersTyped
<1>3. Dates[today] \in Day
  BY NumberingAssumption DEF NumbersInv, NumbersTyped, Day
<1>4. counted # NoSeries => IsCall(counted)
  <2>1. call.unit \in Where /\ DefiningLayer(call.unit) \in Where
    BY <1>2 DEF IsCall, DefiningLayer, Where
  <2> HIDE DEF call
  <2>2. CASE call.series.scope = "company"
    BY <1>2, <1>3, <2>1, <2>2 DEF IsCall
  <2>3. CASE call.series.scope # "company"
    BY <1>2, <1>3, <2>1, <2>3 DEF IsCall
  <2> QED BY <2>2, <2>3
<1> HIDE DEF counted
<1>5. NumbersTyped'
  BY <1>1, <1>4 DEF NumbersInv, NumbersTyped
<1> QED BY <1>1, <1>5, MadeBefore DEF NumbersInv

\* A counter's next value is a number of its own.
LEMMA AllocateKeeps ==
  ASSUME NumbersInv, NEW r \in Requests, Allocate(r)
  PROVE  NumbersInv'
<1> DEFINE call == asking[r]
           counter == Counter(call)
           seq == IF counter \in DOMAIN counters THEN counters[counter] + 1 ELSE 1
           number == [text |-> Render(call, seq), call |-> call, seq |-> seq]
           N == Len(issued)
<1>1. /\ call # NoSeries /\ call.bucket # NoSeries /\ N < MaxNumbers
      /\ counters' = [k \in DOMAIN counters \cup {counter} |->
                         IF k = counter THEN seq ELSE counters[k]]
      /\ issued' = Append(issued, number)
      /\ asking' = [asking EXCEPT ![r] = NoSeries]
      /\ UNCHANGED <<layers, startMonth, today>>
  BY DEF Allocate
<1>2. IsCall(call) /\ N \in Nat /\ MaxNumbers \in Nat /\ seq \in 1..(N + 1)
  BY <1>1, NumberingAssumption DEF NumbersInv, NumbersTyped, NumbersMade
<1>3. number.call = call /\ number.seq = seq /\ number.text = Render(call, seq)
  OBVIOUS
<1>4. counter = Counter(call) OBVIOUS
<1>5. /\ DOMAIN counters' = DOMAIN counters \cup {counter}
      /\ \A k \in DOMAIN counters' : counters'[k] = IF k = counter THEN seq ELSE counters[k]
  BY <1>1
<1>6. \A k \in DOMAIN counters : counters[k] \in 1..N /\ counters'[k] \in 1..(N + 1)
                                 /\ counters[k] <= counters'[k]
  BY <1>2, <1>5 DEF NumbersInv, NumbersMade
<1>7. \A i \in 1..N : Counter(issued[i].call) = counter => issued[i].seq < seq
  BY DEF NumbersInv, NumbersMade, Made
<1> HIDE DEF call, counter, seq, number
<1>8. /\ Len(issued') = N + 1
      /\ \A i \in 1..(N + 1) : issued'[i] = IF i = N + 1 THEN number ELSE issued[i]
      /\ issued' = [i \in 1..(N + 1) |-> issued'[i]]
  <2> DEFINE S == {issued[i] : i \in 1..N} \cup {number}
  <2>1. issued \in Seq(S) /\ number \in S
    BY <1>2 DEF NumbersInv, NumbersMade
  <2> HIDE DEF S
  <2>2. issued' \in Seq(S)
    BY <1>1, <2>1
  <2>3. /\ Len(issued') = N + 1
        /\ \A i \in 1..(N + 1) : issued'[i] = IF i = N + 1 THEN number ELSE issued[i]
    BY <1>1, <2>1
  <2>4. issued' = [i \in 1..Len(issued') |-> issued'[i]]
    BY <2>2
  <2> QED BY <2>3, <2>4
<1>9. NumbersTyped'
  BY <1>1 DEF NumbersInv, NumbersTyped
<1>10. \A k \in DOMAIN counters' : counters'[k] \in 1..(N + 1)
  BY <1>2, <1>5, <1>6
<1>11. ASSUME NEW i \in 1..(N + 1) PROVE Made(issued[i])'
  <2>1. CASE i # N + 1
    <3>1. i \in 1..N BY <1>2, <2>1
    <3>2. Made(issued[i]) BY <3>1 DEF NumbersInv, NumbersMade
    <3>3. issued'[i] = issued[i] BY <1>8, <2>1
    <3> QED BY <1>2, <1>5, <1>6, <3>2, <3>3 DEF Made
  <2>2. CASE i = N + 1
    <3>1. issued'[i] = number BY <1>8, <2>2
    <3>2. counter \in DOMAIN counters' /\ counters'[counter] = seq BY <1>5
    <3> QED BY <1>1, <1>2, <1>3, <1>4, <3>1, <3>2 DEF Made
  <2> QED BY <2>1, <2>2
<1>12. ASSUME NEW i \in 1..(N + 1), NEW j \in 1..(N + 1),
              Counter(issued'[i].call) = Counter(issued'[j].call),
              issued'[i].seq = issued'[j].seq
       PROVE  i = j
  <2>1. CASE i # N + 1 /\ j # N + 1
    <3>1. i \in 1..N /\ j \in 1..N BY <1>2, <2>1
    <3>2. issued'[i] = issued[i] /\ issued'[j] = issued[j] BY <1>8, <2>1
    <3> QED BY <1>12, <3>1, <3>2 DEF NumbersInv, NumbersMade
  <2>2. CASE i = N + 1 /\ j # N + 1
    <3>1. j \in 1..N BY <1>2, <2>2
    <3>2. issued'[i] = number /\ issued'[j] = issued[j] BY <1>8, <2>2
    <3>3. Made(issued[j]) BY <3>1 DEF NumbersInv, NumbersMade
    <3>4. issued[j].seq < seq BY <1>3, <1>4, <1>7, <1>12, <3>1, <3>2
    <3> QED BY <1>2, <1>3, <1>12, <3>2, <3>4
  <2>3. CASE j = N + 1 /\ i # N + 1
    <3>1. i \in 1..N BY <1>2, <2>3
    <3>2. issued'[j] = number /\ issued'[i] = issued[i] BY <1>8, <2>3
    <3>4. issued[i].seq < seq BY <1>3, <1>4, <1>7, <1>12, <3>1, <3>2
    <3> QED BY <1>2, <1>3, <1>12, <3>2, <3>4
  <2> QED BY <2>1, <2>2, <2>3
<1>13. NumbersMade'
  <2>1. Len(issued') = N + 1 /\ Len(issued') \in 0..MaxNumbers
    BY <1>1, <1>2, <1>8
  <2>2. issued' = [i \in 1..Len(issued') |-> issued'[i]]
    BY <1>8
  <2>3. \A i \in 1..Len(issued') : Made(issued[i])'
    BY <1>11, <2>1
  <2>4. \A i, j \in 1..Len(issued') :
           /\ Counter(issued'[i].call) = Counter(issued'[j].call)
           /\ issued'[i].seq = issued'[j].seq
           => i = j
    BY <1>12, <2>1
  <2>5. \A k \in DOMAIN counters' : counters'[k] \in 1..Len(issued')
    BY <1>10, <2>1
  <2> QED BY <2>1, <2>2, <2>3, <2>4, <2>5 DEF NumbersMade
<1> QED BY <1>9, <1>13 DEF NumbersInv

\* The clock and the administrators change no number.
LEMMA OthersKeepNumbers ==
  ASSUME NumbersInv, Tomorrow \/ Reconfigure
  PROVE  NumbersInv'
<1>1. UNCHANGED <<counters, issued, asking>>
  BY DEF Tomorrow, Reconfigure
<1>2. layers' \in [Where -> SeriesDefs \cup {NoSeries}]
  BY DEF Tomorrow, Reconfigure, NumbersInv, NumbersTyped
<1>3. startMonth' \in 1..12
  BY NumberingAssumption DEF Tomorrow, Reconfigure, NumbersInv, NumbersTyped
<1>4. today' \in 1..Len(Dates)
  BY NumberingAssumption DEF Tomorrow, Reconfigure, NumbersInv, NumbersTyped
<1>5. NumbersTyped'
  BY <1>1, <1>2, <1>3, <1>4 DEF NumbersInv, NumbersTyped
<1> QED BY <1>1, <1>5, MadeBefore DEF NumbersInv

\* However requests, midnights, first uses of a counter and changes of the configuration
\* overlap, no text is given out as a number twice while the patterns in use print different
\* counts differently and no layer was changed between the two reads of a request
\* (nextNumber of config.service.ts).
THEOREM NumbersAreUnique == NumbersSpec => []NumbersDiffer
<1>1. NumbersInv /\ [NumbersNext]_numberVars => NumbersInv'
  <2> SUFFICES ASSUME NumbersInv, [NumbersNext]_numberVars PROVE NumbersInv' OBVIOUS
  <2>1. CASE NumbersNext
    BY <2>1, AskKeeps, AskLayerKeeps, AllocateKeeps, OthersKeepNumbers DEF NumbersNext
  <2>2. CASE UNCHANGED numberVars
    <3>1. UNCHANGED <<layers, startMonth, today, counters, issued, asking>>
      BY <2>2 DEF numberVars
    <3>2. NumbersTyped'
      BY <3>1 DEF NumbersInv, NumbersTyped
    <3> QED BY <3>1, <3>2, MadeBefore DEF NumbersInv
  <2> QED BY <2>1, <2>2
<1>2. NumbersInv => NumbersDiffer
  <2> SUFFICES ASSUME NumbersInv, ~LayerChangedBetweenReads, TextsTellApart,
                      NEW i \in 1..Len(issued), NEW j \in 1..Len(issued),
                      issued[i].text = issued[j].text
               PROVE  i = j
    BY DEF NumbersDiffer
  <2>1. ASSUME NEW k \in 1..Len(issued)
        PROVE  /\ IsCall(issued[k].call) /\ issued[k].seq \in 1..MaxNumbers
               /\ issued[k].text = Render(issued[k].call, issued[k].seq)
               /\ MeantToCount(issued[k].call) = Counter(issued[k].call)
    <3>1. Made(issued[k]) BY DEF NumbersInv, NumbersMade
    <3>2. Len(issued) \in 0..MaxNumbers /\ MaxNumbers \in Nat
      BY NumberingAssumption DEF NumbersInv, NumbersMade
    <3>3. counters[Counter(issued[k].call)] \in 1..Len(issued)
      BY <3>1 DEF Made, NumbersInv, NumbersMade
    <3>5. /\ issued[k].seq \in Nat /\ 1 <= issued[k].seq
          /\ issued[k].seq <= counters[Counter(issued[k].call)]
      BY <3>1, <3>3 DEF Made
    <3>6. issued[k].seq \in 1..MaxNumbers BY <3>2, <3>3, <3>5
    <3>4. MeantToCount(issued[k].call) = Counter(issued[k].call)
      BY <3>1, CountsWhatIsMeant DEF Made, LayerChangedBetweenReads
    <3> QED BY <3>1, <3>4, <3>6 DEF Made
  <2>2. /\ MeantToCount(issued[i].call) = MeantToCount(issued[j].call)
        /\ issued[i].seq = issued[j].seq
    BY <2>1 DEF TextsTellApart
  <2> QED BY <2>1, <2>2 DEF NumbersInv, NumbersMade
<1> QED BY NumbersBegin, <1>1, <1>2, PTL DEF NumbersSpec
=============================================================================
