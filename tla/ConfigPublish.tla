---------------------------- MODULE ConfigPublish ----------------------------
(***************************************************************************)
(* config-service (config.service.ts): the company's draft, its published  *)
(* versions and the requests of several administrators on several          *)
(* replicas.  A draft write is guarded by the draft's revision, a publish  *)
(* by the unique version number.  Each replica remembers the newest        *)
(* version for a second and forgets it when it publishes itself.           *)
(***************************************************************************)
EXTENDS PackLayers, Sequences

CONSTANTS
    Admins,       \* requests in flight at one time
    Replicas,     \* instances of config-service
    EditFields,   \* fields that administrators edit themselves
    EditItems,    \* the items they put; None deletes one
    MaxAttempts,  \* writes of a draft change that are tried (5 in the code)
    MaxRevs,      \* bound: draft writes
    MaxVersions   \* bound: published versions

ASSUME PublishAssumption ==
    /\ EditFields \subseteq Fields
    /\ EditItems \subseteq Items \cup {None}
    /\ MaxRevs \in Nat

VARIABLES
    versions,     \* the published configurations, in order
    draft,        \* the working copy and its revision
    latest,       \* per replica: the remembered version number, None when expired
    calls         \* the requests in flight

vars == <<versions, draft, latest, calls>>

Idle == [op |-> "idle", pc |-> "idle"]
Version(n) == IF n = 0 THEN Empty ELSE versions[n]

Init ==
    /\ versions = <<>>
    /\ draft = [config |-> Empty, rev |-> 0]
    /\ latest = [r \in Replicas |-> None]
    /\ calls = [a \in Admins |-> Idle]

\* A request that has learnt more.
Further(call, parts) ==
    [x \in DOMAIN parts \cup DOMAIN call |-> IF x \in DOMAIN parts THEN parts[x] ELSE call[x]]
Go(a, call) == calls' = [calls EXCEPT ![a] = call]
Refuse(a) == Go(a, Idle) /\ UNCHANGED <<versions, draft, latest>>

Field(s, f, item) == [kind |-> "field", scope |-> s, field |-> f, item |-> item]
Branch(s) == [kind |-> "branch", scope |-> s]
Install(m, taken) == [kind |-> "install", manifest |-> m, taken |-> taken]
Uninstall(p) == [kind |-> "uninstall", pack |-> p]
Edit(change, tries) == [op |-> "edit", change |-> change, tries |-> tries]

\* latest(): the replica answers with the version it remembers, or reads and remembers it.
Newest(r) == IF latest[r] # None THEN latest[r] ELSE Len(versions)
AskLatest(a, r, call, pc) ==
    /\ latest' = [latest EXCEPT ![r] = Newest(r)]
    /\ Go(a, Further(call, [pc |-> pc, seen |-> Newest(r)]))
    /\ UNCHANGED <<versions, draft>>

\* loadDraft(): the working copy with its revision.
ReadDraft(a, call, pc) ==
    /\ Go(a, Further(call, [pc |-> pc, config |-> draft.config, rev |-> draft.rev]))
    /\ UNCHANGED <<versions, draft, latest>>

\* A request begins at one replica with the first thing it reads.
Begins(a) == calls[a] = Idle /\ draft.rev < MaxRevs

\* An item of the company or of a branch is put or deleted (putItem, deleteItem).
EditItem(a, s, f, item) == Begins(a) /\ ReadDraft(a, Edit(Field(s, f, item), 1), "write")
\* A branch's override is taken out as a whole; that write is not tried again.
RemoveOverride(a, s) == Begins(a) /\ ReadDraft(a, Edit(Branch(s), MaxAttempts), "write")
\* A pack is put into or taken out of the draft: the newest version is asked first.  The
\* administrator takes the pack's version of some of the conflicts that the preview shows.
PutPack(a, r, m, taken) ==
    /\ Begins(a)
    /\ taken \subseteq Conflicts(draft.config, m)
    /\ AskLatest(a, r, Edit(Install(m, taken), 1), "draft")
TakePack(a, r, p) == Begins(a) /\ AskLatest(a, r, Edit(Uninstall(p), 1), "draft")
Publish(a, r) == Begins(a) /\ ReadDraft(a, [op |-> "publish", at |-> r], "latest")
Rollback(a, r, n) == Begins(a) /\ AskLatest(a, r, [op |-> "rollback", at |-> r, target |-> n], "write")
DiscardDraft(a, r) == Begins(a) /\ AskLatest(a, r, [op |-> "discard"], "write")

\* The second read: a publish asks for the newest version, a pack change or a change
\* that is tried again loads the draft.
ReadOn(a) ==
    LET call == calls[a] IN
    \/ call.pc = "latest" /\ AskLatest(a, call.at, call, "write")
    \/ call.pc = "draft" /\ ReadDraft(a, call, "write")

\* The change on the draft that was read; what is published is the version asked before.
Changed(call) ==
    LET c == call.config IN
    CASE call.change.kind = "field" ->
            [c EXCEPT !.scopes[call.change.scope][call.change.field] = call.change.item]
      [] call.change.kind = "branch" ->
            [c EXCEPT !.scopes[call.change.scope] = NoFields]
      [] call.change.kind = "install" ->
            InstallPack(c, call.change.manifest, Version(call.seen), call.change.taken)
      [] call.change.kind = "uninstall" ->
            RemovePack(c, call.change.pack, Version(call.seen))

\* What the draft must have for the change to apply: the item, the override, the pack.
Applies(call) ==
    CASE call.change.kind = "field" ->
            call.change.item = None => Has(call.config.scopes[call.change.scope], call.change.field)
      [] call.change.kind = "branch" -> call.config.scopes[call.change.scope] # NoFields
      [] call.change.kind = "install" -> TRUE
      [] call.change.kind = "uninstall" -> call.config.packs[call.change.pack] # None

\* mutate, mutateConfig, removeOverride: the write counts only on the revision read.
WriteDraft(a) ==
    LET call == calls[a] IN
    /\ call.op = "edit"
    /\ call.pc = "write"
    /\ draft.rev < MaxRevs
    /\ UNCHANGED <<versions, latest>>
    /\ \/ /\ Applies(call)
          /\ draft.rev = call.rev
          /\ draft' = [config |-> Changed(call), rev |-> draft.rev + 1]
          /\ Go(a, Idle)
       \/ /\ Applies(call)
          /\ draft.rev # call.rev
          /\ call.tries < MaxAttempts
          /\ Go(a, Further(call, [pc |-> "draft", tries |-> call.tries + 1]))
          /\ UNCHANGED draft
       \/ /\ ~Applies(call) \/ (draft.rev # call.rev /\ call.tries = MaxAttempts)
          /\ Go(a, Idle)
          /\ UNCHANGED draft

DiscardTo(a, rev) ==
    /\ calls[a].op = "discard"
    /\ calls[a].pc = "write"
    /\ draft.rev < MaxRevs
    /\ draft' = [config |-> Version(calls[a].seen), rev |-> rev]
    /\ Go(a, Idle)
    /\ UNCHANGED <<versions, latest>>

\* Mutant: discarding does not count as a save.
DiscardUncounted(a) == DiscardTo(a, draft.rev)

\* The draft becomes the version the replica knew, whatever was saved since.
WriteDiscard(a) == DiscardTo(a, draft.rev + 1)

\* What a publish or rollback puts in the new version.
ToPublish(call) ==
    IF call.op = "publish" THEN call.config
    ELSE WithArchivedLeftovers(Version(call.target), Version(call.seen))

SaveIf(a, isNext(_)) ==
    LET call == calls[a]
        config == ToPublish(call)
        previous == Version(call.seen)
    IN /\ call.op \in {"publish", "rollback"}
       /\ call.pc = "write"
       /\ Len(versions) < MaxVersions
       /\ draft.rev < MaxRevs
       /\ IF /\ Publishable(config, previous)
             /\ call.op = "publish" => ~Same(config, previous)
             /\ call.op = "rollback" => call.target # call.seen
             /\ isNext(call.seen + 1)
          THEN /\ versions' = Append(versions, config)
               /\ draft' = [config |-> config, rev |-> draft.rev + 1]
               /\ latest' = [latest EXCEPT ![call.at] = None]
               /\ Go(a, Idle)
          ELSE Refuse(a)

\* Mutant: the number of the version is taken when it is written.
SaveUnnumbered(a) == SaveIf(a, LAMBDA n : TRUE)

\* The new number follows the version the request saw; the unique index refuses a second
\* version of that number.  The draft is overwritten with what was published.
SaveVersion(a) == SaveIf(a, LAMBDA n : n = Len(versions) + 1)

\* A second has passed.
Expires(r) ==
    /\ latest[r] # None
    /\ latest' = [latest EXCEPT ![r] = None]
    /\ UNCHANGED <<versions, draft, calls>>

\* The replica stops, or the draft is refused by the other checks.
Abandon(a) == calls[a] # Idle /\ Refuse(a)

Next ==
    \/ \E a \in Admins, r \in Replicas :
          \/ \E m \in Manifests, taken \in SUBSET EditFields : PutPack(a, r, m, taken)
          \/ \E p \in Packs : TakePack(a, r, p)
          \/ Publish(a, r)
          \/ \E n \in 1..Len(versions) : Rollback(a, r, n)
          \/ DiscardDraft(a, r)
    \/ \E a \in Admins :
          \/ \E s \in Scopes, f \in EditFields, item \in EditItems :
                EditItem(a, s, f, item)
          \/ \E s \in Branches : RemoveOverride(a, s)
          \/ ReadOn(a)
          \/ WriteDraft(a)
          \/ WriteDiscard(a)
          \/ SaveVersion(a)
          \/ Abandon(a)
    \/ \E r \in Replicas : Expires(r)

Spec == Init /\ [][Next]_vars

-----------------------------------------------------------------------------
\* The draft, the versions and the remembered numbers have their types.
TypeOK ==
    /\ versions \in Seq(Configs) /\ Len(versions) <= MaxVersions
    /\ draft \in [config : Configs, rev : 0..MaxRevs]
    /\ latest \in [Replicas -> (0..MaxVersions) \cup {None}]

\* A version keeps, live or archived and with a type that fits, what the version just
\* before it has in the packs, the company and each branch, and leaves locked fields alone,
\* although every replica may validate against a version that is no longer the newest
\* (saveVersion, the unique index of models.ts).
PublishedStays == \A n \in 0..(Len(versions) - 1) : Publishable(Version(n + 1), Version(n))

\* A field of both has a type that does not become the other's.
Retyped(prev, next) ==
    \E f \in Fields : Has(prev, f) /\ Has(next, f) /\ ~Fits(prev[f], next[f])

\* The pack locks a field that the company or a branch has retyped or archived.
LocksOver(m, c) ==
    \E f \in Fields, s \in Scopes :
        /\ Has(m.own, f) /\ m.own[f].locked
        /\ Has(c.scopes[s], f)
        /\ c.scopes[s][f].archived \/ c.scopes[s][f].type # m.own[f].type

\* The company or a branch has an item marked as locked that is archived: no later
\* version of it is valid.
Frozen(c) ==
    \E f \in Fields, s \in Scopes :
        Has(c.scopes[s], f) /\ c.scopes[s][f].locked /\ c.scopes[s][f].archived

\* The company's or a branch's version of a locked field is another now, or new.
LockedSince(target, newest) ==
    \E f \in Fields, s \in Scopes :
        /\ Has(newest.scopes[s], f)
        /\ newest.scopes[s][f] # target.scopes[s][f]
        /\ \/ newest.scopes[s][f].locked
           \/ Has(PackLayer(target), f) /\ PackLayer(target)[f].locked

\* A pack can be installed or upgraded (keeping the company's items) unless it changes a
\* type of its own in a way that breaks data or locks what the company has its own way;
\* one can always be removed; and every rollback can be published unless a type has been
\* changed since, which does not change back, or a locked field's own version has been.
\* So far as these checks go, no content that the packs published is lost on these ways
\* (pack-ops.ts, diff.ts, validate.ts).
PackChangesPublish ==
    LET newest == Version(Len(versions)) IN
    (\A a \in Admins : calls[a] = Idle) /\ ~Frozen(newest) =>
        /\ \A m \in Manifests : Retyped(PackLayer(newest), m.own) \/ LocksOver(m, newest)
              \/ Publishable(InstallPack(newest, m, newest, {}), newest)
        /\ \A p \in Packs : Publishable(RemovePack(newest, p, newest), newest)
        /\ \A n \in 1..Len(versions) :
              LET target == Version(n) IN
              \/ Retyped(PacksOf(newest), PacksOf(target))
              \/ \E s \in Scopes : Retyped(newest.scopes[s], target.scopes[s])
              \/ LockedSince(target, newest)
              \/ Publishable(WithArchivedLeftovers(target, newest), newest)

\* A change is computed on the configuration it replaces: no revision number ever stands
\* for two drafts, whatever edits, discards and publishes overlap (draft.rev).
RevIdentifiesDraft ==
    \A a \in Admins :
        calls[a].op = "edit" /\ calls[a].pc = "write" /\ calls[a].rev = draft.rev
            => calls[a].config = draft.config
=============================================================================
