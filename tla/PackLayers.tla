----------------------------- MODULE PackLayers -----------------------------
(***************************************************************************)
(* The configuration of a company as layers (packages/metadata: merge.ts,  *)
(* packs.ts, pack-ops.ts, diff.ts, validate.ts).  A layer has an item for  *)
(* some fields: its type, whether it is archived, whether a pack locked it *)
(* and its wording; a later layer replaces an earlier one field by field.  *)
(* Fields stand for all keyed content.                                     *)
(***************************************************************************)
EXTENDS Naturals, FiniteSets

CONSTANTS
    Fields,     \* keys of fields
    Types,      \* types of a field
    Compatible, \* COMPATIBLE_CHANGES: pairs of types, from and to
    Labels,     \* the rest of an item: its label, help, option list
    Packs,      \* identifiers of packs
    Owner,      \* the pack that may ship a field
    Manifests,  \* what packs ship: [pack, version, own]
    Branches,   \* org units that may override the configuration
    Company,    \* the scope of the company's own layer
    None        \* no item, and a pack that is not installed

Items == [type : Types, archived : BOOLEAN, locked : BOOLEAN, label : Labels]
Layers == [Fields -> Items \cup {None}]

\* Packs prefix the keys of their entities: no two packs ship one field.
ASSUME PackAssumption ==
    /\ Compatible \subseteq Types \X Types
    /\ Owner \in [Fields -> Packs]
    /\ Manifests \subseteq [pack : Packs, version : Nat, own : Layers]
    /\ \A m \in Manifests, f \in Fields : m.own[f] # None => Owner[f] = m.pack
    /\ None \notin Manifests \cup Items
    /\ Company \notin Branches

Scopes == {Company} \cup Branches
Configs == [packs : [Packs -> Manifests \cup {None}], retired : Layers,
            scopes : [Scopes -> Layers]]

NoFields == [f \in Fields |-> None]
Empty == [packs |-> [p \in Packs |-> None], retired |-> NoFields,
          scopes |-> [s \in Scopes |-> NoFields]]

Has(layer, f) == layer[f] # None
Over(below, above) == [f \in Fields |-> IF Has(above, f) THEN above[f] ELSE below[f]]
Archived(item) == [item EXCEPT !.archived = TRUE]

\* packLayers without the company: the packs' own entities.
PackLayer(c) ==
    [f \in Fields |->
        LET m == c.packs[Owner[f]] IN IF m = None THEN None ELSE m.own[f]]

\* What the packs define and what they once defined; the retired layer comes second.
PacksOf(c) == Over(PackLayer(c), c.retired)

-----------------------------------------------------------------------------
\* Mutant: fields are retired only when the company also has them.
RetireOverridden(next, published) ==
    [next EXCEPT !.retired = [f \in Fields |->
        IF Has(PacksOf(published), f) /\ ~Has(PacksOf(next), f) /\ Has(next.scopes[Company], f)
        THEN Archived(PacksOf(published)[f]) ELSE @[f]]]

\* Published content that the packs no longer define is archived in the retired layer.
Retire(next, published) ==
    [next EXCEPT !.retired = [f \in Fields |->
        IF Has(PacksOf(published), f) /\ ~Has(PacksOf(next), f)
        THEN Archived(PacksOf(published)[f]) ELSE @[f]]]

\* What the company changed and the new version changes too (previewPack).
Conflicts(c, m) ==
    {f \in Fields : /\ Has(PackLayer(c), f)
                    /\ Owner[f] = m.pack
                    /\ PackLayer(c)[f] # m.own[f]
                    /\ Has(c.scopes[Company], f)}

\* The company's version of an item is dropped, so that the pack's applies.
DropFromCompany(c, taken) ==
    [c EXCEPT !.scopes[Company] = [f \in Fields |-> IF f \in taken THEN None ELSE @[f]]]

InstallPack(c, m, published, taken) ==
    Retire(DropFromCompany([c EXCEPT !.packs[m.pack] = m], taken), published)

RemovePack(c, p, published) == Retire([c EXCEPT !.packs[p] = None], published)

\* What the target lacks is kept archived: in the company's and the branches' layers,
\* and the packs' content in the retired layer.
WithArchivedLeftovers(target, current) ==
    LET Keep(to, from) ==
            [f \in Fields |-> IF Has(from, f) /\ ~Has(to, f) THEN Archived(from[f]) ELSE to[f]]
        missing == {f \in Fields : Has(PacksOf(current), f) /\ ~Has(PacksOf(target), f)}
    IN [target EXCEPT
          !.retired = [f \in Fields |->
              IF f \in missing THEN Archived(PacksOf(current)[f]) ELSE @[f]],
          !.scopes = [s \in Scopes |-> Keep(@[s], current.scopes[s])]]

-----------------------------------------------------------------------------
Fits(old, new) == new.type = old.type \/ <<old.type, new.type>> \in Compatible

\* checkBreakingChanges: published content may be archived but not removed, and its type
\* changes only to one that keeps the data valid.
Keeps(prev, next) == \A f \in Fields : Has(prev, f) => Has(next, f) /\ Fits(prev[f], next[f])

\* An item made from a locked one of a pack stays as it is outside the packs.
KeepsLocked(prev, next) ==
    \A f \in Fields : Has(prev, f) /\ prev[f].locked =>
        next[f].type = prev[f].type /\ ~next[f].archived

\* checkLockedFields: what a pack locks is neither retyped nor archived by the company or
\* a branch.
LocksHold(c) ==
    \A f \in Fields, s \in Scopes :
        Has(PackLayer(c), f) /\ PackLayer(c)[f].locked /\ Has(c.scopes[s], f) =>
            c.scopes[s][f].type = PackLayer(c)[f].type /\ ~c.scopes[s][f].archived

\* validateTenantConfig against the version before; the checks of the merged
\* configuration by itself (shapes, references, cycles) may refuse it as well.
Publishable(config, previous) ==
    /\ LocksHold(config)
    /\ Keeps(PacksOf(previous), PacksOf(config))
    /\ \A s \in Scopes : /\ Keeps(previous.scopes[s], config.scopes[s])
                         /\ KeepsLocked(previous.scopes[s], config.scopes[s])

\* diffConfigs finds nothing: packs by identifier and version, company and branches.
Same(c1, c2) ==
    /\ \A p \in Packs : IF None \in {c1.packs[p], c2.packs[p]} THEN c1.packs[p] = c2.packs[p]
                        ELSE c1.packs[p].version = c2.packs[p].version
    /\ c1.scopes = c2.scopes
=============================================================================
