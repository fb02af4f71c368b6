---------------------------- MODULE RecordRules ----------------------------
(***************************************************************************)
(* What a save makes of the values a user sends (create and update of      *)
(* records.service.ts): the rules of the entity (rules.ts), values copied  *)
(* from a linked record (fillDefaults), the checks and the formulas of     *)
(* validateRecord (record.ts), and the rules once more.  One record of an  *)
(* entity with a lookup `link`, a `price` with defaultFrom "link.price", a *)
(* `note` with a default, and a formula `total` over the price.            *)
(***************************************************************************)
EXTENDS Naturals, Sequences, SequencesExt, Functions

CONSTANTS
    RuleSets,   \* sequences of rules an entity may have
    Item,       \* the record `link` may point at
    Blank,      \* what a client sends to clear a field
    Prices,     \* values of `price`
    Notes       \* values of `note`; the first one sent may be its default

VARIABLES
    rules,      \* the active rules of the entity
    entity,     \* whether it has the formula and the default of `note`
    item,       \* the price of the linked record
    stored      \* the data of the record, or NoRecord

rulesVars == <<rules, entity, item, stored>>

NoRecord == [kind |-> "none"]
Record(data) == [kind |-> "record", data |-> data]
NoData == [k \in {} |-> Blank]

Typed == {"link", "price", "note"}
ValuesOf(k) == CASE k = "link" -> {Item} [] k = "price" -> Prices [] k = "note" -> Notes
Filled(data, k) == k \in DOMAIN data /\ data[k] # Blank
Without(data, k) == Restrict(data, DOMAIN data \ {k})
With(data, k, v) == [x \in DOMAIN data \cup {k} |-> IF x = k THEN v ELSE data[x]]
Spread(data, below) ==
    [k \in DOMAIN data \cup DOMAIN below |-> IF k \in DOMAIN data THEN data[k] ELSE below[k]]
Put(data, k, v) == IF v = Blank THEN Without(data, k) ELSE With(data, k, v)

\* What a client may send: any values for any of the typed fields.
Bodies == UNION {{f \in [ks -> Prices \cup Notes \cup {Item, Blank}] :
                    \A k \in ks : f[k] \in ValuesOf(k) \cup {Blank}} : ks \in SUBSET Typed}

RulesInit ==
    /\ rules \in RuleSets
    /\ entity \in [formula : BOOLEAN, default : BOOLEAN]
    /\ item \in Prices
    /\ stored = NoRecord

-----------------------------------------------------------------------------
\* conditionHolds: always, a field has a value, or it changes in this save.
Holds(when, data, old) ==
    CASE when.kind = "always" -> TRUE
      [] when.kind = "is" -> Filled(data, when.field) /\ data[when.field] = when.value
      [] when.kind = "changed" ->
           Filled(data, when.field) # Filled(old, when.field)
             \/ (Filled(data, when.field) /\ data[when.field] # old[when.field])

\* One pass over the rules: each is tested on what the ones before it made of the data.
\* `fields` are the ones found hidden, read-only and required, in the order of the rules.
Adding(ks, k) == IF Contains(ks, k) THEN ks ELSE Append(ks, k)
ApplyOne(seen, r, old) ==
    IF r.effect = "block" \/ ~Holds(r.when, seen.data, old) THEN seen
    ELSE IF r.effect = "set"
    THEN [data |-> With(seen.data, r.field, r.value), fields |-> seen.fields]
    ELSE [data |-> seen.data,
          fields |-> [seen.fields EXCEPT ![r.effect] = Adding(seen.fields[r.effect], r.field)]]

Unseen(input) ==
    [data |-> input, fields |-> [e \in {"hide", "readonly", "require"} |-> <<>>]]
Pass(rs, input, old) ==
    LET seen[n \in 0..Len(rs)] ==
            IF n = 0 THEN Unseen(input) ELSE ApplyOne(seen[n - 1], rs[n], old)
    IN seen

\* Hidden and read-only fields go back to what they were, one after the other, unless a
\* `set` rule for the field holds by now.
SetByRule(rs, k, data, old) ==
    \E i \in DOMAIN rs : rs[i].effect = "set" /\ rs[i].field = k /\ Holds(rs[i].when, data, old)

RevertOne(rs, data, k, old) ==
    IF SetByRule(rs, k, data, old) THEN data
    ELSE IF Filled(old, k) THEN With(data, k, old[k]) ELSE Without(data, k)

Revert(rs, data, ks, old) ==
    LET reverted[n \in 0..Len(ks)] ==
            IF n = 0 THEN data ELSE RevertOne(rs, reverted[n - 1], ks[n], old)
    IN reverted

\* Mutant: hidden fields are not reverted.
ApplyKeepingHidden(rs, input, old) ==
    LET seen == Pass(rs, input, old)[Len(rs)]
        ks == seen.fields["readonly"]
    IN [data |-> Revert(rs, seen.data, ks, old)[Len(ks)], fields |-> seen.fields]

ApplyFieldRules(rs, input, old) ==
    LET seen == Pass(rs, input, old)[Len(rs)]
        ks == seen.fields["hide"] \o seen.fields["readonly"]
    IN [data |-> Revert(rs, seen.data, ks, old)[Len(ks)], fields |-> seen.fields]

\* fillDefaults: an empty price is copied from the linked record.
FillDefaults(input) ==
    IF ~Filled(input, "price") /\ Filled(input, "link") THEN With(input, "price", item) ELSE input

\* validateRecord: defaults on create, the values that were sent over the ones that were
\* stored, and the formula.  A value for a calculated field is refused.
DefaultsFor(input, creating) ==
    IF creating /\ entity.default /\ "note" \notin DOMAIN input
    THEN [k \in {"note"} |-> CHOOSE n \in Notes : TRUE] ELSE NoData

Merge(data, input) ==
    LET sent == DOMAIN input \cap Typed
        after(k) == IF k \in sent THEN input[k] ELSE data[k]
    IN [k \in {x \in DOMAIN data \cup sent : after(x) # Blank} |-> after(k)]

ComputeFormulas(data) ==
    IF ~entity.formula THEN data
    ELSE Put(data, "total", IF Filled(data, "price") THEN data["price"] ELSE Blank)

Calculated(input) == Filled(input, "total")

ValidateRecord(input, old, creating) ==
    ComputeFormulas(Merge(Spread(DefaultsFor(input, creating), old), input))

\* checkRules: on the final values.
Refuses(rs, effects, data, old) ==
    \/ \E i \in DOMAIN effects.fields["require"] :
          LET k == effects.fields["require"][i]
          IN ~Filled(data, k) /\ ~Contains(effects.fields["hide"], k)
    \/ \E i \in DOMAIN rs : rs[i].effect = "block" /\ Holds(rs[i].when, data, old)

\* A save: the data it stores, or "refused".  Without rules only the values that were
\* sent go on; with rules the stored ones go along.
Save(rs, body) ==
    LET creating == stored = NoRecord
        old == IF creating THEN NoData ELSE stored.data
        sent == IF rs = <<>> THEN body ELSE Spread(body, old)
        effects == ApplyFieldRules(rs, sent, old)
        input == FillDefaults(effects.data)
        data == ValidateRecord(input, old, creating)
    IN IF Calculated(input) \/ Refuses(rs, effects, data, old)
       THEN [kind |-> "refused"] ELSE Record(data)

-----------------------------------------------------------------------------
Write(rs, body) ==
    LET after == Save(rs, body) IN
    /\ stored' = IF after.kind = "refused" THEN stored ELSE after
    /\ UNCHANGED <<rules, entity, item>>

Create(body) == stored = NoRecord /\ Write(rules, body)
Update(body) == stored # NoRecord /\ Write(rules, body)

\* Automations and other services write without rules.
SystemWrite(body) == Write(<<>>, body)

\* The linked record gets another price.
ItemChanges(p) == item' = p /\ UNCHANGED <<rules, entity, stored>>

RulesNext ==
    \/ \E body \in Bodies : Create(body) \/ Update(body) \/ SystemWrite(body)
    \/ \E p \in Prices : ItemChanges(p)

RulesSpec == RulesInit /\ [][RulesNext]_rulesVars

-----------------------------------------------------------------------------
\* A record has its fields only, each with a value of its kind.
RulesTypeOK ==
    stored # NoRecord => \A k \in DOMAIN stored.data :
        k = "total" \/ (k \in Typed /\ stored.data[k] \in ValuesOf(k))

Old == IF stored = NoRecord THEN NoData ELSE stored.data
RulesWith(effect) == {i \in DOMAIN rules : rules[i].effect = effect}

\* What a save of a user stores satisfies no blocking rule, and the formula is that of
\* the values it stores (checkRules and computeFormulas come last).
SavedObeys(body) ==
    LET after == Save(rules, body) IN
    after.kind = "record" =>
        /\ \A i \in RulesWith("block") : ~Holds(rules[i].when, after.data, Old)
        /\ entity.formula => /\ Filled(after.data, "total") <=> Filled(after.data, "price")
                             /\ Filled(after.data, "price") => after.data.total = after.data.price

\* "Hidden and read-only fields keep their previous value, whatever the client sent"
\* (rules.ts:124): while no rule sets values, a field that a rule protects keeps its
\* value, or, being empty, gets only what the linked record or its default say.
ProtectedKeeps(body) ==
    LET after == Save(rules, body) IN
    after.kind = "record" /\ RulesWith("set") = {} =>
        \A i \in RulesWith("hide") \cup RulesWith("readonly") :
            rules[i].field \in Typed /\ Holds(rules[i].when, Spread(body, Old), Old) =>
                LET k == rules[i].field IN
                IF Filled(Old, k) THEN after.data[k] = Old[k]
                ELSE Filled(after.data, k) => /\ k # "link"
                                              /\ k = "price" => after.data[k] = item
                                              /\ k = "note" => stored = NoRecord /\ entity.default

\* Fields that the client did not send keep their value unless a rule sets them; without
\* rules, a price that is not sent along with the link is copied again.
RestIsKept(body) ==
    LET after == Save(rules, body) IN
    after.kind = "record" =>
        \A k \in Typed \ DOMAIN body :
            Filled(Old, k) /\ (\A i \in RulesWith("set") : rules[i].field # k) =>
                \/ Filled(after.data, k) /\ after.data[k] = Old[k]
                \/ k = "price" /\ rules = <<>> /\ Filled(body, "link") /\ after.data[k] = item

SavesObeyRules ==
    \A body \in Bodies : SavedObeys(body) /\ ProtectedKeeps(body) /\ RestIsKept(body)

\* "when [create / update / any save], if [condition], then ..."
\* (docs/step-4-workflows-rules.md:23): rules whose condition does not hold refuse no
\* save that is good without them.
QuietRulesRefuseNothing ==
    \A body \in Bodies :
        LET plain == Save(<<>>, body) IN
        /\ plain.kind = "record"
        /\ \A i \in DOMAIN rules :
              ~Holds(rules[i].when, Spread(body, Old), Old) /\ ~Holds(rules[i].when, plain.data, Old)
        => Save(rules, body).kind = "record"
=============================================================================
