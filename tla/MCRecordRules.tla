--------------------------- MODULE MCRecordRules ---------------------------
(* Small sets of rules for TLC. *)
EXTENDS RecordRules

Always == [kind |-> "always"]
Is(k, v) == [kind |-> "is", field |-> k, value |-> v]
Changes(k) == [kind |-> "changed", field |-> k]
Rule(effect, k, when) == [effect |-> effect, field |-> k, when |-> when, value |-> 2]

\* Rules of every effect and kind of condition, on their own and two together.
SomeRules ==
    {Rule("set", "price", Is("note", 1)), Rule("set", "note", Changes("price")),
     Rule("hide", "price", Is("note", 2)), Rule("hide", "link", Always),
     Rule("readonly", "price", Always), Rule("readonly", "note", Is("price", 1)),
     Rule("require", "note", Changes("link")), Rule("require", "price", Always),
     Rule("block", "note", Is("total", 2)), Rule("block", "price", Changes("price"))}
UpToTwo == {<<>>} \cup {<<r>> : r \in SomeRules} \cup (SomeRules \X SomeRules)
=============================================================================
