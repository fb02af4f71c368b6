-------------------------- MODULE MCConfigPublish --------------------------
(* Instances of ConfigPublish for TLC. *)
EXTENDS ConfigPublish, TLC

CONSTANTS a1, a2, r1, r2, f, g, pack, branch

Item0(type, locked, label) ==
    [type |-> type, archived |-> FALSE, locked |-> locked, label |-> label]
Widened == {<<"text", "longtext">>}
OwnedBy == (f :> pack @@ g :> pack)

\* The first edition locks one text and has another; the second makes the locked one a
\* longer text and drops the other.
First == [pack |-> pack, version |-> 1,
          own |-> (f :> Item0("text", TRUE, "packs") @@ g :> Item0("text", FALSE, "packs"))]
Second == [pack |-> pack, version |-> 2,
           own |-> (f :> Item0("longtext", TRUE, "packs") @@ g :> None)]
Editions == {First, Second}

\* The company's own version of the locked field suits the second edition only.
OwnItems == {None, Item0("longtext", FALSE, "own")}

\* Requests and replicas run the same code.
ConfigSymmetry == Permutations(Admins) \cup Permutations(Replicas)
=============================================================================
