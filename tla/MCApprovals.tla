---------------------------- MODULE MCApprovals ----------------------------
(* Small workflows for Approvals.  Every one has the action "submit", which  *)
(* asks for approval, and "cancel", which leaves it; ann is the requester.   *)
EXTENDS Approvals, TLC

CONSTANTS ann, bob, cho, r1, r2

SubmitCancel ==
  [submit |-> [from |-> {"draft"}, to |-> "pending", approval |-> TRUE,
               approved |-> "approved", rejected |-> "draft",
               actors |-> {ann}],
   cancel |-> [from |-> {"pending"}, to |-> "draft", approval |-> FALSE,
               approved |-> "draft", rejected |-> "draft",
               actors |-> {ann, System}]]

\* The same without an automation that cancels.
SubmitCancelByAnn == [SubmitCancel EXCEPT !["cancel"].actors = {ann}]

\* Level 1: any of bob and cho; level 2: all of them.
AnyThenAll   == [l \in Levels |-> IF l = 1 THEN "any" ELSE "all"]
BobAndCho    == [l \in Levels |-> {{ann, bob, cho}}]
\* Level 1: bob alone; level 2: cho, or nobody when the role is vacant.
BobThenCho   == [l \in Levels |-> IF l = 1 THEN {{bob}} ELSE {{cho}, {}}]
ToCho        == [l \in Levels |-> {{cho}, {ann}}]
BobThenBoth  == [l \in Levels |-> IF l = 1 THEN {{bob}} ELSE {{bob, cho}, {}}]
Nowhere      == [l \in Levels |-> {}]
AnnForBob    == {<<bob, ann>>}

RequestSymmetry == Permutations(Requests)
=============================================================================
