-------------------------- MODULE MCAutomationRuns --------------------------
(* Instances of AutomationRuns for TLC. *)
EXTENDS AutomationRuns, TLC

CONSTANTS h1, h2, h3, e1, e2

\* Any handler may serve any delivery or request, and the events are alike.
HandlerSymmetry == Permutations(Handlers) \union Permutations(Events)
=============================================================================
