--------------------------- MODULE EventContract ---------------------------
(***************************************************************************)
(* What the outbox, the bus and handleOnce promise together to one         *)
(* subscriber (docs/architecture.md, "Transactional outbox"): none is      *)
(* handled for a write that failed, an event that is handled takes effect  *)
(* once, and none is lost - but for one the docs do not name: an event     *)
(* whose change a unique index of the subscriber refuses is passed over.   *)
(***************************************************************************)
EXTENDS Naturals

CONSTANT Events

VARIABLES
    recorded,   \* events whose data change committed
    effects,    \* how many times the subscriber's change of each event committed
    refused     \* events whose change the subscriber's own index refused

contractVars == <<recorded, effects, refused>>

ContractInit ==
    /\ recorded = {}
    /\ effects = [e \in Events |-> 0]
    /\ refused = {}

Record(e) ==
    /\ e \notin recorded
    /\ recorded' = recorded \union {e}
    /\ UNCHANGED <<effects, refused>>

Handle(e) ==
    /\ e \in recorded
    /\ effects[e] = 0
    /\ effects' = [effects EXCEPT ![e] = 1]
    /\ UNCHANGED <<recorded, refused>>

Refuse(e) ==
    /\ e \in recorded
    /\ effects[e] = 0
    /\ refused' = refused \union {e}
    /\ UNCHANGED <<recorded, effects>>

\* The subscriber has an answer to the event.
Settle(e) == e \notin refused /\ (Handle(e) \/ Refuse(e))

ContractNext == \E e \in Events : Record(e) \/ Handle(e) \/ Refuse(e)

Contract ==
    /\ ContractInit
    /\ [][ContractNext]_contractVars
    /\ \A e \in Events : WF_contractVars(Settle(e))
=============================================================================
