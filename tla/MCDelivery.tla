----------------------------- MODULE MCDelivery -----------------------------
(***************************************************************************)
(* What becomes of a change, in one run: the event of it, through the      *)
(* outbox and the bus (EventDelivery), the call that copies a workflow     *)
(* state to its record (StatusCopy), and the automations that events       *)
(* trigger and that make further events (AutomationChains).  They share no *)
(* state.  A behaviour belongs to one of them and the others stay where    *)
(* they begin; there, none of their fair actions is enabled.               *)
(***************************************************************************)
EXTENDS EventDelivery, StatusCopy, AutomationChains

CONSTANTS
    r1, r2, w1, w2

VARIABLE part

\* A submitted record is approved, or rejected back to a draft.
DraftPendingApproved ==
    {<<"draft", "pending">>, <<"pending", "draft">>, <<"pending", "approved">>}

\* An order that is opened is closed and the other way round, with a note; a note makes a
\* bill and a file, and a bill another bill.
Do(do, entity, what) == [do |-> do, entity |-> entity, what |-> what]
When(entity, type, what, steps) ==
    [entity |-> entity, type |-> type, what |-> what, steps |-> steps]
Circular ==
    <<When("order", "status_changed", "open",
           <<Do("workflow_action", "order", "closed")>>),
      When("order", "status_changed", "closed",
           <<Do("workflow_action", "order", "open"), Do("update", "order", "note")>>),
      When("order", "field_changed", "note",
           <<Do("create", "bill", "sum"), Do("document", "order", "file")>>),
      When("bill", "created", "any", <<Do("create", "bill", "sum")>>)>>
OpenClosed == {[from |-> "open", to |-> "closed"], [from |-> "closed", to |-> "open"]}

DeliveryInit ==
    /\ part \in {"events", "status", "chains"}
    /\ Init /\ CopyInit /\ ChainsInit

DeliveryNext ==
    \/ part = "events" /\ Next /\ UNCHANGED <<copyVars, chainVars, part>>
    \/ part = "status" /\ CopyNext /\ UNCHANGED <<vars, chainVars, part>>
    \/ part = "chains" /\ ChainsNext /\ UNCHANGED <<vars, copyVars, part>>

DeliverySpec ==
    /\ DeliveryInit
    /\ [][DeliveryNext]_<<vars, copyVars, chainVars, part>>
    /\ Fairness
    /\ CopyFairness
=============================================================================
