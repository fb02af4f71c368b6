\* What follows one change by a user when automations trigger each other in a circle, with
\* one failed or slow call (the other parts have the bounds of Delivery.cfg).
CONSTANTS
    NumEvents = 1
    r1 = r1
    r2 = r2
    w1 = w1
    w2 = w2
    Relays = {r1, r2}
    Workers = {w1, w2}
    Requests = {1}
    MaxDeliver = 5
    MaxCopies = 4
    MaxFaults = 4
    Pushers = {r1, r2}
    Moves <- DraftPendingApproved
    States = {"draft", "pending", "approved"}
    InitialState = "draft"
    MaxActs = 3
    MaxFailures = 3
    Handlers = {r1, r2}
    Automations <- Circular
    Entity = "order"
    Fields = {"note"}
    FirstState = "open"
    Actions <- OpenClosed
    MAX_DEPTH = 3
    MaxChanges = 1
    MaxTroubles = 1
SPECIFICATION DeliverySpec
INVARIANT AutomationsStop
CHECK_DEADLOCK FALSE
