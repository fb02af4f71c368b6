\* One fault is enough: a crash after the run record was created.
CONSTANTS
    h1 = h1
    h2 = h2
    h3 = h3
    e1 = e1
    e2 = e2
    Events = {e1}
    NoEvent = NoEvent
    Handlers = {h1, h2}
    NumSteps = 2
    CreateSteps = {2}
    MaxDeliver = 3
    MaxAttempts = 3
    MaxFaults = 1
SPECIFICATION FairSpec
PROPERTIES EveryRunEnds
CHECK_DEADLOCK FALSE
