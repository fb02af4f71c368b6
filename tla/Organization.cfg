\* Two requests at once: on a tree that is changed twice, with one record; and on an
\* approval with two levels, the first of which may be skipped, changed four times.
CONSTANTS
    ann = ann
    bob = bob
    cho = cho
    r1 = r1
    r2 = r2
    Users = {ann, bob, cho}
    Requester = ann
    States = {"draft", "pending", "approved"}
    InitialState = "draft"
    Actions = {"submit", "cancel"}
    ActionDef <- SubmitCancel
    NumLevels = 2
    Mode <- AnyThenAll
    Resolve <- BobThenBoth
    Escalation <- Nowhere
    EscalateTo = {}
    Reminds = {}
    Escalates = {1}
    Removable = {}
    Delegate <- AnnForBob
    Requests = {r1, r2}
    Commands = {r1, r2}
    MaxVersion = 4
    MaxBatches = 3
    top = top
    a = a
    b = b
    c = c
    d = d
    x = x
    Units = {top, a, b, c, d}
    Root = top
    InitialTree <- LineOfThree
    NoUnit = NoUnit
    MAX_DEPTH = 4
    MaxChanges = 2
    Copies = {x}
    Records = {x}
SPECIFICATION OrganizationSpec
SYMMETRY Alike
INVARIANTS TreeIsSound CopiesInStep NoTaskWithoutApproval
PROPERTIES HistoryIsAChain
CHECK_DEADLOCK FALSE
