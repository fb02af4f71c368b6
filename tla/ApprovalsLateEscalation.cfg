SPECIFICATION Spec
CONSTANTS
  ann = ann
  bob = bob
  cho = cho
  r1 = r1
  r2 = r2
  Users = {ann, bob, cho}
  Requester = ann
  States = {"draft", "pending", "approved"}
  InitialState = "draft"
  Actions = {"submit", "cancel"}
  ActionDef <- SubmitCancel
  NumLevels = 2
  Mode <- AnyThenAll
  Resolve <- BobThenCho
  Escalation <- ToCho
  EscalateTo = {1}
  Reminds = {}
  Escalates = {1}
  Removable = {}
  Delegate <- AnnForBob
  Requests = {r1, r2}
  MaxVersion = 4
  MaxBatches = 2
INVARIANT NoTaskWithoutApproval
SYMMETRY RequestSymmetry
CHECK_DEADLOCK FALSE
