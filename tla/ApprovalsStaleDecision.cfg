SPECIFICATION Spec
CONSTANTS
  ann = ann
  bob = bob
  cho = cho
  r1 = r1
  r2 = r2
  Users = {ann, bob, cho}
  Requester = ann
  States = {"draft", "pending", "approved"}
  InitialState = "draft"
  Actions = {"submit", "cancel"}
  ActionDef <- SubmitCancel
  NumLevels = 2
  Mode <- AnyThenAll
  Resolve <- BobAndCho
  Escalation <- Nowhere
  EscalateTo = {}
  Reminds = {}
  Escalates = {1}
  Removable = {2}
  Delegate <- AnnForBob
  Requests = {r1, r2}
  MaxVersion = 4
  MaxBatches = 2
PROPERTY LevelsAreAnswered
SYMMETRY RequestSymmetry
CHECK_DEADLOCK FALSE
