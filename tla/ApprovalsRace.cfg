SPECIFICATION Spec
CONSTANTS
  ann = ann
  bob = bob
  cho = cho
  r1 = r1
  r2 = r2
  Users = {ann, bob, cho}
  Requester = ann
  States = {"draft", "pending", "approved"}
  InitialState = "draft"
  Actions = {"submit", "cancel"}
  ActionDef <- SubmitCancelByAnn
  NumLevels = 2
  Mode <- AnyThenAll
  Resolve <- BobThenBoth
  Escalation <- ToCho
  EscalateTo = {1}
  Reminds = {1}
  Escalates = {1}
  Removable = {1}
  Delegate <- AnnForBob
  Requests = {r1, r2}
  MaxVersion = 3
  MaxBatches = 3
INVARIANTS TypeOK NoSelfApproval RunningHasApprover
PROPERTIES AnswersAreFinal LevelsInOrder TimersOnlyAdvance LevelsAreAnsweredInTime
SYMMETRY RequestSymmetry
CHECK_DEADLOCK FALSE
