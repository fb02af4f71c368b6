SPECIFICATION CopySpec
CONSTANTS
  p1 = p1
  p2 = p2
  States = {"draft", "pending", "approved"}
  InitialState = "draft"
  Moves <- DraftPendingApproved
  Pushers = {p1}
  MaxActs = 2
  MaxFailures = 1
PROPERTY CopyConverges
CHECK_DEADLOCK FALSE
