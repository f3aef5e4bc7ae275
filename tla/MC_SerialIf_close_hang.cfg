CONSTANTS
  c1 = c1
  c2 = c2
  Callers <- OneCaller
  CmdOps = {1}
  IndOps = {3}
  MaxCalls = 2
  MaxInds = 1
  LateReplies = FALSE
  CloseAnytime = TRUE
SPECIFICATION Spec
PROPERTY CallsReturn
CHECK_DEADLOCK FALSE
