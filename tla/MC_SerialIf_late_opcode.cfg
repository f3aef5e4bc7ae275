CONSTANTS
  c1 = c1
  c2 = c2
  Callers <- OneCaller
  CmdOps = {1, 2}
  IndOps = {3}
  MaxCalls = 3
  MaxInds = 1
  LateReplies = TRUE
  CloseAnytime = FALSE
SPECIFICATION Spec
INVARIANT ResolvedByOwnOpcode
CHECK_DEADLOCK FALSE
