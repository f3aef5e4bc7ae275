CONSTANTS
  c1 = c1
  c2 = c2
  Callers <- TwoCallers
  CmdOps = {1, 2}
  IndOps = {3}
  MaxCalls = 2
  MaxInds = 1
  LateReplies = FALSE
  CloseAnytime = FALSE
SPECIFICATION Spec
INVARIANT ResponseMatchesCall
CHECK_DEADLOCK FALSE
