\* One caller (the main program's usage), a device that answers in time or
\* never, close() at any moment.
CONSTANTS
  c1 = c1
  c2 = c2
  Callers <- OneCaller
  CmdOps = {1, 2}
  IndOps = {3}
  MaxCalls = 4
  MaxInds = 2
  LateReplies = FALSE
  CloseAnytime = TRUE
SPECIFICATION Spec
INVARIANTS
  TypeOK
  ResponseMatchesCall
  ReleasesBalanced
CHECK_DEADLOCK FALSE
