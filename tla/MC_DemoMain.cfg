\* The demo main program against a device that may answer after the
\* timeout or never: every call returns, and once the program leaves its
\* normal path (exception or Ctrl-C) the process exits.
CONSTANTS
  m = m
  Main = m
  Callers <- MainSet
  CmdOps = {96, 97}
  IndOps = {161, 162}
  STOP_RADIO = 96
  ModeOps = {97}
  SNIFF_IND = 161
  POLL_IND = 162
  MaxCalls = 2
  MaxInds = 1
  LateReplies = TRUE
  CloseAnytime = FALSE
SPECIFICATION MainSpec
INVARIANTS
  HandlersOK
PROPERTIES
  CallsReturn
  ProgramExits
CHECK_DEADLOCK FALSE
