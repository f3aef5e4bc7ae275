\* The demo main program with a device that may answer after the 1 s
\* timeout: the timer releases the lock, the late answer still matches
\* self.cmd, and run()'s lock.release() raises RuntimeError on the free
\* lock, ending the reading thread.
CONSTANTS
  m = m
  Main = m
  Callers <- MainSet
  CmdOps = {96, 97}
  IndOps = {161, 162}
  STOP_RADIO = 96
  ModeOps = {97}
  SNIFF_IND = 161
  POLL_IND = 162
  MaxCalls = 2
  MaxInds = 1
  LateReplies = TRUE
  CloseAnytime = FALSE
SPECIFICATION MainSpec
INVARIANT ReleasesBalanced
CHECK_DEADLOCK FALSE
