CONSTANTS
  Streams <- MCStreams
SPECIFICATION Spec
INVARIANTS
  NoReaderCrash
CHECK_DEADLOCK FALSE
