\* A 0xAB in line noise followed by any byte and then 0xCD starts a packet.
CONSTANTS
  Streams <- AnyStreams
SPECIFICATION Spec
INVARIANT PacketsAsReference
CHECK_DEADLOCK FALSE
