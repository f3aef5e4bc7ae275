\* All short streams and all well-formed encoded streams: run() agrees with
\* the reference decoder, and send_command's frames come back unchanged.
CONSTANTS
  Streams <- MCStreams
SPECIFICATION Spec
INVARIANTS
  TypeOK
  DecodesAsReference
PROPERTIES
  RoundTrip
CHECK_DEADLOCK FALSE
