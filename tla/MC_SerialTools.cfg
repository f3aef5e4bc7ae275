\* One of sniffer.py, ttyDumper.py, tempDumper.py on the port; the device
\* sends sniffer records after noise, or up to two lines of text.
CONSTANTS
  Streams <- ToolStreams
SPECIFICATION ToolsSpec
INVARIANTS
  ToolsTypeOK
  SniffedAsReference
PROPERTIES
  SniffedDelivered
CHECK_DEADLOCK FALSE
