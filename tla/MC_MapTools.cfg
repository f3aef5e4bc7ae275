CONSTANT MapSet <- PlainMaps
SPECIFICATION Spec
INVARIANTS TypeOK EveryByteAttributed ToolsAgree ChartMatchesTree
CHECK_DEADLOCK FALSE
