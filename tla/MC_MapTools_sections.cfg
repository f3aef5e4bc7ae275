CONSTANT MapSet <- SectionedMaps
SPECIFICATION Spec
INVARIANT ToolsAgree
CHECK_DEADLOCK FALSE
