SPECIFICATION ChildSpec
CONSTANT ChildCalls = {c1}
PROPERTY KilledGroupDies
CHECK_DEADLOCK FALSE
