SPECIFICATION ChildSpec
CONSTANT ChildCalls = {c1}
INVARIANT NoOrphanAfterExit
CHECK_DEADLOCK FALSE
