SPECIFICATION LifespanSpec
CONSTANT Apps = 1
INVARIANT FlushedWhenCloseRaises
CHECK_DEADLOCK FALSE
