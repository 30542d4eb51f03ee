SPECIFICATION LifespanSpec
CONSTANT Apps = 2
INVARIANT RedisSpansExported
CHECK_DEADLOCK FALSE
