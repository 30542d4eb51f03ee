SPECIFICATION FairSpec
CONSTANTS
  short = short
  long = long
  Savers = {short, long, other}
  Readers = {r1}
  None = None
  LineCount <- MCLineCount
  PoolSize = 2
INVARIANTS
  RepositoryTypeOK
  AggregateWhole
PROPERTIES
  ImplementsStore
  CallsEnd
CHECK_DEADLOCK FALSE
