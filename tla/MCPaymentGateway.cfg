SPECIFICATION FairSpec
CONSTANTS
  Calls = {o1, o2, o3}
  FailureThreshold = 2
  ResetAfter = 1
  Attempts = 2
  None = None
INVARIANTS
  AtMostOneCharge
  TripsOnUnansweredCalls
PROPERTIES
  ImplementsPort
  Answered
CHECK_DEADLOCK FALSE
