SPECIFICATION FairSpec
CONSTANTS
  Calls = {c1, c2, c3, c4}
  FailureThreshold = 3
  ResetAfter = 2
  None = None
INVARIANTS
  ProbePermit
  CountAgreesWithCircuit
PROPERTIES
  ProbeFailureReopens
  ImplementsGate
  Recovers
