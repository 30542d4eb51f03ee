SPECIFICATION Spec
CONSTANTS
  Calls = {c1, c2}
  FailureThreshold = 1
  ResetAfter = 2
  None = None
PROPERTY OpensForAWindow
