SPECIFICATION Spec
CONSTANTS
  Savers = {v1}
  Readers = {r1}
  None = None
  Junk = Junk
  Durable = FALSE
INVARIANT ReturnsWhatWasHeld
