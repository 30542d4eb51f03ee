SPECIFICATION FairSpec
CONSTANTS
  Savers = {v1, v2}
  Readers = {r1, r2}
  None = None
  Junk = Junk
  Durable = TRUE
INVARIANTS
  ReturnsWhatWasHeld
  StaleOnlyByRace
  SingleSaveNeverStale
PROPERTY Converges
