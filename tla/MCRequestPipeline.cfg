SPECIFICATION MCSpec
CONSTANTS
  Tasks = {t1, t2}
  Ids = {i1, i2}
  None = None
  Gating <- MCGating
  Informational <- MCInformational
  Timeout = 1
  Apps = 2
  Services <- MCServices
  Fields <- MCFields
  LogCalls <- MCLogCalls
  Levels <- MCLevels
INVARIANTS
  TypeOK
  CarryOwnId
  RecordTellsAnswer
  ReadyzAnswersInTime
  OnlyFailedClosesLeak
  InStepWithTelemetry
  EachAppIsMeasured
  EveryRecordOncePerLeg
  NoSecretIsWritten
PROPERTY ProbesEnd
