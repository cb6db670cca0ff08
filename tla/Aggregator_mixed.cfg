CONSTANTS
  daily = daily celery = celery
  Question <- Ids
  Run <- Two
  TopScore = 2
  PageSize = 1
  Cap = 3
  None = None
  MaxEdits = 2
  MaxFaults = 1
SPECIFICATION Spec
INVARIANTS RowOfOneRun
CHECK_DEADLOCK FALSE
