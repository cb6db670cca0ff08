CONSTANTS
  t1 = t1  t2 = t2  r1 = r1  r2 = r2  j1 = j1  j2 = j2
  Task <- OneTask
  Message <- FourMessages
  Workers = 2
  Replayer <- TwoReplayers
  MaxRetries = 1
  NoTask = NoTask
  MaxFaults = 1
  MaxDrains = 2
  Tries = 3
  Job <- TwoJobs
  NoJob = NoJob
  Lifetime = 3
  MaxLosses = 1
  MaxStalls = 1
  Question <- TwoQuestions
  TopScore = 2
  Aggregation <- TwoJobs
  PageSize = 1
  Cap = 2
  NoRow = NoRow
  MaxEdits = 1
  MaxFailures = 1
CHECK_DEADLOCK FALSE
SPECIFICATION TasksSpec
INVARIANTS TasksTypeOK NothingForgotten NoExtraCopies TriesAreKeptApart SummaryIsOfItsPair
PROPERTIES TasksProgress LockIsHonoured
