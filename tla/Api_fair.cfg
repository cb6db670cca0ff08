CONSTANTS
  question = question  lease = lease  w1 = w1  w2 = w2  q1 = q1  q2 = q2
  a = a  b = b  backend = backend  frontend = frontend  daily = daily  admin = admin
  f1 = f1  f2 = f2  f3 = f3  f4 = f4  g3 = g3  g4 = g4
  Row <- TwoRows
  LeaseRow <- Leases
  None = None
  Writer <- TwoWriters
  Reader <- OneReader
  MaxStatements = 2
  MaxWrites = 1
  Question <- TwoQuestions
  Category <- TwoCategories
  Run <- OneRun
  Request <- OneRequest
  Regenerating <- NoneRegenerates
  Concurrency = 1
  NoTask = NoTask
  MaxEdits = 1
  MaxFaults = 1
  Caller <- TwoCallers
  Limit = 2
  Window = 2
  SearchSlots = 1
  Patience = 1
  MaxAge = 2
  MaxCount = 3
  Migrator <- ThreeMigrators
  NoMigrator = NoMigrator
  File <- AllFiles
  Files <- Releases
  Legacy = 2
SPECIFICATION ApiSpec
CHECK_DEADLOCK FALSE
INVARIANTS ApiTypeOK NeverStale NoDeadlock CapacityIsKept
PROPERTIES  SchemaIsOfOneRelease
