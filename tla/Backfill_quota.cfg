CONSTANTS
  s1 = s1  s2 = s2  p1 = p1  p2 = p2  u1 = u1  u2 = u2  u3 = u3  u4 = u4  u5 = u5  u6 = u6  u7 = u7  u8 = u8
  NoProc = NoProc
  NoUrl = NoUrl
  NoJob = NoJob
  Source <- TwoSources
  Url <- TwoUrls
  Proc <- TwoProcs
  Jobs <- MixedJobs
  InitialFeed <- TwoFeeds
  InitialPosts <- NothingStored
  PageSize = 1
  Clamped = TRUE
  Scheduled <- TwoSources
  Pages = 3
  Batch = 2
  Daily = 2
  MaxFaults = 1
  MaxPublished = 0
  MaxWithdrawn = 0
  MaxCharges = 9
SPECIFICATION Spec
INVARIANTS BatchIsBounded DoneIsStored PauseIsRespected
PROPERTIES QuotaHeld
