CONSTANTS
  s1 = s1  s2 = s2  p1 = p1  p2 = p2  u1 = u1  u2 = u2  u3 = u3  u4 = u4  u5 = u5  u6 = u6  u7 = u7  u8 = u8
  NoProc = NoProc
  NoUrl = NoUrl
  NoJob = NoJob
  Source <- OneSource
  Url <- FourUrls
  Proc <- OneProc
  Jobs <- DailyJobs
  InitialFeed <- ShortFeed
  InitialPosts <- LastMissing
  PageSize = 2
  Clamped = FALSE
  Scheduled <- OneSource
  Pages = 3
  Batch = 1
  Daily = 1
  MaxFaults = 1
  MaxPublished = 1
  MaxWithdrawn = 1
  MaxCharges = 2
SPECIFICATION FairSpec
PROPERTIES PendingIsSettled ListedIsFound
