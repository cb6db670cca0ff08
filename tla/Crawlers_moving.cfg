CONSTANTS
  s1 = s1  s2 = s2  p1 = p1  p2 = p2  u1 = u1  u2 = u2  u3 = u3  u4 = u4  u5 = u5  u6 = u6  u7 = u7  u8 = u8
  NoProc = NoProc
  NoUrl = NoUrl
  NoJob = NoJob
  d1 = d1  d2 = d2  NoDate = NoDate
  Client <- TwoProcs
  NoClient = NoProc
  Spacing = 2
  Jitter = {0, 1}
  Pause = 3
  Attempts = 2
  MaxTime = 6
  MaxBlocks = 2
  DatedPost = {1, 2}
  Date = {d1, d2}
  Saved <- SavedDates
  MaxRequests = 1
  MaxRuns = 2
  ListPost <- ListPosts
  Matching <- MatchingPosts
  Unnamed <- UnnamedPosts
  Unaddressed <- UnaddressedPosts
  Initial <- ListFeeds
  ListPageSize = 2
  Accessible = 2
  ListPages = 4
  Details = 2
  MaxEdits = 2
  Source <- OneSource
  Url <- EightUrls
  Proc <- OneProc
  Jobs <- ScanJobs
  InitialFeed <- LongFeed
  InitialPosts <- OneMissing
  PageSize = 2
  Clamped = FALSE
  Scheduled <- OneSource
  Pages = 3
  Batch = 1
  Daily = 2
  MaxFaults = 1
  MaxPublished = 1
  MaxWithdrawn = 1
  MaxCharges = 9
SPECIFICATION CrawlersSpec
INVARIANTS CrawlersTypeOK ScanCovers ExportIsFaithful
PROPERTIES SiteIsSpared RepairIsHonest
