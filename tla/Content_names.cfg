CONSTANTS
  web = web  api = api  svc = svc  r1 = r1  r2 = r2  seeder = seeder
  x1 = x1  x2 = x2  l1 = l1  l2 = l2  e1 = e1
  q1 = q1  q2 = q2  c1 = c1  c2 = c2  p1 = p1  p2 = p2
  Name <- TheNames
  Resolver <- TheResolvers
  Seeder = seeder
  SeedName = svc
  Seeds <- TheSeeds
  None = None
  Languages <- NoTags
  Roles <- TheRoles
  Enterprises <- NoTags
  Exclusive <- TheExclusive
  Similarity <- Near
  Anchored <- Anchors
  Question <- FourQuestions
  Posts <- ThreePosts
  TopScore = 2
  Text <- TwoTexts
  Label <- TwoLabels
  Editor <- OneEditor
  MaxWrites = 4
  Extraction <- Extractions
  PostQuestion <- TwoQuestions
  Company <- TwoCompanies
  Position <- TwoPositions
  MaxRuns = 2
SYMMETRY Swap
SPECIFICATION ContentSpec
INVARIANTS ContentTypeOK RegistryIsSound ClustersAreRight QuestionsKeepTheirInterview
PROPERTIES ImplementsRegistry ReviewsAreRespected
