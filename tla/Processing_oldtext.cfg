CONSTANTS
  r1 = r1  r2 = r2  p1 = p1  p2 = p2  q1 = q1  q2 = q2
  Run <- MCRun
  NoPage = NoPage
  NoRun = NoRun
  NoPayload = NoPayload
  Page <- MCPage
  ShortPage = {}
  Content <- OneContent
  Extractions <- OneExtraction
  MaxFaults = 1
SPECIFICATION Spec
PROPERTIES OldTextIsRejected
