CONSTANTS
  c1 = c1  c2 = c2  c3 = c3  c4 = c4  i1 = i1  i2 = i2  i3 = i3
  Call <- ThreeCalls
  Input <- TwoInputs
  Tokens <- TokensOf
  Budget = 4
  Concurrency = 2
  PerMinute = 3
  Lifetime = 2
  Window = 1
  NoCall = NoCall
  MaxTime = 1
  MaxDay = 0
  MaxFaults = 1
SYMMETRY CallSymmetry
SPECIFICATION Spec
CHECK_DEADLOCK FALSE
INVARIANTS PaidIsRecorded
