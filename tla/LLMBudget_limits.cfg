CONSTANTS
  c1 = c1  c2 = c2  c3 = c3  c4 = c4  i1 = i1  i2 = i2  i3 = i3
  Call <- ThreeCalls
  Input <- ThreeInputs
  Tokens <- Costs
  Budget = 2
  Concurrency = 2
  PerMinute = 2
  Lifetime = 3
  Window = 2
  NoCall = NoCall
  MaxTime = 3
  MaxDay = 1
  MaxFaults = 1
SYMMETRY Alike
SPECIFICATION Spec
CHECK_DEADLOCK FALSE
INVARIANTS ConcurrencyHeld OneGenerationPerInput RateHeld LedgerIsConservative
PROPERTY LockIsOwn
