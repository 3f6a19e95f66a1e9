CONSTANTS
  speed = speed
  test = test
  hashing = hashing
  sm3 = sm3
  keccak = keccak
  Targets = {speed, test}
  LibOf <- MCShared
  Configs = {sm3, keccak}
  MaxJobs = 2
  None = None
  MaxMishaps = 2
  MaxMakes = 3
CONSTRAINT Light
SYMMETRY Renaming
SPECIFICATION Spec
INVARIANTS TypeOK NeverMixed StampCovers NeverStuck
PROPERTIES SerialIsFresh SuccessNotStale WorkShrinks
CHECK_DEADLOCK FALSE
