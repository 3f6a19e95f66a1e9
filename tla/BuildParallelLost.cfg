CONSTANTS
  speed = speed
  test = test
  hashing = hashing
  sm3 = sm3
  keccak = keccak
  Targets = {speed, hashing}
  LibOf <- MCLibOf
  Configs = {sm3, keccak}
  MaxJobs = 2
  None = None
  MaxMishaps = 0
  MaxMakes = 2
SPECIFICATION FairSpec
PROPERTIES SuccessIsFresh
CHECK_DEADLOCK FALSE
