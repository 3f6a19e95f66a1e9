CONSTANTS
  Period = 17
  WordMod = 2
  Hals = {"stm32f4", "mps2"}
  MaxGap = 1
  MaxLate = 1
  MaxTime = 60
SPECIFICATION FairSpec
INVARIANTS TypeOK ReadingExact OneRetry
PROPERTIES ReadingsMonotone ReadsAtomically ClockProceeds
CHECK_DEADLOCK FALSE
