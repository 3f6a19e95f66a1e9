CONSTANTS
  Q = 3329
  QInv <- MCQInv
  K = 4
  Layers = 7
  ReduceAfter = {}
  Zetas <- MCZetas
  Scale = 1441
  Largest = 4095
  Left = {0, 3328, 4095}
  Noise <- MCNoise
  Some <- MCSome
SPECIFICATION Spec
INVARIANTS Exact NothingLost SentCanonical
CHECK_DEADLOCK FALSE
