CONSTANTS
  Q = 7681
  QInv <- MCQInv512
  K = 4
  Layers = 8
  ReduceAfter = {3, 6}
  Zetas <- MCZetas512
  Scale = 1912
  Largest = 8191
  Left = {7665}
  Noise <- MCNoise512
  Some <- MCSome512
SPECIFICATION Spec
INVARIANTS Exact
CHECK_DEADLOCK FALSE
