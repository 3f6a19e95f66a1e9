SPECIFICATION Spec
CONSTANTS
  N4 = 4
  Q = 769
  QInv <- MCQInv
  Mont = 171
  Nonces = 3
  Samples <- MCSamples
  Messages <- MCMessages
  Blurs <- MCBlurs
  Reach = 707
  Fars <- MCFars
  Wraps <- MCWraps
INVARIANTS Inverts EvenDecrypts
PROPERTY KeyGenEnds
CHECK_DEADLOCK FALSE
