CONSTANTS
  Impls <- MCImpls
  Targets <- MCTargets
  Args <- MCArgs
  Iterations = 1
SPECIFICATION Spec
INVARIANTS TypeOK CaptureExact ExitTells
PROPERTIES Ends
CHECK_DEADLOCK FALSE
