CONSTANT
  Errors <- MCErrors
SPECIFICATION RSpec
INVARIANTS RTypeOK BitsAgree SignalHides
CHECK_DEADLOCK FALSE
