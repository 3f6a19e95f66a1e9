CONSTANTS
  Calls = 2
  Depth <- MCDepth
  Footprint <- MCFootprint
  Exception = 1
  Frame = 2
  Increment = 3
  Room = 7
  MaxGrowth = 2
SPECIFICATION Spec
INVARIANTS TypeOK ReportExact PaintSparesHeap FailsForAReason
PROPERTIES Ends
CHECK_DEADLOCK FALSE
