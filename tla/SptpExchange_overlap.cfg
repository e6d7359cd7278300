SPECIFICATION Spec
CONSTANTS
  h1 = h1
  h2 = h2
  MaxRuns = 2
  SeqCount = 2
  ChanSize = 2
  Handlers = {h1}
  Overlap = TRUE
INVARIANT MeasurementConsistent
CHECK_DEADLOCK FALSE
