SPECIFICATION FairSpec
CONSTANTS
  h1 = h1
  h2 = h2
  MaxRuns = 2
  SeqCount = 2
  ChanSize = 2
  Handlers = {h1}
  Overlap = FALSE
INVARIANTS MeasurementConsistent MeasurementFresh
PROPERTY RunReturns
CHECK_DEADLOCK FALSE
