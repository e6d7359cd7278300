SPECIFICATION SmrSpec
CONSTANTS
  Nanos = 52
  SmearStep = 26
  leapDurationS = 25
  utcOffsetOriginalS = 2
  FixedOffsetS = 4
  SmrWorlds <- EndingWorlds
  SmrMaxFaults = 1
PROPERTIES UtcNeverBack
CHECK_DEADLOCK FALSE
