SPECIFICATION Spec
CONSTANTS
  Servers = {s1}
  s1 = s1
  s2 = s2
  s3 = s3
  Prio <- Prio1
  Identity <- Identity1
  Announces <- Good
  MaxClockClass = 7
  MaxClockAccuracy = 37
  Mode = "exponential"
  Step = 2
  MaxValue = 3
  Second = 10
  Width = 16
  Interval = 10
  Durations = {10}
  FirstStep = FALSE
  Samples <- SmallOffset
  RingSize = 2
  MaxSkipCount = 2
  MaxFailures = 14
PROPERTY MaxedOut
