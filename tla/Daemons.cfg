SPECIFICATION DaemonsSpec
CONSTANTS
  Servers = {s1, s2}
  s1 = s1
  s2 = s2
  s3 = s3
  Prio <- Prio2
  Identity <- SharedIdentity
  Announces <- GoodOrUnusable
  MaxClockClass = 7
  MaxClockAccuracy = 37
  Mode = "linear"
  Step = 2
  MaxValue = 3
  Second = 10
  Width = 16
  Interval = 10
  Durations = {8, 10, 12}
  FirstStep = TRUE
  Samples <- AllSamples
  RingSize = 3
  MaxSkipCount = 3
  MaxFailures = 2
  NsPerSec = 10
  FracUnits = 16
  EraSeconds = 8
  EpochSeconds = 3
  NtpTimes = {}
  Settings = {}
  i1 = i1
  w1 = w1
  IPs = {i1}
  NrWorkers = {w1}
  NrRequests <- SampleRequests
  ExtraOffset = 5
  Skew = 7
  NrMaxTime = 1
  Conversions = {}
  Statuses <- SampleStatuses
  PHCOffsets = {0}
  Sample = 2
  Hundred = 2
  Leaps = {27}
  C4uFaults = {"clock", "leap", "crash"}
  C4uMaxRuns = 2
  C4uMaxStarts = 2
  Topologies <- SampleTopologies
  Residence <- SampleResidence
  HopMax = 3
  PacketsPerHop = 1
  QueueCap = 2
  PTPRecvHandlers = 1
  cfThreshold = 2
  Spikes = {0, 7}
  ZMaxFaults = 1
INVARIANTS
  AtMostOneStep FilterFresh  NoRequestLost ConfigInForce SavedConfigRight ZifReportRight
PROPERTIES
  BackoffEnds RequestsServed 
CHECK_DEADLOCK FALSE
