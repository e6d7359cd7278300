SPECIFICATION ToolsSpec
CONSTANTS
  Servers = {s1, s2, s3}
  s1 = s1
  s2 = s2
  s3 = s3
  Prio <- Prio3
  Identity <- Identity3
  Announces <- Qualities
  MaxClockClass = 7
  MaxClockAccuracy = 37
  Mode = "linear"
  Step = 1
  MaxValue = 1
  Second = 10
  Width = 16
  Interval = 10
  Durations = {10}
  FirstStep = FALSE
  Samples <- SmallOffset
  RingSize = 2
  MaxSkipCount = 2
  MaxFailures = 2
  PtpPackets <- SamplePackets
  Conversions <- SampleConversions
  Reports <- SampleReports
  Questions <- SampleQuestions
  Daemons <- SampleDaemons
  Late <- SampleLate
  MaxChanges = 2
  Leaps = {0, 3}
  NsPerSec = 10
  FracUnits = 16
  EraSeconds = 8
  EpochSeconds = 3
  NtpTimes <- SampleNtpTimes
  Settings <- SampleSettings
  NdRequests = 3
  NdMaxTime = 3
  ServerSkew = 2
  Words <- SampleWords
  CtlAnswers <- SampleAnswers
  PerFragment = 2
  PhcReadings <- SampleReadings
  PpsSecond = 3
  PpsAhead <- SampleAhead
  PpsMaxTime = 13
  PpsMaxFaults = 2
  SaImages <- SampleImages
  SaDevices <- SampleClocks
  SaBlockSize = 2
  SaBlockMod = 4
  SaTries = 2
  SaMaxNoise = 3
  CalChannels = {"A", "VP1"}
  CalConfigs <- SampleConfigs
  CalPEMs <- SamplePEMs
  CalHost <- SampleHosts
  CalVersions = {1, 2}
  CalDevices <- SampleDevices
  CalMaxCommands = 2
  CalMaxFaults = 1
  ScDelays = {1, 3}
  ScSkew = 5
  ScChan = 1
  ScMaxAsks = 1
  ScMaxLosses = 1
  ScMaxSyncs = 2
  LinTests = 2
  LinMaxSends = 2
  LinTravel = {1, 2}
  LinBehind = {0, 3}
  SptpStats <- SampleStats
  LinMaxGMOffset = 2
  LeapFiles <- SampleLeapFiles
  LeapTables <- SampleLeapTables
  LeapNows <- SampleNows
  Nanos = 52
  SmearStep = 26
  leapDurationS = 25
  utcOffsetOriginalS = 2
  FixedOffsetS = 4
  SmrWorlds <- SampleWorlds
  SmrMaxFaults = 1
  PdlConfigs <- SampleFilters
  PdlDelays = {2, 3, 20, 40}
  PdlOffset = 100
  PdlMaxExchanges = 4
INVARIANTS
    ChronyExchangeRight   
   PpsOffsetRight  CalCommandsTakeEffect ScOffsetIsRight LinVerdictsRight
  LeapTableRight  PathDelayRight SelectionStable
PROPERTIES
  UtcBackOnlyAtEnd DelayGrowsSlowly
CHECK_DEADLOCK FALSE
