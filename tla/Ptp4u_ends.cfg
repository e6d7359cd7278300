CONSTANTS
  kSync = kSync
  kResp = kResp
  kReq = kReq
  g1 = g1
  g2 = g2
  e1 = e1
  Keys = {kSync}
  TypeOf <- SyncTypeOf
  General = {g1}
  Event = {}
  QueueSize = 0
  DrainRounds = 1
  MaxRequests = 2
  MaxCancels = 1
  MaxDrains = 1
SPECIFICATION EndsSpec
PROPERTIES StopTakesEffect DrainedStreamEnds
