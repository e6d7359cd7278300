CONSTANTS
  kSync = kSync
  kResp = kResp
  kReq = kReq
  g1 = g1
  g2 = g2
  e1 = e1
  Keys = {kSync}
  TypeOf <- SyncTypeOf
  General = {g1, g2}
  Event = {}
  QueueSize = 1
  DrainRounds = 1
  MaxRequests = 2
  MaxCancels = 2
  MaxDrains = 1
SPECIFICATION Spec
CONSTRAINT QueuesOrReceivers
INVARIANTS TypeOK NoSilentEnd
SYMMETRY Receivers
CHECK_DEADLOCK FALSE
