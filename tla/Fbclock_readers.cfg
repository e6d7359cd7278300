SPECIFICATION FairSpec
CONSTANTS
  r1 = r1
  Readers = {r1}
  MaxTries = 2
  RingSize = 2
  Uncovered = {}
  Windows <- SomeWindows
  MaxTime = 2
  MaxStores = 2
INVARIANTS DataStays NotInThePast
PROPERTIES RegisterSpec GettimeReturns
