SPECIFICATION FairSpec
CONSTANTS
  w1 = w1  w2 = w2
  Worker <- MCWorker
  MaxLogSize = 1
  MaxLines = 5
  MaxRotates = 2
  MaxStops = 1
  MaxFaults = 1
  None = None
INVARIANTS
  TypeOK
  InOrder
  RecentKept
  SizeBounded
  NoLineLost
PROPERTY LogReturns
