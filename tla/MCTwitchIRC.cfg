SPECIFICATION FairSpec
CONSTANTS
  Channels = {a, b}
  Shards <- MCShards
  PerConn = 1
  DownAfter = 2
  MaxDrops = 2
  MaxFails = 1
  MaxOps = 3
INVARIANTS Replayed ClosedMeansQuiet
PROPERTIES MembershipRestored CloseReturns
