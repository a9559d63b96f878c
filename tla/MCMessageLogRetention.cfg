SPECIFICATION FairSpec
CONSTANTS
  Total = 1
  PlatformIds = {p1}
  ChannelOf <- OneChannel
  FlushAt = 2
  IdCap = 1
  MaxSwitches = 0
  MaxDeletes = 0
  MaxFails = 0
  MaxRestarts = 1
PROPERTY RetentionEnforced
