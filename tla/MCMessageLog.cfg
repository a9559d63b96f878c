SPECIFICATION Spec
CONSTANTS
  Total = 3
  PlatformIds = {p1, p2, p3}
  ChannelOf <- MCChannelOf
  FlushAt = 2
  IdCap = 2
  MaxSwitches = 1
  MaxDeletes = 1
  MaxFails = 1
  MaxRestarts = 1
SYMMETRY Sym
INVARIANTS OnlyConsented OnePlace DrainedAtClose RecentResolvable
PROPERTY ImplementsArchive
