SPECIFICATION Spec
CONSTANTS
  KkChannels = {k1, k2}
  KkJoins = {j1, j2}
  EventCap = 1
  Threshold = 1
  MaxKkConns = 2
  MaxKkJoins = 3
  YtChannels = {x, y}
  YtJoins = {j1, j2}
  YtEventCap = 1
  MaxPollFailures = 2
  MaxYtWorkers = 2
  MaxYtJoins = 3
  PlainLen = 4
  KickLen = 6
  OvChannels = {x}
  OvTasks = {j1, j2}
  OvTTL = 1
  OvAbsent = absent
  MaxOvNow = 1
  MaxOvVersion = 1
  MaxOvDials = 2
  MaxOvStarts = 3
  OvChars = {"a", "b", " "}
  OvGroups <- EmoteLists
  MaxOvText = 4
  Chars = {"a", "A", " "}
  WordChars = {"a", "A"}
  Lower <- LowerCase
  FiRules <- RulePool
  FiMessage <- ChatMessage
  MaxText = 4
  MaxRules = 3
SYMMETRY Symmetric
CHECK_DEADLOCK FALSE
INVARIANT KickLeaveStops
