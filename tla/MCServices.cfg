SPECIFICATION Spec
CONSTANTS
  h1 = h1  h2 = h2  h3 = h3  u1 = u1  u2 = u2  r1 = r1  m1 = m1
  Endpoints = {e1, blank}
  Blank = blank
  Watched <- ChatWatched
  ActiveValues = {TRUE}
  QueueDepth = 2
  Retries = 2
  PauseAfter = 2
  MaxDispatched = 4
  MaxUpdates = 1
  MaxCrashes = 1
  PrCallers = {c1, c2}
  PrChannels = {x, y}
  PrProfiles = {p1, p2}
  DefaultProfile = p1
  PrRules = {"none", "mute", "bad"}
  BadRules = {"bad"}
  MaxRequests = 3
  ObsCallers = {c1, c2}
  MaxObsConns = 2
  MaxObsConfigs = 1
  MaxObsRequests = 2
  HeldIds = {1, 2}
  HeldCap = 1
  Moderators = {d1, d2}
  Bits = 8
  Second = 2
  Minute = 3
  DefaultTimeout = 6
  MaxTimeout = 14
  KickMaxTimeout = 9
  Numbers <- TypedNumbers
  MaxDuplicates = 1
  AcClients = {c1, c2}
  ApiTokens = {t1, t2}
  Root = root
  AcUsers = {u1}
  Sessions = {s1}
  SessionTTL = 1
  Window = 1
  Attempts = 1
  MaxNow = 3
  MaxAcRestarts = 1
  HoClients = {h1, h3}
  HoOwner <- Owners
  HoChannels = {x}
  HoNames = {"Default", "other"}
  Local = local
  MaxHoRequests = 4
  AuCallers = {c1, c2}
  Browsers = {b1, b2}
  MaxIssued = 2
  PlCallers = {c1, c2}
  Starter = st
  RemotePlugins = {r1}
  BuiltIns = {m1}
  Archives <- Catalogue
  PlConfigs = {"x"}
  PlNone = none
  MaxPlRequests = 2
  MaxPlRestarts = 1
  Authors = {a, m}
  Privileged = {m}
  SeenCap = 2
  StatsWindow = 3
  RateWindow = 2
  MomentWindow = 2
  RateThreshold = 1
  ScrollCap = 3
  ExcerptSize = 4
  MinSpike = 2
  SpikeFactor = 2
  CloseQuiet = 2
  Cooldown = 2
  MinDuration = 1
  IdleTimeout = 5
  AlphaInverse = 4
  Scale = 60
  MaxFeed = 5
  MaxTime = 7
  MaxDeleted = 1
SYMMETRY Symmetric
CHECK_DEADLOCK FALSE
INVARIANTS WebhookQueues ProfilesKept ObsEndsCleanly ModerationFaithful  AuthSound PluginsKept ActivityExact
