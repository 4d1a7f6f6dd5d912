CONSTANTS
  a1 = a1
  a2 = a2
  a3 = a3
  b1 = b1
  b2 = b2
  Writers = {a1, a2}
  MinimumRetained = 1
  MaximumPrune = 2
  Cutoffs = {1, 2}
  MaxLegacy = 1
  MaxEvents = 5
  MaxFaults = 1
  Checks = {b1, b2}
  Secrets = {"old", "new"}
  NoRow = NoRow
  Forever = Forever
  MaxNow = 1
  Gates = {a1, a2}
  Asked = {b1, b2}
  Keys = {"retired", "revoked"}
  Trusted <- MCTrusted
  Unasked = Unasked
  Lifetime = 2
  Skew = 1
  LastTick = 3
  MaxSigned = 1
  Calls = {a1, a2}
  Requests = {a1, a2}
  Urls = {b1, b2}
  Operations = {"o1", "o2"}
  Ttl = 1
  MaxStale = 2
  Patience = 1
  RetryAfter = 2
  MaxEntries = 1
  LastInstant = 2
  LastEpoch = 1
  Absent = Absent
  Exchanges = {a1, a2, a3}
  Maximum = 2
  Sessions = {a1, a2}
  Rooms = {b1, b2}
  MaxRooms = 1
  MaxPeers = 2
  MaxEdits = 2
  NoRoom = NoRoom
  MaxAttempts = 3
  MaxCalls = 2
  Items = {b1, b2}
  Viewers = {a1, a2}
  Groups = {b1, b2}
  FreshFor = 2
  UsableFor = 3
  TransientFor = 1
  LastMoment = 5
  NoTime = NoTime
  Requesters = {a1, a2}
  Areas = {b1, b2, a3}
  Rounded <- MCRounded
  Loads = {"l1", "l2"}
  Firsts <- MCFirsts
  Width <- MCWidth
  MaxTasks = 2
  Supplied <- MCSupplied
  Budget = 4
  Hour = 2
  Early = 1
  MaxAge = 1
  FreshAge = 0
  LastHour = 2
  Callers = {a1, a2}
  Tokens = {"admin", "viewer"}
  Claims <- MCClaims
  MaxLifetime = 3
  MaxTokens = 1
  Limit = 1
  Window = 2
  MaxWindows = 1
  MaxAsks = 2
  LastSecond = 2
  Setups = {"open", "required", "static", "verifier"}
  Mounts <- MCMounts
  Fixture <- MCFixture
  Places <- MCPlaces
  FloodMaps <- MCFloodMaps
  Heights <- MCHeights
  Spots <- MCSpots
  Radius = 2
  Raws <- MCRaws
  Callees = {a1, a2}
  Boxes = {b1, b2}
  BoxTtl = 2
  Spacing = 2
  LastMinute = 5
  Numbers = {0, 1, 3}
  MaxParts = 2
  Records <- MCRecords
  Markets <- MCMarkets
  Contests <- MCContests
  Comparisons <- MCComparisons
  Workforces <- MCWorkforces
  Previews <- MCPreviews
  Elements <- MCElements
  MaxTop = 2
  Published <- MCPublished
  LastEdition = 3
  Recorded <- MCRecorded
  MapQueries <- MCMapQueries
  MostSeconds = 3
  Activators = {a1, a2}
  CableReaders = {a3}
  Packs = {b1, b2}
  NoPack = NoPack
  PackOps = {"o1", "o2"}
  Definitions <- MCDefinitions
  Configs <- MCConfigs
  Downloads <- MCDownloads
  MaxSegments = 2
  MaxCoordinates = 5
  MaxStarts = 1
  Watchers = {a1, a2}
  TailSize = 2
  SpanRing = 2
  EventRing = 1
  ErrorRing = 1
  MaxRows = 3
  Analysts = {a1, a2}
  Geographies <- MCGeographies
  Givens <- MCGivens
  Quota = 1
SYMMETRY ServicesSymmetry
SPECIFICATION ServicesSpec
INVARIANT AbsentRemoved
CHECK_DEADLOCK FALSE
