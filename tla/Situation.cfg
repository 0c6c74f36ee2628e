SPECIFICATION SpecScenes
CONSTANTS
  DegradedAfter = 0
  OfflineAfter = 1
  Airports = {ksea, xpvt}
  RegionAirports = {ksea}
  Sockets = {s1, s2}
  ClientIds = {c1, c2}
  Thresholds = {0}
  NoId = NoId
  NoEntry = NoEntry
  MaxSubscribes = 3
  Handlers = {h1, h2}
  Skies <- ThreeSkies
  NoValue = NoValue
  HistoryHours = 1
  MaxClock = 1
  MaxFrames = 3
  MaxEvents = 5
  MaxFaults = 1
  NumQueries = 2
  Frames <- Stamps
  Echo <- TwoWritings
  CellThresholds = {35}
  Areas <- WestAndBoth
  NoKey = NoKey
  TileSize = 2
  MaxQueries = 3
SYMMETRY ClientSymmetry
CHECK_DEADLOCK FALSE
INVARIANTS
  TypeOK
  WatchedSampled
  ToldIsCurrent
  KeysAgree
  PongersStay
  CellsInPlace
