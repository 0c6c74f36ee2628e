SPECIFICATION Spec
CONSTANTS
  RasterSources = {}
  WmsSources = {"ec"}
  TypeTwin <- EcTwin
  TypeSources = {"ec-type"}
  Composites = {"composite", "composite-type"}
  Members <- TwoPools
  Echo <- FullEcho
  NoFrame = NoFrame
  ZoomMin = 1
  ZoomMax = 1
  Retention = 1
  ListWindow = 2
  MaxTime = 2
  MaxFaults = 1
  ListMax = 2
  BatchMax = 2
  SkippingSources = {}
  WmsBatchMax = 2
  Tilers = {}
  SweptSource = "mrms"
  DatedSources = {}
CHECK_DEADLOCK FALSE
INVARIANTS
  LatestRecorded
  TriggersRecorded
