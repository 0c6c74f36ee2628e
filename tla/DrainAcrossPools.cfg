SPECIFICATION FairSpec
CONSTANTS
  RasterSources = {}
  WmsSources = {"ec"}
  TypeTwin <- EcTwin
  TypeSources = {"ec-type"}
  Composites = {"composite", "composite-type"}
  Members <- TwoPools
  Echo <- FullEcho
  NoFrame = NoFrame
  ZoomMin = 1
  ZoomMax = 1
  Retention = 1
  ListWindow = 2
  MaxTime = 1
  MaxFaults = 0
  ListMax = 2
  BatchMax = 2
  SkippingSources = {}
  WmsBatchMax = 2
  Tilers = {}
  SweptSource = "mrms"
  DatedSources = {}
CHECK_DEADLOCK FALSE
PROPERTY LatestComposited
