SPECIFICATION Spec
CONSTANTS
  RasterSources = {"dwd"}
  WmsSources = {}
  TypeTwin <- NoTwin
  TypeSources = {}
  Composites = {"composite"}
  Members <- OneComposite
  Echo <- FullEcho
  NoFrame = NoFrame
  ZoomMin = 1
  ZoomMax = 2
  Retention = 1
  ListWindow = 2
  MaxTime = 2
  MaxFaults = 1
  ListMax = 2
  BatchMax = 2
  SkippingSources = {"dwd"}
  WmsBatchMax = 1
  Tilers = {t1, t2}
  SweptSource = "mrms"
  DatedSources = {}
SYMMETRY TilerSymmetry
CHECK_DEADLOCK FALSE
INVARIANTS
  TypeOK
  SinglePlacement
  RasterForWork
  RastersUsed
  LatestRecorded
  TriggersRecorded
  UnsweptComplete
  DrawnWhole
