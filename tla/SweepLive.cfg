SPECIFICATION Spec
CONSTANTS
  RasterSources = {"mrms"}
  WmsSources = {}
  TypeTwin <- NoTwin
  TypeSources = {}
  Composites = {"composite"}
  Members <- OneComposite
  Echo <- FullEcho
  NoFrame = NoFrame
  ZoomMin = 1
  ZoomMax = 1
  Retention = 1
  ListWindow = 2
  MaxTime = 2
  MaxFaults = 0
  ListMax = 2
  BatchMax = 2
  SkippingSources = {}
  WmsBatchMax = 1
  Tilers = {t1, t2}
  SweptSource = "mrms"
  DatedSources = {"mrms"}
CHECK_DEADLOCK FALSE
INVARIANT SweepOnlyInterrupted
