SPECIFICATION SpecUpstream
CONSTANTS
  RasterSources = {"mrms"}
  WmsSources = {}
  TypeTwin <- NoTwin
  TypeSources = {}
  Composites = {"composite"}
  Members <- OneComposite
  Echo <- FullEcho
  NoFrame = NoFrame
  ZoomMin = 1
  ZoomMax = 1
  Retention = 1
  ListWindow = 2
  MaxTime = 4
  MaxFaults = 1
  ListMax = 2
  BatchMax = 1
  SkippingSources = {}
  WmsBatchMax = 1
  Tilers = {t1}
  SweptSource = "mrms"
  DatedSources = {"mrms"}
CHECK_DEADLOCK FALSE
INVARIANTS
  SinglePlacement
  Remembered
PROPERTY LedgerRefined
