SPECIFICATION SpecScenes
CONSTANTS
  NumStations = 2
  Layers = {reflectivity, velocity}
  Requests = {r1, r2}
  MaxVolume = 2
  DryVolumes <- FirstOfSecondDry
  MaxChanges = 2
  Settling = 7
SYMMETRY RequestSymmetry
CHECK_DEADLOCK FALSE
INVARIANTS
  TypeOK
  ScansSettle
  FrameSettles
  LayerKept
