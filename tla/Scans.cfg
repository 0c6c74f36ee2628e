SPECIFICATION FairSpec
CONSTANTS
  Stations = {a, b}
  ScanTTL = 2
  MaxAge = 2
  MaxTime = 3
  MaxFaults = 1
  Batches = {{a}, {b}}
  Slots = {k1}
  NoSlot = NoSlot
CHECK_DEADLOCK FALSE
INVARIANTS
  TypeOK
  ScanNotBehind
  UnchangedIsCurrent
  ActiveBacked
  ScanMortal
PROPERTIES KeptAlive FreshStored
