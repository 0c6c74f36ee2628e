SPECIFICATION Spec
CONSTANTS
  Stations = {a}
  ScanTTL = 2
  MaxAge = 2
  MaxTime = 3
  MaxFaults = 2
  Batches = {{a}}
  Slots = {k1, k2}
  NoSlot = NoSlot
CHECK_DEADLOCK FALSE
INVARIANT UnchangedIsCurrent
