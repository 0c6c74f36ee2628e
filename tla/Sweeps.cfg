SPECIFICATION FairSpec
CONSTANTS
  Stations = {a}
  VolumeSize = 3
  BaseChunks = {2, 3}
  Volumes = 2
  MaxKeys = 6
  BatchSize = 1
  MaxFaults = 1
  Clients = {c1, c2}
CHECK_DEADLOCK FALSE
INVARIANTS
  TypeOK
  SubscriptionsMatch
  WedgesInOrder
PROPERTY WedgeDelivered
