CONSTANTS
  ShardSize = 1
  MaxShards = 2
  MaxGrow = 1
  BaseProfiles = 1
  MaxAssigned = 1
  MaxHandouts = 1
  MaxFaults = 2
  MaxCrashes = 0
SPECIFICATION Spec
PROPERTY RollbackVisitsEveryStep
