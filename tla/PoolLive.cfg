CONSTANTS
  ShardSize = 1
  MaxShards = 3
  MaxGrow = 1
  BaseProfiles = 1
  MaxAssigned = 1
  MaxHandouts = 1
  MaxFaults = 1
  MaxCrashes = 1
SPECIFICATION FairSpec
INVARIANTS StagedOnTop ActiveShardsEnabled SingleFailureRepaired
PROPERTIES SuccessRepairs MaintenanceEnds DirtyIsCleaned
