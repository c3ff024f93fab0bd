CONSTANTS
  ShardSize = 2
  MaxShards = 2
  MaxGrow = 1
  BaseProfiles = 2
  MaxAssigned = 2
  MaxHandouts = 1
  MaxFaults = 1
  MaxCrashes = 1
SPECIFICATION Spec
INVARIANTS TypeOK FreeSlotsAreClean UsableSlotsServed
PROPERTY ImplementsSlotLifecycle
