CONSTANTS
  Hosts <- OneMachine
  MaxShards = 4
  MaxReleases = 1
  NoPlan = NoPlan
SPECIFICATION Spec
INVARIANT SessionPerSlot
