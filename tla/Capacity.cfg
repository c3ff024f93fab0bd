CONSTANTS
  Hosts <- Machines
  MaxShards = 112
  MaxReleases = 1
  NoPlan = NoPlan
SPECIFICATION Spec
INVARIANTS TypeOK RelayStarts GrowthSettles
