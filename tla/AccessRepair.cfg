CONSTANTS
  Clients = {c1, c2}
  Users = {u1}
  Devices = {d1}
  NumPorts = 2
  FirstPorts = 1
  MaxDevices = 1
  MaxFaults = 1
  MaxCrashes = 1
  MaxFlushes = 1
  Maintenances = 1
  NoOne = NoOne
  Maintainer = Maintainer
  c1 = c1
  c2 = c2
  d1 = d1
  u1 = u1
SPECIFICATION FairSpec
INVARIANTS FirewallMatchesDatabase OpenOnlyIfPermitted
PROPERTIES LockedSyncIsExact EverythingEnds
