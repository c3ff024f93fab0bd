CONSTANTS
  Clients = {c1, c2}
  Users = {u1, u2}
  Devices = {d1, d2}
  NumPorts = 2
  FirstPorts = 2
  MaxDevices = 1
  MaxFaults = 1
  MaxCrashes = 0
  MaxFlushes = 0
  Maintenances = 0
  NoOne = NoOne
  Maintainer = Maintainer
  c1 = c1
  c2 = c2
  d1 = d1
  d2 = d2
  u1 = u1
  u2 = u2
SPECIFICATION Spec
INVARIANT RebuiltFromCommittedState
