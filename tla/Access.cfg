CONSTANTS
  Clients = {c1, c2}
  Users = {u1, u2}
  Devices = {d1, d2, d3}
  NumPorts = 4
  FirstPorts = 3
  MaxDevices = 2
  MaxFaults = 1
  MaxCrashes = 0
  MaxFlushes = 0
  Maintenances = 1
  NoOne = NoOne
  Maintainer = Maintainer
  c1 = c1
  c2 = c2
  d1 = d1
  d2 = d2
  d3 = d3
  u1 = u1
  u2 = u2
SPECIFICATION Spec
SYMMETRY Symmetry
INVARIANTS TypeOK OpenOnlyIfPermitted SlotsMatchDevices FirewallMatchesDatabase
