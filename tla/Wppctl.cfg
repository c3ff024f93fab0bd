CONSTANTS
  Ports = {p1}
  Clients = {c1, c2}
  Maintainer = Maintainer
  Service = Service
  MaxFaults = 3
  NoOne = NoOne
  Null = Null
  p1 = p1
  c1 = c1
  c2 = c2
SPECIFICATION Spec
SYMMETRY Symmetry
INVARIANTS TypeOK 
PROPERTIES MaintainerSparesUsers ImplementsFirewallCalls
