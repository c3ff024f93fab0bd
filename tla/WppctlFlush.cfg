CONSTANTS
  Ports = {p1}
  Clients = {c1}
  Maintainer = Maintainer
  Service = Service
  MaxFaults = 1
  NoOne = NoOne
  Null = Null
  p1 = p1
  c1 = c1
SPECIFICATION Spec
INVARIANT DisabledStayDisabled
