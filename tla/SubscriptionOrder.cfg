CONSTANTS
  Clients = {c1, c2}
  Expiries = {0, 2, 4}
  Days = {1, 2}
  Limits = {1, 2}
  MaxNow = 4
  MaxExpiry = 7
  MaxUsed = 3
  Null = Null
  NoOne = NoOne
  c1 = c1
  c2 = c2
SPECIFICATION Spec
PROPERTY NobodyWaitsInVain
