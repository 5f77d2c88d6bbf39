CONSTANTS
  c1 = c1
  c2 = c2
  k1 = k1
  k2 = k2
  k3 = k3
  r1 = r1
  r2 = r2
  r3 = r3
  None = None
  Clients <- MCClients
  Keys <- MCKeys
  Requests <- MCRequests
  FirstKey <- MCFirstKey
SPECIFICATION Spec
INVARIANT
  DatedKeyIsDecided
