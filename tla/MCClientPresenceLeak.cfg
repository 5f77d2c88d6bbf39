CONSTANTS
  robot = robot
  other = other
  k1 = k1
  k2 = k2
  k3 = k3
  k4 = k4
  None = None
  Clients <- MCClients
  Connections <- MCConnections
  ClientOf <- MCClientOf
SPECIFICATION Spec
INVARIANT
  RegisteredIsConnected
