SPECIFICATION Spec
CONSTANTS
  i1 = i1  i2 = i2
  k1 = k1  k2 = k2  k3 = k3  k4 = k4  k5 = k5
  Conn = {k1, k2, k3, k4, k5}
  Ip = {i1, i2}
  Peer <- TwoPeers
  MaxGlobalConnections = 3
  MaxPeerConnections = 2
INVARIANTS
  TypeOK
  WithinLimits
PROPERTIES
  RefusedOnlyWhenFull
