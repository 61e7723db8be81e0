CONSTANTS
  Conns = {c1, c2}
  Keys = {k1, k2}
  Ips = {i1, i2}
  MaxSessions = 1
  MaxPerIp = 2
  NoOne = NoOne
SPECIFICATION Spec
SYMMETRY Symmetry
INVARIANT SessionCapHolds
