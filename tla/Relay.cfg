CONSTANTS
  Conns = {c1, c2, c3}
  Keys = {k1, k2}
  Ips = {i1, i2}
  MaxSessions = 2
  MaxPerIp = 2
  NoOne = NoOne
SPECIFICATION Spec
SYMMETRY Symmetry
INVARIANTS SlotsMatchSockets ShareHonoured SessionsAreTheirSockets OneHalfPerPair
PROPERTY SessionsAreNotStolen
