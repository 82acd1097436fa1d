SPECIFICATION Spec
CONSTANTS
  s1 = s1
  s2 = s2
  g1 = g1
  g2 = g2
  Conns <- MCConns
  Gains <- MCGains
  MaxLogins = 2
  MaxLosses = 1
  MaxQueue = 3
INVARIANTS NothingDropped
