SPECIFICATION LinkSpec
CONSTANTS
  h1 = h1
  h2 = h2
  Ships <- TwoShips
  KeyOf <- OneKey
  Links <- MCLinks
  MaxFaults = 1
  MaxTraffic = 0
  None = None
INVARIANTS OneShipPerKey
