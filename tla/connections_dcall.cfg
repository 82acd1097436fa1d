SPECIFICATION TableSpec
CONSTANTS
  a1 = a1
  a2 = a2
  ship = ship
  block1 = block1
  block2 = block2
  Unset = Unset
  Addresses <- MCAddresses
  IsShip = TRUE
  Services <- ShipServices
  Blocks <- ShipBlocks
  MaxConnections = 3
  Limit = 2
  MaxTime = 3
  MaxCount = 3
PROPERTIES EmptyBeforeUnblocking
