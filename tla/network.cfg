SPECIFICATION NetworkSpec
CONSTANTS
  s1 = s1
  s2 = s2
  g1 = g1
  g2 = g2
  h1 = h1
  a1 = a1
  a2 = a2
  ship = ship
  block1 = block1
  block2 = block2
  login = login
  character = character
  Conns <- MCConns
  Gains <- MCGains
  MaxLogins = 2
  MaxLosses = 1
  MaxQueue = 2
  Links <- MCLinks
  None = None
  Ships <- OneShip
  KeyOf <- OwnKeys
  MaxFaults = 2
  MaxTraffic = 1
  Unset = Unset
  Addresses <- MCAddresses
  IsShip = TRUE
  Services <- ShipServices
  Blocks <- ShipBlocks
  MaxConnections = 3
  LoginServices <- MCLoginServices
  LoginSlots = 4
  LoginTime = 2
  Limit = 2
  MaxTime = 1
  MaxCount = 2
  c1 = c1
  c2 = c2
  Patchers <- MCPatchers
  PatchSlots = {1, 2}
  Tree <- MCTree
  Dotted = {}
  Disks <- MCDisks
  Budgets = {0, 2}
  MaxSimultaneous = 2
  MaxDrops = 0
  Vacant = Vacant
INVARIANTS NetworkTypeOK OnePlayer PlaysWhatWasSaved KeysSound InStep TablesExact PatchedWhenTold
PROPERTIES StoredGrows ReleasedGoesOn LinkRegisters LoginOldestMakesRoom ShipUnblocks PatchingFinishes
