SPECIFICATION Spec
CONSTANTS
  p1 = p1
  p2 = p2
  Players <- MCPlayers
  None = None
  Seats = 2
  Width = 2
  MAX_SAVED_ITEMS = 2
  Carry = 2
  BankSize = 1
  Stack = 2
  MaxBuy = 3
  MaxWeapons = 1
  MaxTools = 3
  MaxTeks = 1
  MaxMade = 3
  MaxIds = 2
PROPERTIES TekkedIsNotOnFloor
