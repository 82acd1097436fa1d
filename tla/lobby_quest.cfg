SPECIFICATION Spec
CONSTANTS
  c1 = c1
  c2 = c2
  c3 = c3
  Clients <- MCClients
  None = None
  NumLobbies = 2
  NumGames = 1
  LobbySize = 1
  GameSize = 3
  MaxJoins = 4
SYMMETRY Symmetry
INVARIANTS EveryoneReadyIsTold
