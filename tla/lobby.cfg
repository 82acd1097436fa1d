SPECIFICATION Spec
CONSTANTS
  c1 = c1
  c2 = c2
  c3 = c3
  Clients <- MCClients
  None = None
  NumLobbies = 1
  NumGames = 1
  LobbySize = 2
  GameSize = 3
  MaxJoins = 4
SYMMETRY Symmetry
INVARIANTS TypeOK MembersAgree CountsExact LeaderIsOldest QuestReachesMembers BattleConfined
PROPERTIES LeadPassesOnLeave ImplementsParty
