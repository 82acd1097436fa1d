SPECIFICATION ServicesSpec
CONSTANTS
  acc1 = acc1
  acc2 = acc2
  acc3 = acc3
  p1 = p1
  p2 = p2
  ship1 = ship1
  ship2 = ship2
  name1 = name1
  name2 = name2
  name3 = name3
  Users <- MCUsers
  Programs <- MCPrograms
  Slots <- MCSlots
  MAX_DRESS_FLAGS = 1
  MaxLogins = 3
  MaxMade = 2
  Nobody = Nobody
  Accounts <- MCUsers
  TeamShips <- MCShips
  Names <- MCNames
  MaxTeam = 3
  MaxOrders = 3
  MaxLost = 1
  TeamFiles <- MCTeamFiles
  NoOne = NoOne
  Holders <- MCUsers
  Friends <- MCFriends
  MAX_GCSEND = 2
  MaxCards = 2
  MaxShown = 3
  N = 4
  LinkKey <- MCLinkKey
  Keys <- MCKeys
  F <- MCF
  MaxRun = 5
  MaxLen = 4
  MaxBytes = 12
  gm = gm
  ip1 = ip1
  hw1 = hw1
  h1 = h1
  h2 = h2
  Guilds <- MCGuilds
  NoGuild = NoGuild
  GMs <- MCGMs
  LocalGMs = {}
  IPs <- MCIPs
  Hardware <- MCHardware
  MaxCrowd = 2
  MaxBans = 2
  MaxSilenced = 2
  MaxIgnored = 2
  MaxSteps = 2
  Hatched <- MCHatched
  Keepers <- MCKeepers
  MaxEvents = 2
  Heroes <- MCHeroes
  Points <- MCPoints
  Starting <- MCStarting
  LevelData <- MCLevelData
  Steps <- MCSteps
  Yields <- MCYields
  MaxMat = 2
  MaxHPMat = 2
  MaxFights = 2
  Packs <- MCPacks
  Finds <- MCFinds
  Wearable <- MCWearable
  Learnable <- MCLearnable
  GrindLimit = 9
  MaxPack = 6
  MaxUses = 4
  Purses <- MCPurses
  Prices <- MCPrices
  StackOf <- MCStackOf
  WeaponKinds = {"saber"}
  Tools <- MCTools
  Shops <- MCShops
  quest_allow = {"reward", "saber"}
  gallons_shop_hopkins = {"reward"}
  good_luck = {"reward", "monomate"}
  Amounts = {60}
  MaxBag = 3
  MaxBank = 2
  MaxMeseta = 999
  MaxDeals = 3
  GameKinds <- MCGameKinds
  QuestMaps <- MCQuestMaps
  XP <- MCXP
  Helpers = 3
  MaxRares = 2
  GameSeats = {0, 1}
  Floors = {0, 11}
  Boxes <- MCBoxes
  PT <- MCPT
  RT <- MCRT
  Arms <- MCArms
  FirstRares <- MCFirst
  MaxMoves = 3
  u1 = u1
  u2 = u2
  u3 = u3
  QuestHunters <- MCHunters
  HallGMs = {u3}
  QuestFiles <- MCQuestFiles
  PartyKinds <- MCPartyKinds
  Beginnings <- MCBeginnings
  Speaks <- MCSpeaks
  MaxSize = 2
  MaxGames = 3
  Inis <- MCInis
  Compiled = 900
  Langs = {0, 5, 30}
  CsvChars <- MCCsvChars
  MaxChars = 5
  MaxLines = 1024
  DropSections = {0, 1}
  Difficulties = {0, 1}
  DropAreas = {0, 1}
  PTFile <- MCPTFile
  TableSize = 8
  w1 = w1
  w2 = w2
  w3 = w3
  Writers <- MCWriters
  PostShips = {"s1", "s2"}
  Held <- MCHeld
  TeamOf <- MCTeamOf
  Heralds <- MCHeralds
  Muted = {}
  Shuns <- MCShuns
  Seated <- MCSeated
  Rooms = {1, 16}
  Berths = 1
  MaxPosts = 2
  MaxWalks = 1
  g1 = g1
  g2 = g2
  g3 = g3
  c1 = c1
  NoGuest = NoGuest
  Guests <- MCGuests
  RoomSeats = 3
  RoomKinds <- MCRoomKinds
  Speaking <- MCSpeaking
  QuestTexts <- MCQuestTexts
  ArrowColors = {1}
  Callers <- MCCallers
  Owners <- MCUsers
  ParamSizes <- MCParamSizes
  PieceSize = 4
  Albums <- MCAlbums
  Controls = {"mine"}
  Default = "default"
  NoControls = NoControls
  MaxSaves = 2
  f1 = f1
  f2 = f2
  f3 = f3
  v1 = v1
  Fleet <- MCFleet
  Piers <- MCPiers
  Voyagers = {v1}
  MaxWrecks = 1
  MaxTrips = 2
  MaxWire = 1
  NoVessel = NoVessel
CHECK_DEADLOCK FALSE
INVARIANTS ServicesTypeOK TeamsSound LoginSound CardsSound ArrivesAsSent OneOrderLifts MagSound CharactersSound MonstersSound TogetherSound HandedOutSound
PROPERTIES DissolvedByMaster BlastsKept
