SPECIFICATION ModerationSpec
CONSTANTS
  gm = gm
  g1 = g1
  ip1 = ip1
  hw1 = hw1
  Guilds <- MCGuilds
  NoGuild = NoGuild
  GMs <- MCGMs
  LocalGMs = {}
  IPs <- MCIPs
  Hardware <- MCHardware
  MaxCrowd = 2
  MaxBans = 2
  MaxSilenced = 2
  MaxIgnored = 2
  MaxSteps = 3
PROPERTIES LiftsOnlyOne
