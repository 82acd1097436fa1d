SPECIFICATION DownloadsSpec
CONSTANTS
  acc1 = acc1
  acc2 = acc2
  c1 = c1
  c2 = c2
  Callers <- MCCallers
  Owners <- MCOwners
  ParamSizes <- MCParamSizes
  PieceSize = 4
  Albums <- MCAlbums
  Controls = {"mine"}
  Default = "default"
  NoControls = NoControls
  MaxSaves = 1
CHECK_DEADLOCK FALSE
INVARIANTS CardsAsTold
