SPECIFICATION ViewSpec
CONSTANTS
  u1 = u1
  u2 = u2
  NoWalk = NoWalk
  NoAvatar = NoAvatar
  NoTile = NoTile
  Watched = u1
  Users <- MCUsers
  Floor <- MCFloor
  Elsewhere <- MCElsewhere
  TileOrder <- MCTileOrder
  Spawn <- MCSpawn
  FindPaths <- MCFindPaths
  TicksPerTile = 2
  MaxItems = 1
  MaxLink = 1
INVARIANTS
  WalksKept
  ViewFollows
PROPERTIES
  TilesRespected
