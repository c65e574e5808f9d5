SPECIFICATION MCSpec
CONSTANTS
  Items = {lamp, spare}
  Tiles = {west, east}
  Insts = {r1, r2}
  Ops = {h1, h2}
  Kinds = {"place", "move", "pickup", "interact"}
  InitTable <- Empty
  InitStock = 2
  MaxStock = 2
  NoItem = NoItem
  NoOp = NoOp
  NoInst = NoInst
SYMMETRY FullSymmetry
INVARIANTS
  PiecesKept
  SequentialEditsAgree
PROPERTIES
  HandlersNeverStack
