SPECIFICATION PageSpec
CONSTANTS
  Users = {ann, bob, cleo}
  Ops = {r1, r2}
  Blockers = {ann}
  Me = ann
  Followed <- MCFollowed
  Fetches = {f1, f2}
  MaxAtOnce = 2
  MaxFriends = 1
  MaxBlocked = 1
  MaxClashed = 1
  NoOp = NoOp
SYMMETRY SlotSymmetry
INVARIANTS
  PairsKept
  CapsWithoutOverlap
  PanelTrue
