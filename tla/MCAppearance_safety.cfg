CONSTANTS
  l1 = l1
  l2 = l2
  old = old
  c1 = c1
  c2 = c2
  c3 = c3
  r1 = r1
  r2 = r2
  p1 = p1
  p2 = p2
  s1 = s1
  s2 = s2
  None = None
  Looks <- MCLooks
  Retired <- MCRetired
  DefaultLook = l1
  Conns <- MCConns
  Rooms <- MCRooms
  Here = r1
  Puts <- MCPuts
  Saves <- MCSaves
  MaxEdits = 2
  MaxSockets = 2
SPECIFICATION AppearanceSpec
SYMMETRY Symmetry
INVARIANTS
  LooksAgree
  SocketsBelowCap
PROPERTIES
  DriverDrives
CHECK_DEADLOCK FALSE
