SPECIFICATION MCSpec
CONSTANTS
  ada = ada
  home = home
  Users = {ada}
  Rooms = {r1, r2}
  Home <- MCHome
  Ops = {o1, o2}
  RoomCost = 2
  Price = 1
  Start = 4
  MaxRooms = 1
  MaxRequests = 5
  NoOp = NoOp
  Nobody = Nobody
  NoRoom = NoRoom
  Addresses = {a1}
  Names = {ada}
  Limit = 2
  Window = 3
  Second = 2
  Handlers = {h1, h2}
  MaxTime = 5
  MaxAdvance = 7
  NoBucket = NoBucket
  NoName = NoName
INVARIANTS
  MoneyKept
  RoomsAccounted
  PageShowsTables
  LimiterHolds
CHECK_DEADLOCK FALSE
