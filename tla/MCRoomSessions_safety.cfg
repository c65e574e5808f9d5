SPECIFICATION Spec
CONSTANTS
  ann = ann
  bob = bob
  a1 = a1
  a2 = a2
  b1 = b1
  lobby = lobby
  den = den
  club = club
  annHome = annHome
  bobHome = bobHome
  NoUser = NoUser
  NoSocket = NoSocket
  NoRoom = NoRoom
  Users <- MCUsers
  Sockets <- MCSockets
  Owner <- MCOwner
  Rooms <- MCRooms
  Home <- MCHome
  RoomOwner <- MCRoomOwner
  Capacity <- MCCapacity
  Bots <- MCBots
  PublicRooms = {lobby, den, club}
  KnockRooms = {club}
  SeededRooms = {lobby, den, club, bobHome}
  MaxSockets = 2
  MaxPending = 1
SYMMETRY SocketSymmetry
INVARIANTS
  AvatarsAgree
  DriversAreTrue
  HearsItsRoom
  RoomsAdmit
PROPERTIES
  IsWhereabouts
