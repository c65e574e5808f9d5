CONSTANTS
  Games = {g1, g2}
  Sockets = {s1, s2}
  Calls = {c1, c2}
  MaxAsked = 2
  NoGame = NoGame
  NoSocket = NoSocket
  NoCall = NoCall
SPECIFICATION SessionSpec
CONSTRAINT Followed
INVARIANTS
  OneTimerAndDialog
  NoDeadScene
  NothingLeaks
PROPERTIES
  Recovers
CHECK_DEADLOCK FALSE
