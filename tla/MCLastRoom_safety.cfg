SPECIFICATION FairSpec
CONSTANTS
  Sockets = {s1, s2}
  Rooms = {lobby, den}
  MaxDecisions = 3
  MaxResumes = 1
  MaxRejects = 1
  NoRoom = NoRoom
  NoSocket = NoSocket
INVARIANTS
  DecisionsPersist
PROPERTIES
  StaleRowIsRepaired
