SPECIFICATION FairSpec
CONSTANTS
  Tasks = {r1, r2, r3, r4}
  Concurrency = 1
  MaxQueue = 2
  Users = {alice}
  MaxVersion = 1
  NoReq = NoReq
  NoUser = NoUser
INVARIANTS
  SlotsServeHandlers
  LogoutRevokes
PROPERTIES
  IsSemaphore
  EveryRequestAnswered
