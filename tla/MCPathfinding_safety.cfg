SPECIFICATION FairSearch
CONSTANTS
  Width = 5
  Height = 3
  MaxBlocked = 6
  Inputs <- MCInputs
  NoPath = NoPath
  Roundings <- MCRoundings
  Rounds <- MCRounds
INVARIANTS
  FindsShortest
PROPERTIES
  ClosedIsFinal
  Terminates
CHECK_DEADLOCK FALSE
