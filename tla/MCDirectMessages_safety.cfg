CONSTANTS
  ada = ada
  bob = bob
  m1 = m1
  m2 = m2
  Users = {ada, bob}
  Msgs = {m1, m2}
  From <- MCFrom
  PageSize = 1
  Ops = {o1, o2}
  Texts = {1, 2}
  MaxRequests = 5
  NoOp = NoOp
SPECIFICATION MessagesSpec
INVARIANTS
  MessagesKept
  PanelConverges
  BadgeCounts
PROPERTIES
  DeletedIsFinal
CHECK_DEADLOCK FALSE
