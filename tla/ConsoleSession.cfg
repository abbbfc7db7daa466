SPECIFICATION Spec
CHECK_DEADLOCK FALSE
CONSTANTS
  None = None
  ann = ann
  sue = sue
  s1 = s1
  s2 = s2
  t1 = t1
  t2 = t2
  t3 = t3
  t4 = t4
  User <- Users
  Store <- Stores
  HomeStore <- HomeStores
  InitialRole <- Roles
  Token <- Tokens
  Focus = {{"audit", "attention"}, {"business", "board"}, {"bookings", "knowledge"}}
  NewRole <- Demoted
  Lossy = {"login", "me", "read", "body"}
  MaxActs = 3
  MaxChanges = 1
INVARIANTS
  ProofIsOfShownStore
PROPERTIES
  OnlyOwnAnswersEndSession
  ConsoleSettles
