SPECIFICATION Spec
SYMMETRY Symmetric
CONSTANTS
  None = None
  ann = ann
  sue = sue
  north = north
  c1 = c1
  c2 = c2
  v1 = v1
  k1 = k1
  k2 = k2
  r1 = r1
  r2 = r2
  User <- Users
  Scope = {north}
  Customer = {c1, c2}
  Conversation = {v1}
  Token = {k1, k2}
  Home <- Homes
  Request = {r1, r2}
  NewRows = {}
  Faulty = FALSE
  MaxChanges = 1
  MaxBoots = 1
INVARIANTS
  RefusalIsAnswered
CHECK_DEADLOCK FALSE
