SPECIFICATION StaffSpec
SYMMETRY Symmetric
CONSTANTS
  None = None
  ann = ann
  sue = sue
  b1 = b1
  k1 = k1
  i1 = i1
  r1 = r1
  r2 = r2
  h1 = h1
  h2 = h2
  n1 = n1
  n2 = n2
  u1 = u1
  Member <- Members
  InitialRole <- Roles
  Booking <- OneBooking
  Interval <- OneInterval
  Slot <- Nothing
  Key <- Keys
  Draft <- Drafts
  Command <- ApiCommands
  Request <- TwoRequests
  NewRole <- Demoted
  Mover <- Transferred
  Faulty <- AllStatements
  StaffEnabled = TRUE
  Task <- TwoTasks
  Callback <- TwoCallbacks
  StaffUser <- StaffUsers
  Provisions <- Pairs
INVARIANTS
  CardDecidesOnce
  PeopleAreToldTheTruth
PROPERTIES
  DecisionsHaveAuthority
CHECK_DEADLOCK FALSE
