SPECIFICATION BothSpec
SYMMETRY Symmetric
CONSTANTS
  None = None
  ann = ann
  sue = sue
  b1 = b1
  b2 = b2
  k1 = k1
  i1 = i1
  i2 = i2
  s1 = s1
  r1 = r1
  r2 = r2
  r3 = r3
  d1 = d1
  d2 = d2
  k2 = k2
  k3 = k3
  Member <- Members
  InitialRole <- Roles
  Booking <- Bookings
  Interval <- Intervals
  Slot <- Slots
  Key <- Keys
  Draft <- Drafts
  Command <- Commands
  Request <- ThreeRequests
  NewRole <- Demoted
  Mover <- Transferred
  Faulty <- AllStatements
  StaffEnabled = FALSE
  Person <- Members
  ConsoleRoles <- EitherRole
  Creator = ann
  ConsoleDraft <- ConsoleDrafts
  ConsoleKey <- ConsoleKeys
  Focus <- OneControl
  ConsoleNewRole = {"agent"}
  MaxActs = 3
  MaxChanges = 1
INVARIANTS
  NoLostUpdate
  KeyOpensOneBooking
  OneBookingPerAttempt
  OffersMatchServer
  RefusedVersionGoes
PROPERTIES
  LifecycleSpec
  DecisionsHaveAuthority
CHECK_DEADLOCK FALSE
