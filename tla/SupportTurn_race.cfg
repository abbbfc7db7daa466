SPECIFICATION Spec
SYMMETRY Symmetric
CONSTANTS
  None = None
  t1 = t1
  t2 = t2
  c1 = c1
  alice = alice
  mallory = mallory
  k1 = k1
  own = own
  other = other
  Conversation <- Conversations
  Key <- Keys
  Query <- Queries
  OwnQuery = own
  Turn <- TwoTurns
  Customer <- TwoCustomers
  Request <- RacingRequests
  Call <- RacingCalls
  ModelReply <- PlainReplies
  EarlierTickets <- Nothing
  EarlierHandoffs <- Nothing
  RealPolicy = TRUE
  FallbackModel = FALSE
  MaxTurns = 2
  MaxToolCalls = 1
INVARIANTS
  ClaimsAreDurable
  ReservationsAreSound
PROPERTIES
  EscalationIsCovered
  SealedIsFinal
CHECK_DEADLOCK FALSE
