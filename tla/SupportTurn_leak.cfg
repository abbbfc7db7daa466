SPECIFICATION Spec
CONSTANTS
  None = None
  t1 = t1
  t2 = t2
  c1 = c1
  alice = alice
  mallory = mallory
  k1 = k1
  own = own
  other = other
  Conversation <- Conversations
  Key <- Keys
  Query <- Queries
  OwnQuery = own
  Turn <- OneTurn
  Customer <- OneCustomer
  Request <- Requests
  Call <- RacingCalls
  ModelReply <- PlainReplies
  EarlierTickets <- Nothing
  EarlierHandoffs <- Nothing
  RealPolicy = TRUE
  FallbackModel = FALSE
  MaxTurns = 2
  MaxToolCalls = 2
INVARIANT
  NoReservationLeaks
CHECK_DEADLOCK FALSE
