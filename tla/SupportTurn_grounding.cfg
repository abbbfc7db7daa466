SPECIFICATION FairSpec
CONSTANTS
  None = None
  t1 = t1
  t2 = t2
  c1 = c1
  alice = alice
  mallory = mallory
  k1 = k1
  own = own
  other = other
  Conversation <- Conversations
  Key <- Keys
  Query <- Queries
  OwnQuery = own
  Turn <- OneTurn
  Customer <- OneCustomer
  Request <- Requests
  Call <- LookupCalls
  ModelReply <- SomeReplies
  EarlierTickets <- Nothing
  EarlierHandoffs <- Conversations
  RealPolicy = FALSE
  FallbackModel = TRUE
  MaxTurns = 2
  MaxToolCalls = 2
INVARIANTS
  TypeOK
  EvidenceIsCurrent
  DeadlineAnswerIsQuiet
PROPERTIES
  TurnSettles
CHECK_DEADLOCK FALSE
