SPECIFICATION FairSpec
CONSTANTS
  None = None
  m1 = m1
  m2 = m2
  c1 = c1
  v1 = v1
  v2 = v2
  h1 = h1
  h2 = h2
  Handler <- Handlers
  Message <- Messages
  Customer <- Customers
  Sender <- Senders
  Conversation <- Conversations
  Batch <- Overlapping
  MaxCallbacks = 2
  MaxFaults = 1
  MaxCrashes = 1
INVARIANTS
  AtMostOneReply
  OneConversationPerCustomer
  AckedIsRecorded
PROPERTIES
  OutcomeStands
  ClaimSettles
  DeliverySpec
CHECK_DEADLOCK FALSE
