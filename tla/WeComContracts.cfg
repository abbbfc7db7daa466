SPECIFICATION BothSpec
CONSTANTS
  None = None
  m1 = m1
  m2 = m2
  m3 = m3
  s1 = s1
  s2 = s2
  v1 = v1
  h1 = h1
  h2 = h2
  agent = agent
  ann = ann
  sue = sue
  b1 = b1
  k1 = k1
  i1 = i1
  r1 = r1
  r2 = r2
  c1 = c1
  c2 = c2
  n1 = n1
  u1 = u1
  Message <- Messages
  Subject <- Subjects
  Sender <- Senders
  Identity <- Identities
  First = agent
  Change <- Changed
  Conversation <- Conversations
  Handler <- Handlers
  Faulty <- AllStatements
INVARIANTS
  DispatchIsSerialized
PROPERTIES
  ActsUnderAuthority
  DeliverySpec
  ClaimSettles
  DecisionIsReported
  CardDeliverySpec
CHECK_DEADLOCK FALSE
