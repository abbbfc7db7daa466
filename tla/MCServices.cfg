SPECIFICATION Spec
SYMMETRY Symmetric
CONSTANTS
  None = None
  b1 = b1
  b2 = b2
  d1 = d1
  d2 = d2
  v1 = v1
  v2 = v2
  x1 = x1
  x2 = x2
  t1 = t1
  t2 = t2
  t3 = t3
  w1 = w1
  w2 = w2
  s1 = s1
  alice = alice
  ava = ava
  north = north
  south = south
  c1 = c1
  c2 = c2
  k1 = k1
  k2 = k2
  f1 = f1
  allergy = allergy
  device = device
  a1 = a1
  a2 = a2
  acme = acme
  zen = zen
  User = {alice, ava}
  Scope = {north, south}
  Home <- Homes
  Customer = {b1, b2}
  Conversation = {f1}
  Token = {k1, k2}
  SupportRequest = {a1, a2}
  NewRows <- Changed
  Faulty = TRUE
  MaxChanges = 3
  MaxBoots = 2
  Call = {a1, a2}
  Clients <- BothClients
  Timeout = 1
  Life = 4
  MaxTokens = 3
  MaxTime = 5
  MaxRevoked = 1
  Search = {a1, a2}
  TurnRequest <- Turns
  Libraries <- Bases
  Query <- Risks
  Offers <- CandidateLists
  Processes = {a1, a2}
  Requests = {b1, b2}
  Migrations = 2
  Setup <- DemoSetup
  People <- DemoPeople
  Newcomer = ava
  Environments <- DemoEnvironments
  MaxStarts = 1
  Documents = {d1, d2}
  Versions = {v1, v2}
  Contents = {x1, x2}
  Rank <- DocumentRanks
  Cut <- Texts
  Batches <- Updates
  Writers = {w1, w2}
  Searches = {s1}
  Scores <- Similarities
  Floor = 1
  TopK = 1
  MaxTries = 2
  Gates <- Policies
  Cases <- TwoCases
  Singles = 48
  Outcomes = {"selected", "wrong", "abstained", "timeout"}
  Commits = {c1, c2}
  MaxGateStarts = 2
  MaxCrashes = 1
  MaxMoves = 1
  MaxCalls = 5
  ProofCases <- ThreeCases
  CaseResults <- Turned
  Launches = 2
  Inputs <- Suites
  Responses <- Replies
  Expectations <- Acceptances
  MaxObservations = 2
INVARIANTS
  ServesOnlySound
  RunsOnOwnScript
  RequestsActForTheirUser
  EvidenceIsAdmitted
  TokensAreAlive
PROPERTIES
  RegistryIsSound
  VerdictIsEarned
CHECK_DEADLOCK FALSE
