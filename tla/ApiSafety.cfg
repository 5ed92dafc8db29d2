SPECIFICATION ApiSpec
CONSTANTS
  Clients = {c1}
  Requests = {q1, q2}
  None = None
  MaxTokens = 3
  m1 = m1  m2 = m2  m3 = m3  tab = tab  alice = alice  bob = bob
  Messages = {m1, m2, m3}
  Pages = {tab}
  SentFrom <- MCSentFrom
  SenderOf <- MCSenderOf
  UserOf <- MCUserOf
  Users = {alice, bob}
  Client = alice
  Admins = {}
  Claimants = {bob}
  HistoryLimit = 1
  Nobody = Nobody
  MaxLosses = 1
  s1 = s1  s2 = s2  s3 = s3
  Starts = {s1, s2, s3}
  NoId = NoId
  r1 = r1  r2 = r2  r3 = r3  blue = blue  green = green
  Reads = {r1, r2, r3}
  Servers = {blue, green}
  ServerOf <- MCServerOf
  Empty = Empty
  Garbled = Garbled
  MaxChanges = 2
  h1 = h1  h2 = h2  address = address  user = user
  Hitters = {h1, h2}
  Counters = {address, user}
  Scopes <- MCScopes
  Budget = 1
  NoCounter = NoCounter
  MaxHits = 3
SYMMETRY ApiSymmetry
CHECK_DEADLOCK FALSE
INVARIANTS
  ReplacedIsRevoked SessionSurvives
  PagesInOrder OutAheadOfCommit LastActivity PagesComplete
  OneConversation
  OneLoadPerColdKey
  EveryWindowEnds BudgetHolds
PROPERTY StoresMoveForward
