SPECIFICATION LimitSpec
CONSTANTS
  address = address
  user = user
  Hitters = {h1, h2}
  Counters = {address, user}
  Scopes <- MCScopes
  Budget = 2
  NoCounter = NoCounter
  MaxHits = 3
PROPERTY
  OutageBlocksNobody
CHECK_DEADLOCK FALSE
