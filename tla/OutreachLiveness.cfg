SPECIFICATION FairSpec
CONSTANTS
  p1 = p1
  p2 = p2
  a1 = a1
  a2 = a2
  Providers = {p1, p2}
  Emails = {a1}
  EmailOf <- SharedAddress
  Requests = {r1, r2}
  Offered = {"skip", "delete"}
  None = None
  MaxDrafts = 2
  MaxVersions = 1
  MaxMails = 0
PROPERTIES
  RequestsFinish
CHECK_DEADLOCK FALSE
