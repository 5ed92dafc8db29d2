SPECIFICATION Spec
CONSTANTS
  p1 = p1
  p2 = p2
  a1 = a1
  a2 = a2
  Providers = {p1}
  Emails = {a1}
  EmailOf <- OneAddress
  Requests = {r1, r2}
  Offered = {"add", "edit", "skip", "send", "delete"}
  None = None
  MaxDrafts = 1
  MaxVersions = 1
  MaxMails = 2
SYMMETRY RequestSymmetry
INVARIANTS
  OneMailPerMessage
