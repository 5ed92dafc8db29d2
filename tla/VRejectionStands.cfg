SPECIFICATION Spec
CONSTANTS
  alice = alice
  bob = bob
  third = third
  Users = {alice, bob}
  Admins = {}
  SiteControllers = {alice}
  Editors = {}
  Requests = {r1, r2}
  MaxInitiations = 2
  None = None
PROPERTY
  RejectionStands
CHECK_DEADLOCK FALSE
