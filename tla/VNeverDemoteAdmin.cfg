SPECIFICATION CliSpec
CONSTANTS
  Users = {alice, bob}
  Admins = {}
  SiteControllers = {alice}
  Editors = {}
  Requests = {r1, r2}
  MaxInitiations = 1
  None = None
PROPERTY
  NeverDemoteAdmin
CHECK_DEADLOCK FALSE
