SPECIFICATION MCSpec
CONSTANTS
  alice = alice
  bob = bob
  third = third
  Users = {alice, bob}
  Admins = {bob}
  SiteControllers = {alice}
  Editors = {alice, bob}
  Requests = {r1, r2, third}
  MaxInitiations = 3
  None = None
SYMMETRY Slots
INVARIANTS
  OneVerifiedClaim
  OwnerHasVerifiedClaim
  VerifiedClaimOwnsProvider
  MetaTagProof
  EditorWasEntitled
  SomeRequestMoves
PROPERTIES
  OwnershipSpec
CHECK_DEADLOCK FALSE
