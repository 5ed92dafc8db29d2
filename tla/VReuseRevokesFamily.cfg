SPECIFICATION Spec
CONSTANTS
  Clients = {c1}
  Requests = {r1, r2}
  None = None
  MaxTokens = 2
SYMMETRY RequestSymmetry
PROPERTIES
  ReuseRevokesFamily
