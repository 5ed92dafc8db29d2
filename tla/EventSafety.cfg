SPECIFICATION Spec
CONSTANTS
  Events = {e1}
  Malformed = Malformed
  Workers = {w1, w2}
  None = None
  BatchSize = 2
  MaxLen = 1
  MaxEntries = 2
  MaxCrashes = 1
SYMMETRY WorkerSymmetry
INVARIANTS
  SettledIsStored
  EmittedOrExhausted
PROPERTIES
  DeliverySpec
CHECK_DEADLOCK FALSE
