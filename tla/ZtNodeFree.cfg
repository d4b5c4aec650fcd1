SPECIFICATION Spec
CONSTANTS
  MaxEvents = 1
  MaxJoins = 1
  MayFail = FALSE
INVARIANTS FreedOnce
