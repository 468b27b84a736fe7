SPECIFICATION Spec
CONSTANTS
  Runs = {r1, r2}
  MaxOffset = 2
  Tries = 2
INVARIANTS ResetSound
CHECK_DEADLOCK FALSE
