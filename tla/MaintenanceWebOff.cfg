SPECIFICATION Spec
CONSTANTS
  Callers = {c1, c2}
  Requests = {"enable", "disable"}
  MaxPids = 3
  MaxCrashes = 0
  Prompt = TRUE
  Runnable = TRUE
INVARIANTS DisabledStops
CHECK_DEADLOCK FALSE
