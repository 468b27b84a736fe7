SPECIFICATION MCSpec
CONSTANTS
  Tokens = {t1, t2}
  TTL = 1
  Idle = 2
  Age = 3
  MaxAttempts = 2
  MaxTime = 3
  MaxCodes = 2
  Callers = {c1, c2}
  Requests = {"enable", "disable", "boot"}
  MaxPids = 2
  MaxCrashes = 1
  Prompt = FALSE
  Runnable = FALSE
SYMMETRY Symmetric
INVARIANTS AuthSound SwitchSettles
PROPERTIES SessionsEnd
CHECK_DEADLOCK FALSE
