SPECIFICATION PrintLiveSpec
CONSTANTS
  Files <- MCFiles
  MaxSessions = 2
  MaxKills = 1
INVARIANTS OneAtATime
PROPERTIES AbortCools
CHECK_DEADLOCK FALSE
