SPECIFICATION LiveSpec
CONSTANTS
  Procs = {"boot", "operator"}
  Chunks = 3
  OptIn = TRUE
INVARIANTS KlippyOnTarget CompleteMeansTarget TransferSound
PROPERTIES RunsEnd
CHECK_DEADLOCK FALSE
