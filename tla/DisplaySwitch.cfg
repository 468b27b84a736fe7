SPECIFICATION Spec
CONSTANTS
  Apps = {A, B}
  None = None
  MaxFaults = 3
  MaxOps = 4
  MaxReboots = 1
INVARIANTS ConsoleNotOverUi OnlySelectedRuns FailedSwitchRestores
CHECK_DEADLOCK FALSE
