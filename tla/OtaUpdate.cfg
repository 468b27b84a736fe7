SPECIFICATION FairSpec
CONSTANTS
  Callers = {c1, c2}
  Releases = {r1, r2}
  FallbackSlot = "A"
  MaxTransactions = 2
  MaxFaults = 1
  MaxEdits = 1
INVARIANTS
  IInv
  BootSafe
  HandoffIntact
  HandoffBeforeSwitch
  SysOfRunningRelease
PROPERTIES
  RunningSlotUntouched
  KnownGoodProved
  HandoffKept
  TransactionAdvances
  ImplementsAb
  HandoffRetired
  RetryFinishes
CHECK_DEADLOCK FALSE
