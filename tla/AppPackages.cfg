SPECIFICATION FairSpec
CONSTANTS
  Apps = {a}
  WebApps = {a}
  AutoStart = {a}
  MaxSerial = 2
  MaxFaults = 2
  MaxReboots = 1
INVARIANTS AppsWhole
PROPERTIES RecoveryRestores FailureUndone ReconcileDone BootCompletes
CHECK_DEADLOCK FALSE
