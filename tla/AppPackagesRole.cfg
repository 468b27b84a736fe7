SPECIFICATION Spec
CONSTANTS
  Apps = {a}
  WebApps = {}
  AutoStart = {}
  MaxSerial = 2
  MaxFaults = 1
  MaxReboots = 1
PROPERTIES SystemRoleKept
CHECK_DEADLOCK FALSE
