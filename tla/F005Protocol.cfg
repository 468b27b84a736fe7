SPECIFICATION Spec
CONSTANTS
  Size = 5
  Sectors = {0, 2, 138}
  Identities = {7, 8}
  Allowed = {7}
  Strays = {0, 2, 7, 8, 32, 31, 117, 138, 223, 248, 253}
  MaxFaults = 1
INVARIANTS WireSound
CHECK_DEADLOCK FALSE
