SPECIFICATION ImageSpec
CONSTANTS
  Inputs <- MCInputs
  Versions <- MCVersions
  Manifests <- MCManifests
  Spoilt <- MCSpoilt
  CrcByte <- CrcByteCcitt
  None = None
  Right = Right
INVARIANTS ReleaseAccepted OnlyReleaseAccepted
CHECK_DEADLOCK FALSE
