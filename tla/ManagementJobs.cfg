SPECIFICATION MCSpec
CONSTANTS
  Job = {j1, j2}
  Package = {p}
  Name = {n, m}
  None = None
  Readers = {"apps", "ota"}
  MaxRestarts = 1
  IoFails = TRUE
  CoreDies = TRUE
SYMMETRY JobSymmetry
INVARIANTS ReceiptsTrue OneCore VerifiedStaged AppliedAsNamed AnswerPaired
PROPERTIES RestartKeepsReceipts ImplementsBoard
CHECK_DEADLOCK FALSE
