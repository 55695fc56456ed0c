CONSTANTS
  p0 = p0
  p1 = p1
  Pcs <- MCPcs
  Instrs <- RegisterInstrs
  NumAregs = 2
  NumPregs = 4
  NumSnapshots = 2
  NumStores = 1
  RobSize = 4
SPECIFICATION Spec
SYMMETRY Targets
INVARIANTS
  RenameExact
  RegsConserved
  ReadyExact
  KillExact
  SlotsExact
  MasksExact
  SnapshotsExact
PROPERTIES
  SequenceSpec
