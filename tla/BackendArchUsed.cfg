CONSTANTS
  p0 = p0
  p1 = p1
  Pcs <- MCPcs
  Instrs <- RegisterInstrs
  NumAregs = 2
  NumPregs = 4
  NumSnapshots = 2
  NumStores = 1
  RobSize = 4
SPECIFICATION Spec
INVARIANTS
  ArchUsedIsArf
