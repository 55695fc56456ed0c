CONSTANTS
  p0 = p0
  p1 = p1
  Pcs <- MCPcs
  Instrs <- ProgressInstrs
  NumAregs = 1
  NumPregs = 3
  NumSnapshots = 1
  NumStores = 1
  RobSize = 3
SPECIFICATION FairSpec
INVARIANTS
  TypeOK
  SerialAlone
  StoreIdsExact
PROPERTIES
  HeadLeaves
