CONSTANTS
  NumEntries = 32
  Src = s
  Branch = b
  Contents = {d1, d2}
  NumSlots = 3
  Tags = {s}
  Opaque = {"load", "store"}
  Branches = {b}
  Entries <- MCEntries
  Kills <- MCKills
  NStages = 3
  Payloads <- MCPayloads
  Broadcasts <- MCKills
  NRegs = 3
  Keys = {k1, k2, k3, k4}
  Values = {v1, v2}
  XLEN = 4
  LG = 1
  DECODED_IMM_LEN = 21
  MUL_NSTAGES = 2
  DIV_NSTEPS = 2
  Traffic <- MCTraffic
  IsMul <- ForMultiplier
  MulLoad <- MultStart
  MulStage <- Stage
  MulResult <- MultResult
  DivLoad <- DividerStart
  DivUnit <- DividerUnit
  DivLast <- LastCycle
  DivResult <- DividerResult
  DivUnset <- DividerUnset
  Answer <- Defined
  AddressSpace = 8
  max_size = 4
SPECIFICATION LibrarySpec
INVARIANTS
  RefusedOnlyWhenFull
  Aligned
  NoDuplicates
  AnswersExact
  NothingLost
  OverlapExact
PROPERTIES
  ImplementsWindow
  ImplementsList
  ImplementsFifo
  ImplementsCache
