SPECIFICATION Spec
CONSTANTS
  XLEN = 16
  LG = 3
  DECODED_IMM_LEN = 21
  ILEN_BYTES = 4
  MemBytes = 16
  RESET_VECTOR = 512
  Cases <- MCCases
PROPERTIES CsrReadOnlyReads
CHECK_DEADLOCK FALSE
