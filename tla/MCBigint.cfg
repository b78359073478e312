SPECIFICATION MCSpec
CONSTANTS
  GUEST_MIN_MEM = 4
  GUEST_MAX_MEM = 52
  ByteBase = 3
  NotAscii = 2
  U32 = 16
  MaxCycle = 4
  W = 2
  Env <- MCEnv
  Args <- MCArgs
  Random = {0, 1}
  HaltRegs = {0}
  StepCycles = {1}
  Compress <- MCCompress
  ShaCalls <- None
  BigintCalls <- MCBigintCalls
  MCGuests <- Computing
PROPERTIES BigintStoresProduct
CHECK_DEADLOCK FALSE
