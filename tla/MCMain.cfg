SPECIFICATION Spec
CONSTANTS
  GUEST_MIN_MEM = 4
  GUEST_MAX_MEM = 16
  ByteBase = 13
  NotAscii = 12
  U32 = 28561
  MaxCycle = 13
  W = 1
  Env <- MCEmpty
  Args <- MCEmpty
  Random = {}
  HaltRegs = {0, 257, 2}
  StepCycles = {1}
  Compress <- MCCompress
  ShaCalls <- MCShaCalls
  BigintCalls <- MCBigintCalls
  MaxSegments = 2
  ExecName <- MCExecName
  ChunkLen = {1, 2, 3}
  BufLen = 2
  Scenarios <- MCScenarios
  Values <- MCValues
  Depth <- MCDepth
  InputTypes <- MCInputTypes
INVARIANTS LoadsImage OkMeansComplete StdinDelivered InputUnambiguous TextArrives ElfTransferred
PROPERTIES LoadsWellFormed AvailKept OutputsPrinted
