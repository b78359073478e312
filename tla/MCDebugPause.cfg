SPECIFICATION Spec
CONSTANTS
  AddressSpace = 64
  Code <- MCCode
  Entry = 4
  Poll = 2
  BreakAddr <- None
  WatchArea <- None
  StepRange <- None
  PcValue <- None
  MaxCtrlC = 0
PROPERTIES PausedSessionResumes
