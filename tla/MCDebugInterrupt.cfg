SPECIFICATION FairSpec
CONSTANTS
  AddressSpace = 64
  Code <- MCCode
  Entry = 4
  Poll = 3
  BreakAddr <- None
  WatchArea <- None
  StepRange <- MCStepRange
  PcValue <- None
  MaxCtrlC = 2
INVARIANTS InterruptLatency
PROPERTIES InterruptAnswered LostConnectionEnds
