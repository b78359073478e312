SPECIFICATION Spec
CONSTANTS
  AddressSpace = 64
  Code <- MCCode
  Entry = 4
  Poll = 2
  BreakAddr <- MCBreakAddr
  WatchArea <- MCWatchArea
  StepRange <- MCStepRange
  PcValue <- MCPcValue
  MaxCtrlC = 1
INVARIANTS TypeOK ModeIsAsked OneAnswerEach NoStopMissed StopReasonTruthful
  CompletionRunsToTheEnd
PROPERTIES NoWatchMissed
