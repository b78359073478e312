SPECIFICATION FairSpec
CONSTANTS
  Page <- SmallPage
  UserPage <- SmallUserPage
  Root = 15
  TableBase = 8
  Arity = 2
  PageCycle = 3
  RootCycle = 2
  StepCycles <- SmallStepCycles
  FixedCycle = 2
  SegmentLimit = 31
  MaxSegment = 3
INVARIANTS TypeOK SegmentFits
PROPERTIES SessionCycleMonotone CallbackStepReturns CallbackStepNearsItsEnd
CHECK_DEADLOCK FALSE
