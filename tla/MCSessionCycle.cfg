SPECIFICATION Spec
CONSTANTS
  Page <- MCPage
  UserPage <- MCUserPage
  Root = 219862
  TableBase = 212992
  Arity = 32
  PageCycle = 1094
  RootCycle = 754
  StepCycles <- MCStepCycles
  FixedCycle = 1721
  SegmentLimit = 1048576
  MaxSegment = 1
INVARIANTS PaidOnce LoadedToTheRoot
PROPERTIES ImplementsMeter
CHECK_DEADLOCK FALSE
