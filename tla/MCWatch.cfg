SPECIFICATION Spec
CONSTANTS
  AddressSpace = 64
  GUEST_MIN_MEM = 8
  GUEST_MAX_MEM = 16
  WordsPerPage = 2
  Value <- JustZero
  StoreData <- ZeroData
  GuestAddr <- WatchedAddr
  Spans <- None
  WatchArea <- MCWatchArea
  MaxAccesses = 2
INVARIANTS TriggerIsFirst
CHECK_DEADLOCK FALSE
