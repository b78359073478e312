SPECIFICATION Spec
CONSTANTS
  AddressSpace = 64
  GUEST_MIN_MEM = 8
  GUEST_MAX_MEM = 16
  WordsPerPage = 2
  Value <- JustZero
  StoreData <- ZeroData
  GuestAddr <- MCGuestAddr
  Spans <- None
  WatchArea <- None
  MaxAccesses = 1
INVARIANTS BelowMaximum
CHECK_DEADLOCK FALSE
