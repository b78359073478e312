SPECIFICATION Spec
CONSTANTS
  AddressSpace = 64
  GUEST_MIN_MEM = 8
  GUEST_MAX_MEM = 16
  WordsPerPage = 2
  Value <- MCValue
  StoreData <- MCStoreData
  GuestAddr <- MCGuestAddr
  Spans <- MCSpans
  WatchArea <- None
  MaxAccesses = 1
INVARIANTS TypeOK
PROPERTIES ImplementsFlatMemory
CHECK_DEADLOCK FALSE
