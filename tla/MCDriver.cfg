SPECIFICATION LiveSpec
CONSTANTS
  Servers = {a, b}
  None = None
  MaxDoc = 2
  MaxSock = 3
  MaxQueue = 2
  MaxFaults = 2
  Programs = {"edb", "pair"}
INVARIANTS
  LeftIsCurrent
  RepliesMatch
  AllGiven
  NoCursorLeak
  ReadsOwnWrites
PROPERTIES
  NoneTwice
  SaveSettled
  CallsEnd
CHECK_DEADLOCK FALSE
