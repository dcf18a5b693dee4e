SPECIFICATION FairSpec
CONSTANTS
  Fds = {f1, f2}
  NoFd = NoFd
  Listen = Listen
  NoSlot = NoSlot
  InitAllocated = 1
  MaxConnections = 1
  AcceptMargin = 2
  WritesPerLoop = 1
  ReadsPerLoop = 1
  UintMod = 8
  FileLens = {1, 3}
  PrintLen = 2
  Mapped = 4
  MaxSends = 1
  MaxTogether = 2
  Backlog = 1
PROPERTIES
  ClosedPeersCollected
