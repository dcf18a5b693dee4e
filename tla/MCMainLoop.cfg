SPECIFICATION Spec
CONSTANTS
  Fds = {f1, f2, f3}
  NoFd = NoFd
  Listen = Listen
  NoSlot = NoSlot
  InitAllocated = 1
  MaxConnections = 1
  AcceptMargin = 2
  WritesPerLoop = 2
  ReadsPerLoop = 2
  UintMod = 8
  FileLens = {1, 3}
  PrintLen = 2
  Mapped = 4
  MaxSends = 2
  MaxTogether = 3
  Backlog = 1
SYMMETRY FdSymmetry
INVARIANTS
  TypeOK
  PoolInv
  SocketsOwned
  FreeSlotsClean
  WithinOutput
  PoolBounded
PROPERTIES
  ImplementsConnLife
