SPECIFICATION Spec
CONSTANTS
  Strings <- MCPieces
  Sizes = {1, 3}
  Round = 4
  Slack = 1
  Cap = 20
  MaxMem = 12
  MaxOps = 4
  Size = 2
  Sources <- MCSources
  Lens = {1, 3, 5}
  MaxPut = 8
  MaxCalls = 3
  Files <- MCFiles
  Lengths = {1, 3}
  Offsets = {1}
  Chunk = 2
  MaxEntries = 3
  Block = 4
  Wrap = 64
  MaxPiece = 10
  MaxMessage = 20
INVARIANTS
  NothingOverruns
  StoredIsFound
  TextRoundTrip
  NumbersExact
  BytesInOrder
CHECK_DEADLOCK FALSE
