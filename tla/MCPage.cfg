SPECIFICATION PageSpec
CONSTANTS
  plain = plain
  hidden = hidden
  o1 = o1
  o2 = o2
  Objs = {o1, o2}
  MaxId = 3
  Vals = {plain, hidden}
  Default = plain
  Missing = Missing
  Unreadable = {hidden}
  NoDoc = NoDoc
  NoCursor = NoCursor
  PageSizes = {2}
  PageOffsets = {0, 1}
  Collections <- MCCollections
  Answers <- MCAnswers
  Requests <- MCRequests
  Files = {"/file"}
  MaxExtra = 3
SYMMETRY Symmetry
INVARIANTS
  LoopExact
  PostActedOnce
  WholeIsAnswered
PROPERTY
  OwnDocOnly
CHECK_DEADLOCK FALSE
