SPECIFICATION LiveSpec
CONSTANTS
  Questions = {qa, qb, ql}
  LongOnes = {ql}
  Ids = {1, 2}
  Slots = 3
  Servers = {0, 1}
  Loops = 4
  Recursive = {TRUE}
  QueryLen = 2
  BodyLen = 3
  NoQuery = NoQuery
  MaxQueries = 2
  MaxAsked = 2
  MaxReplies = 1
INVARIANTS
  AnswerIsOurs
  HoldsWhatItSays
PROPERTIES
  QueryEnds
CHECK_DEADLOCK FALSE
