SPECIFICATION FairSpec
CONSTANTS
  x = x
  row = row
  Vars = {x, row}
  Values <- MCValues
  RowVars = {row}
  Conds <- MCConds
  ElseifConds <- MCElseifConds
  UintMod = 4
  MaxTags = 5
  MaxRows = 2
  NoTag = NoTag
  NoCond = NoCond
INVARIANT
  TypeOK
PROPERTIES
  ImplementsTemplate
  PageIsFinished
