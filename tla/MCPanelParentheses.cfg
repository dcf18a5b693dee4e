SPECIFICATION Spec
CONSTANTS
  x = x
  row = row
  Vars = {x, row}
  Values = {0, 1}
  RowVars = {row}
  Conds <- MCParentheses
  ElseifConds <- MCParentheses
  UintMod = 4
  MaxTags = 5
  MaxRows = 2
  NoTag = NoTag
  NoCond = NoCond
PROPERTY
  DocumentedConditions
