SPECIFICATION Spec
CONSTANTS
  CellText <- MCText
  Blank = ""
  HashText <- MCHash
  BangText <- MCBang
  Malformed <- MCMalformed
  BoolColumns <- MCBoolColumns
  Files <- MCFiles
  Typed <- MCTyped
  GridDim = 2
  None = None
  Failed = Failed
  MaxLines = 3
INVARIANTS TextIsFixedPoint ViewDescribesPlainRows
