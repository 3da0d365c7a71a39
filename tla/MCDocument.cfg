SPECIFICATION Spec
CONSTANTS
  CellText <- MCText
  Blank = ""
  HashText <- MCHash
  BangText <- MCBang
  Malformed <- MCMalformed
  BoolColumns = {}
  Sources <- MCSources
  Menu <- MCMenu
  GridDim = 2
  MaxRows = 3
  MaxCols = 2
  MaxLine = 3
INVARIANTS MarkersMatch ReferencesFollowCells DeleteUndoesInsert DependentsFollowCells
PROPERTY CommentsAnchored
