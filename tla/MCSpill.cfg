SPECIFICATION RenderSpec
CONSTANTS
  Text <- MCText
  Blank <- Nothing
  SpillError <- Error
  Sheets <- MCSheets
INVARIANTS ContentSurvives LastArrayWins
CHECK_DEADLOCK FALSE
