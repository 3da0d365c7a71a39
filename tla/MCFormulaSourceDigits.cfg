SPECIFICATION Spec
CONSTANTS
  Capitals <- MCCapitals
  Columns <- MCPlainColumns
  Atoms <- MCPlainAtoms
  Names <- MCNames
  Operators <- MCOperators
  Lines = {0, 1}
  MaxEdited = 2
  MaxEdits = 1
INVARIANT RewrittenTextParses
CHECK_DEADLOCK FALSE
