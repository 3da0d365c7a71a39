SPECIFICATION Spec
CONSTANTS
  Capitals <- MCCapitals
  Columns <- MCReservedColumns
  Atoms <- MCReservedAtoms
  Names <- MCNames
  Operators <- MCOperators
  Lines = {0, 1}
  MaxEdited = 2
  MaxEdits = 1
INVARIANTS TextMeansFormula ParensAreNeeded
CHECK_DEADLOCK FALSE
