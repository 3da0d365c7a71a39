SPECIFICATION BuiltinSpec
CONSTANTS
  None = None
  Ranges <- MCRanges
  Conditions <- MCConditions
  Keys <- MCKeys
  Operands <- MCOperands
  MaxArgs = 4
  CallUnit = 2
  Unit = 216
  ColumnLength = 4
  Contents <- MCContents
  Bounds <- MCBounds
  Spans = {1, 2, 3}
  IntHalf = 32
  Int64Half = 32
  Precision = 8
  Spacings <- MCSpacings
  Halves <- MCHalves
  Lengths <- MCLengths
  GivenLimits <- MCGivenLimits
  Unset = Unset
  DefaultCells = 3
  Cell <- MCCell
  Blank = ""
  Note = "# x"
  Shebang = "#!x"
  Tables <- MCTables
  ResultCells = 4
  Canon <- MCCanon
  Subscript <- MCSubscript
  Overflow = "overflow"
  Documents <- MCDocuments
  Paths <- MCPaths
  JsonValues <- MCJsonValues
  MaxSymbols = 26
  Octets <- MCOctets
  Utf8 <- MCUtf8
  Lower <- MCLower
  Texts <- MCTexts
  Counts <- MCCounts
  Half = 16
  MaxRunes = 2
  Horizon = 106751
  Serials <- MCSerials
  Offsets <- MCOffsets
  Moments <- MCMoments
  Reach <- MCReach
  Radix = 3
  AddressHalf = 128
  Digits = {0, 1, 9}
  MaxLetters = 5
  MaxDigits = 2
INVARIANT BudgetIsExact
CHECK_DEADLOCK FALSE
