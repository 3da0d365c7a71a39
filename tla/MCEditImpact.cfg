SPECIFICATION ImpactSpec
CONSTANTS
  Address <- MCAddress
  RowMajor <- MCRowMajor
  Sheets <- MCSheets
  Menu <- MCMenu
  Caller = Caller
  None = None
  MaxDepth = 3
INVARIANTS NothingIsStale EditReachesDependentsOnly
PROPERTY CallReturns
