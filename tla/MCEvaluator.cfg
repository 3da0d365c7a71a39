SPECIFICATION Spec
CONSTANTS
  Address <- MCAddress
  RowMajor <- MCRowMajor
  Sheets <- MCSheets
  Caller = Caller
  None = None
  MaxDepth = 3
INVARIANTS CallChain Coherent CyclesAreErrors ExplainAgreesOffCycles
PROPERTIES MemoStable ImplementsRecalc
