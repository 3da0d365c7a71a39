SPECIFICATION Spec
CONSTANTS
  Paths <- MCPaths
  Root = "main"
  Names <- MCNames
  None = None
  Resolve <- MCResolve
  Order <- MCOrder
  Disks <- MCTickDisks
  MaxTick = 2
INVARIANT TickIsOfThePass
CHECK_DEADLOCK FALSE
