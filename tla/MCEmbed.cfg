SPECIFICATION Spec
CONSTANTS
  Paths <- MCPaths
  Root = "main"
  Names <- MCNames
  None = None
  Resolve <- MCResolve
  Order <- MCOrder
  Disks <- MCAllDisks
  MaxTick = 1
INVARIANTS NestingIsAPath CacheIsMeaning NestedGridAgrees
PROPERTY PassEnds
CHECK_DEADLOCK FALSE
