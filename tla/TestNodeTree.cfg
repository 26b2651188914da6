CONSTANTS
  a = a
  b = b
  NoName = NoName
  Names <- MCNames
  MaxDepth = 2
  MaxNodes = 3
  FuncTypes = {"before", "after"}
  MaxMocks = 1
  MaxParams = 1

SPECIFICATION Spec

CHECK_DEADLOCK FALSE

INVARIANT TypeOK
INVARIANT TreeWellFormed
INVARIANT MakePathResolves
INVARIANT FixturesNest
INVARIANT PreRunInstallsEveryMock
