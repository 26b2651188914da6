CONSTANTS
  a = a
  b = b
  NoName = NoName
  Names <- MCNames
  MaxDepth = 2
  MaxNodes = 3
  FuncTypes = {"before", "test", "after"}
  MaxMocks = 0
  MaxParams = 0

SPECIFICATION Spec

CHECK_DEADLOCK FALSE

INVARIANT DetachCommonPreservesTests
