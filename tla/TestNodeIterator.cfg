CONSTANTS
  a = a
  b = b
  NoName = NoName
  Names <- MCNames
  MaxDepth = 3
  MaxNodes = 5
  FuncTypes = {}
  MaxMocks = 0
  MaxParams = 0

SPECIFICATION Spec

CHECK_DEADLOCK FALSE

INVARIANT IteratorVisitsSubtree
