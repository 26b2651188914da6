\* Reflection queries on two gcc compile units, x86_64 (8-byte addresses, 4-byte int).
CONSTANTS
  Fixture <- MCFixture
  NoRef = NoRef
  NoAttr = NoAttr
  AddrSize = 8
  IntSize = 4
  SizeBits = 16
  Slide = 0
SPECIFICATION Spec
INVARIANTS TypeOK ClassificationMatchesSpec FunctionStringMatchesSpec DescribeAddressNamesItsUnit
PROPERTY CacheRefinement
