\* get_sizeof and to_string answers against spec 4.6, with two pointer declarators queried too.
CONSTANTS
  Fixture <- MCTypeFixture
  NoRef = NoRef
  NoAttr = NoAttr
  AddrSize = 8
  IntSize = 4
  SizeBits = 16
  Slide = 0
SPECIFICATION Spec
INVARIANT TypeQueriesMatchSpec
