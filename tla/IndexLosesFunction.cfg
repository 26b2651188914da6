CONSTANTS
  AddrBits = 5
  NoAttr = NoAttr
  Fixtures <- LostFixtures

SPECIFICATION Spec

INVARIANT IndexResolvesEachFunction
