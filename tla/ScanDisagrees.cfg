CONSTANTS
  AddrBits = 5
  NoAttr = NoAttr
  Fixtures <- ScanFixtures

SPECIFICATION Spec

INVARIANT IndexOnlySpeedsUp
