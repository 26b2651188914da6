CONSTANTS
  AddrBits = 5
  NoAttr = NoAttr
  Fixtures <- MCFixtures

SPECIFICATION Spec

INVARIANT TypeOK
INVARIANT IndexResolvesEachFunction
INVARIANT IndexAnswerIsSound
INVARIANT IndexAnswerFullName
