\* add_self/add_executable sequences of up to MaxAdds calls on a 64-bit host,
\* over every fixture.
CONSTANTS
  Fixtures <- SetupFixtures
  NoName = NoName
  HostAddrSize = 8
  HeaderLength = 11
  MinVersion = 2
  MaxVersion = 4
  MaxAdds = 2
  CodeWord = 8
SPECIFICATION Spec
PROPERTY SetupRefinement
\* Behaviours end after MaxAdds calls, or in fatal(), which exits the process.
CHECK_DEADLOCK FALSE
