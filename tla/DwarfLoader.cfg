\* add_self/add_executable sequences of up to MaxAdds calls on a 64-bit host.
CONSTANTS
  Fixtures <- ProcessFixtures
  NoName = NoName
  HostAddrSize = 8
  HeaderLength = 11
  MinVersion = 2
  MaxVersion = 4
  MaxAdds = 3
  CodeWord = 8
SPECIFICATION Spec
INVARIANTS TypeOK AbbrevTableAsDeclared
\* Behaviours end after MaxAdds calls, or in fatal(), which exits the process.
CHECK_DEADLOCK FALSE
