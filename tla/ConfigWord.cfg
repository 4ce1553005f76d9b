\* A stray quote in an otherwise well-formed file.
CONSTANTS
  Plain = {"a"}
  BufSize = 3
  Files <- Unclosed
  Paths = {"log"}
  BadPatterns <- Refused
SPECIFICATION StartupSpec
INVARIANTS FullLineInWord
