SPECIFICATION TextSpec
CONSTANTS
  Bytes <- BoundaryBytes
  Characters <- BoundaryCharacters
  MaxBytes = 4
  Blank = " "
  Tab = "tab"
  Newline = "newline"
  Return = "return"
  Letters <- MCLetters
  Widths = {1, 2, 3, 4}
  MaxLetters = 6
  IntMax = 6
CHECK_DEADLOCK FALSE
INVARIANTS DecodingExact TitlesClean LinesExact
PROPERTY ResultStable
