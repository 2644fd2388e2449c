SPECIFICATION TextSpec
CONSTANTS
  IntMin <- MCIntMin
  IntMax = 7
  Sizes <- MCSizes
  Characters = {"a", "escape", " "}
  ControlCharacters = {"escape"}
  Blank = " "
  Replacement = "U+FFFD"
  Inks <- MCOneInk
  DefaultInk <- White
  ResetPen <- MCResetPen
  Garbage = garbage
  Texts <- MCTexts
  Areas <- MCAreas
  DrawAreas <- MCDrawAreas
  Tab = "tab"
  Newline = "newline"
  Return = "return"
  WrappedTexts <- MCWrapped
  MaxDraws = 1
  MaxClips = 3
  MaxFrames = 0
  MaxDisturbances = 1
INVARIANTS ClipsExact ShapesExact AlignmentExact LinesPlaced
PROPERTY DrawsInsideClips
CHECK_DEADLOCK FALSE
