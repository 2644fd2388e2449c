SPECIFICATION Spec
CONSTANTS
  IntMin <- MCIntMin
  IntMax = 7
  Sizes <- MCSizes
  Characters = {"escape", " "}
  ControlCharacters = {"escape"}
  Blank = " "
  Replacement = "U+FFFD"
  Inks <- MCInks
  DefaultInk <- White
  ResetPen <- MCResetPen
  Garbage = garbage
  Texts <- ShortTexts
  Areas <- MCAreas
  DrawAreas <- MCDrawAreas
  MaxDraws = 2
  MaxClips = 0
  MaxFrames = 3
  MaxDisturbances = 1
INVARIANTS TypeOK ScreenShowsFrame
