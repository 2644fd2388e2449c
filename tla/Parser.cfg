SPECIFICATION FairSpec
CONSTANTS
  Keystrokes <- Strokes
  MaxSequence = 6
  MaxPiece = 3
  Typable <- Typed
INVARIANTS TypeOK KeysRecognised PiecesDoNotMatter PendingIsLoneEscape BufferBounded
PROPERTY EscapeResolved
