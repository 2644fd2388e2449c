------------------------------ MODULE MC_Text ------------------------------
(***************************************************************************)
(* The operations on text, for every short series of bytes from the        *)
(* boundaries of the classes of bytes, and of characters to be wrapped.    *)
(***************************************************************************)
EXTENDS Utf8Properties, WrappedTextProperties

BoundaryBytes ==
  {0, 127, 128, 143, 144, 159, 160, 191, 193, 194, 223, 224, 237, 239, 240, 244, 245}

BoundaryCharacters ==
  {0, 127, 128, 191, 2047, 2048, 4095, 55295, 57344, 65535, 65536, 262144, 1114111}

MCLetters == {"a", "b", Blank, Tab, Newline, Return}

TextInit == Init /\ WrapInit
TextNext ==
  \/ text = <<>> /\ Next /\ UNCHANGED text
  \/ bytes = <<>> /\ WrapNext /\ UNCHANGED bytes

TextSpec == TextInit /\ [][TextNext]_<<bytes, text>>
=============================================================================
