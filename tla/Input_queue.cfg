SPECIFICATION Spec
CONSTANTS
  k1 = k1
  k2 = k2
  unknown = unknown
  KeyOrder <- MCKeys
  Unknown = unknown
  Characters = {"c"}
  NativeEvents <- MCEvents
  Maxima = {0, 2, 3}
  MayFail = TRUE
  MaxBatch = 2
  MaxNative = 4
  MaxSessions = 1
CHECK_DEADLOCK FALSE
INVARIANTS TypeOK EdgesExact ViewComplete FirstPressIsNew FocusLossReleasesAll
PROPERTY LossesCounted
