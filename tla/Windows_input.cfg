SPECIFICATION WindowsSpec
CONSTANTS
  KeyOrder <- MCKeys
  Unknown = "Unknown"
  Characters <- MCCharacters
  NativeEvents <- NativeEvent
  Maxima = {0}
  MayFail = FALSE
  MaxBatch = 0
  MaxNative = 40
  MaxSessions = 1
  MaxCount = 3
  UnitOf <- MCUnitOf
  PastedUnits <- MCPasted
  FocusOptions = {TRUE, FALSE}
  MaxRepeats = 2
  MaxActs = 5
  MaxPastes = 3
CHECK_DEADLOCK FALSE
INVARIANTS NoStuckKeys ModifiersReal TextExact
