SPECIFICATION Spec
CONSTANTS
  Handlers = {h1, h2}
  SessionOptions <- MCOptions
  SerialDispatch = {TRUE, FALSE}
  FailPoints <- Failures
  MaxControls = 2
  MaxSessions = 2
SYMMETRY HandlerSymmetry
CHECK_DEADLOCK FALSE
INVARIANTS TypeOK IdleRestored EndsRestored OneRestorer NotReadWhenReset
