SPECIFICATION Spec
CONSTANTS
  HandledSignals <- MCSignals
  AppActions <- ReturningActions
  InstallHandlers = TRUE
  FailPoints <- AllFailures
  Sizes = {small}
  NoFrame = none
  MaxSignals = 2
  MaxResizes = 0
  MaxSessions = 2
CHECK_DEADLOCK FALSE
INVARIANTS FlagTruth StopsRestored IdleRestored HandlersPutBack
