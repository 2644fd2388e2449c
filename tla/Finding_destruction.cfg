SPECIFICATION Spec
CONSTANTS
  HandledSignals <- MCSignals
  AppActions <- AllActions
  InstallHandlers = TRUE
  FailPoints <- NoFailures
  Sizes = {small}
  NoFrame = none
  MaxSignals = 2
  MaxResizes = 0
  MaxSessions = 1
CHECK_DEADLOCK FALSE
INVARIANT DestructionRestores
