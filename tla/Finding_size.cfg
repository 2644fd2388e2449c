SPECIFICATION FairSpec
CONSTANTS
  HandledSignals <- MCSignals
  AppActions <- DefaultActions
  InstallHandlers = TRUE
  FailPoints <- NoFailures
  Sizes = {small, large}
  NoFrame = none
  MaxSignals = 0
  MaxResizes = 1
  MaxSessions = 1
CHECK_DEADLOCK FALSE
PROPERTY SizeFollowed
