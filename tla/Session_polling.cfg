SPECIFICATION FairSpec
CONSTANTS
  HandledSignals <- MCSignals
  AppActions <- DefaultActions
  InstallHandlers = FALSE
  FailPoints <- NoFailures
  Sizes = {small, large}
  NoFrame = none
  MaxSignals = 1
  MaxResizes = 2
  MaxSessions = 1
CHECK_DEADLOCK FALSE
PROPERTY SizeFollowed
