CONSTANTS
  MaxFd = 5
  MaxHandlers = 2
  Settings <- EverySetting
SPECIFICATION LiveSpec
INVARIANTS LockOutlivesConnection ResolvedSocketOrError TypesComeFirst ControllerInv
PROPERTIES NoReconnectAfterFailure ConnectionEnds
