CONSTANTS
  MaxFd = 5
  MaxHandlers = 2
  Settings <- AlwaysConnected
SPECIFICATION Spec
PROPERTY ClosesOnlyConnections
