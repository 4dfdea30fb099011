CONSTANTS
  MaxFd = 5
  MaxHandlers = 2
  Settings <- UnknownHost
SPECIFICATION Spec
INVARIANT SocketOrError
