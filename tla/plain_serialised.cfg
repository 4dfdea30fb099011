CONSTANTS
  t1 = t1
  t2 = t2
  o1 = o1
  o2 = o2
  Thread = {t1, t2}
  Obj = {o1, o2}
  Key <- OwnKeys
  NoThread = NoThread
  NoObj = NoObj
  InitialId = 256
  MaxTraces = 8
  Serialised = TRUE
  Op = {"f", "g"}
  ClassName = "class"
  NoSession = "session"
  LocalHost = "host"
  NoMessage = NoMessage
  MaxDepth = 2
  MaxCalls = 6
  MayUnwind = FALSE
  WriteMayFail = FALSE
  GccProfiling = TRUE
SPECIFICATION ProbeSpec
SYMMETRY Addresses
INVARIANTS UniqueTraceIds LogTellsFrames PlainInv
PROPERTY ImplementsMonitoringLog
