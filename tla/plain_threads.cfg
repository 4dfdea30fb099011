CONSTANTS
  t1 = t1
  t2 = t2
  o1 = o1
  o2 = o2
  Thread = {t1, t2}
  Obj = {o1, o2}
  Key <- OwnKeys
  NoThread = NoThread
  NoObj = NoObj
  InitialId = 256
  MaxTraces = 8
  Serialised = FALSE
  Op = {"f"}
  ClassName = "f"
  NoSession = "f"
  LocalHost = "f"
  NoMessage = NoMessage
  MaxDepth = 1
  MaxCalls = 4
  MayUnwind = FALSE
  WriteMayFail = FALSE
  GccProfiling = FALSE
SPECIFICATION ProbeLiveSpec
INVARIANT StackIsDepth
PROPERTIES ProbesUseRegistry 
