CONSTANTS
  t1 = t1
  t2 = t2
  o1 = o1
  o2 = o2
  Thread = {t1, t2}
  Obj = {o1, o2}
  Key <- OwnKeys
  Serialised = FALSE
  MaxTraces = 4
  NoThread = NoThread
  NoObj = NoObj
  InitialId = 256
SPECIFICATION Spec
PROPERTY IncrementedWithEachCall
