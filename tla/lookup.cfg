CONSTANTS
  t1 = t1
  t2 = t2
  a = a
  b = b
  c = c
  d = d
  Thread = {t1, t2}
  Text = {a, b, c, d}
  NoText = NoText
  TableInc = 2
  Serialised = TRUE
  WriteMayFail = TRUE
SPECIFICATION Spec
INVARIANTS KeyNamesText StoreInBounds AnnouncedOrLost AnnouncedOnce LookupInv
PROPERTIES KeysAreForGood ImplementsStringTable
