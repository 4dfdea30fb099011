CONSTANTS
  Class = {"a", "b", "c"}
  Hash <- MCHash
  MaxHashes = 2
  Files <- MCFiles
  t1 = t1
  t2 = t2
  Thread = {t1, t2}
  NoTrace = NoTrace
  InitialId = 256
  MaxDepth = 2
  MaxCalls = 3
SPECIFICATION Spec
SYMMETRY Threads
INVARIANTS LoadsWhatFits AnswersAsListed LogTellsShownFrames OrderNeverFalls MetadataFirst FlowTellsCallTree AspectInv
PROPERTY NoEndInside
