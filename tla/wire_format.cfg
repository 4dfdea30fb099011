SPECIFICATION Spec
CONSTANTS
  Base = 4
  BufferSize = 280
  StringBufferSize = 14
  TypeNames <- MCTypeNames
  Samples <- MCSamples
  Variants = {0, 1, 2, 3, 4}
  MaxRecords = 2
INVARIANT StreamReadsBack
PROPERTY WritesItsSpan
