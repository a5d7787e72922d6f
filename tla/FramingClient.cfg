SPECIFICATION Spec
CONSTANTS
  HeaderSize = 2
  ChunkSize = 3
  BodyLens <- MCClientBodyLens
  Indeterminate <- MCClientIndeterminate
  RereadsAtEof = TRUE
  MaxMessages = 2
INVARIANT PacketsIntactOnceStarted
\* The bound on packets handled after end of file stops the model.
CHECK_DEADLOCK FALSE
