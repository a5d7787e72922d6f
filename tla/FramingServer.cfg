SPECIFICATION Spec
CONSTANTS
  HeaderSize = 3
  ChunkSize = 4
  BodyLens <- MCBodyLens
  Indeterminate <- MCIndeterminate
  RereadsAtEof = FALSE
  MaxMessages = 3
INVARIANTS TypeOK PacketsIntact ChunkConsumed
PROPERTY ImplementsChannel
\* After end of file the connection is finished for good.
CHECK_DEADLOCK FALSE
