SPECIFICATION Spec
CONSTANTS
  HeaderSize = 2
  ChunkSize = 4
  ContentSizes <- MCContentSizes
  MaxSends = 3
INVARIANT OnlyLastChunkShort
\* The model stops when all packets are sent, and after a crash.
CHECK_DEADLOCK FALSE
