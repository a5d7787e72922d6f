SPECIFICATION Spec
CONSTANTS
  HeaderSize = 2
  ChunkSize = 4
  ContentSizes <- MCContentSizes
  MaxSends = 3
INVARIANTS TypeOK SurplusWrites CrashNeedsOverlap IntactWithoutOverlap
PROPERTIES DrainsWithoutOverlap OverlapIsFatal
\* The model stops when all packets are sent, and after a crash.
CHECK_DEADLOCK FALSE
