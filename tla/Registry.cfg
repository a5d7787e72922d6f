SPECIFICATION Spec
CONSTANTS
  a = a
  b = b
  Conn <- MCConn
  MaxAccepts = 3
INVARIANTS TypeOK ListIsExact StaleRowsAreEvicted
PROPERTIES EvictsTheSilent UndefinedNeedsRace DeadAreDropped
