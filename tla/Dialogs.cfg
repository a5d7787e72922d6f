SPECIFICATION Spec
CONSTANTS
  ann = ann
  bob = bob
  NoUser = NoUser
  User <- MCUser
  Contested <- MCContested
  MaxDialogs = 3
  MaxInFlight = 2
INVARIANTS TypeOK EndNeedsHaste EditsTheRegistered ProfileIsKept OneMainWindow
PROPERTY AcceptedIsOffered
CHECK_DEADLOCK FALSE
