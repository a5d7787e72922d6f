SPECIFICATION Spec
CONSTANTS
  ann = ann
  bob = bob
  e1 = e1
  e2 = e2
  User <- MCUser
  Conn <- MCConn
  MaxRows = 2
INVARIANT CheckedChatWorks
