SPECIFICATION Spec
CONSTANTS
  ann = ann
  bob = bob
  me = me
  Peer <- MCPeer
  Me = me
  Parts <- MCChats
  MaxInFlight = 2
  MaxRows = 1
  MaxPages = 2
INVARIANTS TypeOK PagesMatchChats
PROPERTY DeletesTheOneAsked
SYMMETRY MCSymmetry
