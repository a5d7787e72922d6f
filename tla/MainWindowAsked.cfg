SPECIFICATION Spec
CONSTANTS
  ann = ann
  bob = bob
  me = me
  Peer <- MCPeer
  Me = me
  Parts <- MCChats
  MaxInFlight = 2
  MaxRows = 2
  MaxPages = 3
PROPERTY OpensTheOneAsked
