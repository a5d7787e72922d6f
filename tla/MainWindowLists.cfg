SPECIFICATION Spec
CONSTANTS
  ann = ann
  bob = bob
  me = me
  Peer <- MCPeer
  Me = me
  Parts <- MCLists
  MaxInFlight = 2
  MaxRows = 2
  MaxPages = 2
INVARIANTS QuietListHasFriends ExactUnlessCrossed ApplicationsAreShown
CONSTRAINT FewNames
SYMMETRY MCSymmetry
