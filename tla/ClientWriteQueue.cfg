SPECIFICATION Spec
CONSTANTS
  MaxSends = 3
  MaxBlocks = 2
CONSTRAINT MCFewWhenRaced
INVARIANTS TypeOK InOrderUnlessRaced SinglesIntactUnlessRaced
INVARIANTS EndNeedsRace NothingStranded
PROPERTY DrainsUnlessRaced
\* The model stops when all packets are sent, and after undefined behaviour.
CHECK_DEADLOCK FALSE
