CONSTANTS
  Nodes = {1, 2, 3}
  MaxWrites = 1
  Configured = 1
  NoHost = 0
  Sites <- AllSites
SPECIFICATION Spec
INVARIANTS TypeOK OnePrimary
PROPERTIES BootstrapKeepsCommitted HighestOfRead
CHECK_DEADLOCK FALSE
