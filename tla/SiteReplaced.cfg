CONSTANTS
  Nodes = {1, 2, 3}
  MaxWrites = 1
  Configured = 1
  NoHost = 0
  Sites <- OnlyReplaced
SPECIFICATION Spec
PROPERTY FreshOnlyOnce
CHECK_DEADLOCK FALSE
