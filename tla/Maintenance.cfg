CONSTANTS
  Nodes = {1, 2, 3}
  RedisQuorum = 2
  MaxDrains = 2
  MaxFaults = 2
SPECIFICATION Spec
INVARIANTS TypeOK StoppedIsMarked CapacityStays DrainedStaysQuiet
PROPERTY EveryNodeReturns
CHECK_DEADLOCK FALSE
