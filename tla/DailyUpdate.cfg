CONSTANTS
  Nodes = {c, f, g}
  Canary = c
  NoNode = nobody
  MaxDay = 2
  MaxRuns = 3
  MaxKills = 1
SPECIFICATION Spec
INVARIANTS TypeOK OneNodeOut UpdatingNodeIsDrained FollowersFollowCanary
PROPERTIES NodeRejoins ImplementsRollout
CHECK_DEADLOCK FALSE
