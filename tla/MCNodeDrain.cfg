CONSTANTS
  Callers = {role, repair}
  NoCaller = nobody
  Units = {timer, worker}
  DailyTimer = timer
  FpmServices = {worker}
  LocalWeb = TRUE
  ForceDisconnect = TRUE
  AllowStale = TRUE
  MaxClients = 1
SPECIFICATION Spec
SYMMETRY CallerSymmetry
INVARIANTS OwedUnitsRecorded StartsBeforeTraffic MarkersHaveRecord
PROPERTY ReopenInOrder
