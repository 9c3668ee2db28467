CONSTANTS
  Callers = {role, repair}
  NoCaller = nobody
  Units = {timer, worker}
  DailyTimer = timer
  FpmServices = {}
  LocalWeb = TRUE
  ForceDisconnect = TRUE
  AllowStale = FALSE
  MaxClients = 1
  Role = role
  Repair = repair
  StartupRepair = FALSE
  RepairTimers = {timer}
  RepairServices = {worker}
  RecoveryUnits = {}
  FailureThreshold = 2
  MaxHelperFaults = 2
  MaxDisruptions = 3
SPECIFICATION SystemSafety
INVARIANT DrainQuietUnlessFault
PROPERTY PlannedRestartIsFenced
CHECK_DEADLOCK FALSE
