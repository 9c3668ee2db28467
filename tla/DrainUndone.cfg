CONSTANTS
  Callers = {role, repair}
  NoCaller = nobody
  Units = {timer, worker}
  DailyTimer = timer
  FpmServices = {}
  LocalWeb = TRUE
  ForceDisconnect = TRUE
  AllowStale = TRUE
  MaxClients = 1
  Role = role
  Repair = repair
  StartupRepair = TRUE
  RepairTimers = {timer}
  RepairServices = {worker}
  RecoveryUnits = {}
  FailureThreshold = 2
  MaxHelperFaults = 0
  MaxDisruptions = 1
SPECIFICATION SystemSpec
PROPERTY PlannedRestartIsFenced
