CONSTANTS
  Callers = {role, repair}
  NoCaller = nobody
  Units = {timer, fpm}
  DailyTimer = timer
  FpmServices = {fpm}
  LocalWeb = TRUE
  ForceDisconnect = TRUE
  AllowStale = TRUE
  MaxClients = 0
  Role = role
  Repair = repair
  StartupRepair = TRUE
  RepairTimers = {timer}
  RepairServices = {}
  RecoveryUnits = {fpm}
  FailureThreshold = 2
  MaxHelperFaults = 1
  MaxDisruptions = 2
SPECIFICATION SystemSpec
PROPERTIES NoRestartStorm DrainEnds UnitsComeBack MemberRecovers ImplementsNodeDrain
