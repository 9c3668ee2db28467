SPECIFICATION Spec
CONSTANTS
    Missing = Missing
    NoKey = NoKey
    Hosts <- MCHosts
    Maintainable = {"h1"}
    Setups <- MCSetups
    LowerCase <- MCLowerCase
    MaxRevision = 3
    MaxHead = 2
    MaxClock = 2
    MaxAge = 1
    MaxPlays = 1
INVARIANTS AcceptedIsOriginal HaClaimsWereChecked CertifiedTogether NoReuseInMaintenance GatesImplyVerdict CheckPredictsDoctor
CHECK_DEADLOCK FALSE
