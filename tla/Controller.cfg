SPECIFICATION Spec
CONSTANTS
    Absent = Absent
    Invalid = Invalid
    Range = Range
    None = None
    Launchers = {"l1", "l2"}
    Setups <- MCSetups
INVARIANTS AcceptedLockInstalls BuiltControllerLaunches AloneConverges PlayKeepsCollections

