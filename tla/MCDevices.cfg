CONSTANTS
    UsbPorts = {"p", "q"}
    UsbClients = {"a", "b"}
    Version <- MCVersion
    DualRoles = {"dfp"}
    MaxUevents = 1
    LOCKOUT_TIMED_THRESHOLD = 1
    LOCKOUT_PERMANENT_THRESHOLD = 3
    Timers = {1, 2}
    Owners <- MCOwners
    OPEN_RETRY_COUNT = 3
    Deadlines = {1}
    Limits <- MCLimits
SPECIFICATION DevicesSpec
CHECK_DEADLOCK FALSE
INVARIANTS
    ScanComplete
    PermanentKept
    UpcallsMatchSession
PROPERTIES
    ReportsCurrent
    LockoutEnds
    ControlComesUp
