CONSTANTS
    Ports = {"p", "q"}
    Switched = {"p"}
    Accessories = {"none"}
    RoleSwitches <- MCRoleSwitches
    MaxUevents = 2
    NumSlots = 3
    Handles = {"accel", "prox"}
    WakeUp = {"prox"}
    kPollMaxBufferSize = 2
    ProxyCallbacks = {"c"}
    Supports1_4 = TRUE
    MaxEvents = 3
    MaxBatches = 3
SPECIFICATION ThreeSpec
CHECK_DEADLOCK FALSE
INVARIANTS
    SwitchSuccessful
    OneDataModem
    BatchesExact
PROPERTIES
    PortFollowed
    CallbackCleared
