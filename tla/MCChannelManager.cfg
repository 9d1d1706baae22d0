CONSTANTS
    k1 = k1  k2 = k2  k3 = k3  u1 = u1  u2 = u2  a = a  b = b
    Keys = {k1, k2, k3}
    Uid <- MCUid
    BadKeys = {k2}
    kMaxChannels = 2
    Sids = {a, b}
    LiveSids = {a}
    MaxChannels = 4
    MaxMessages = 3
SPECIFICATION MCSpec
CHECK_DEADLOCK FALSE
INVARIANTS
    SlotsSound
    MessagesExact
PROPERTIES
    CloseReturns
    MessagesHandled
