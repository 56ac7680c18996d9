CONSTANTS
    MaxClients = 3
    Keys = {k1, k2, k3, k4}
    UUIDs = {u1, u2, u3}
    FName = f
    Names = {f, c}
    IPs = {100}
    Ports = {1}
    SignalAddrs = {s1}
    Indexes = {0, 1, 3, 258}
    Residue = {"NONE"}
    KATimer = 1
    OfflineTimer = 1
    ClockSteps = {4}
    NoSender = NoSender
    NoName = NoName
    NoUUID = NoUUID
    NoKey = NoKey
    NoAddr = NoAddr
    NoReply = NoReply
SYMMETRY KeyAndIdSymmetry
SPECIFICATION Spec
INVARIANTS
    SessionsAreDistinct
    FOnlyInSlotZero
    EveryListenerIsListed
PROPERTIES
    RequestTouchesOneClient
    ImplementsRegistry
