CONSTANTS
    MaxClients = 2
    Keys = {k1, k2, k3}
    UUIDs = {u1, u2}
    FName = f
    Names = {f, c}
    IPs = {100}
    Ports = {1}
    SignalAddrs = {s1}
    Indexes = {1}
    Residue = {"NONE", "CONNECTED", "INACTIVE", "LOST"}
    KATimer = 1
    OfflineTimer = 5
    ClockSteps = {4}
    NoSender = NoSender
    NoName = NoName
    NoUUID = NoUUID
    NoKey = NoKey
    NoAddr = NoAddr
    NoReply = NoReply

SPECIFICATION FairSpec
PROPERTIES
    NoImmortalSession
    ResidueIsReleased
