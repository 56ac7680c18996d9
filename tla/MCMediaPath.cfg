CONSTANTS
    Clients = {c1, c2}
    MaxFds = 3
    QueueCap = 2
    MaxPackets = 4
    NoFd = NoFd
    NoPacket = NoPacket
SPECIFICATION Spec
INVARIANTS
    TypeOK
    OldSoundIsBounded
PROPERTIES
    ImplementsBroadcast
    SpokenIsPassedOn
