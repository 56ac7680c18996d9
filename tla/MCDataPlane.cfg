CONSTANTS
    Keys <- MCKeys
    NoSender = NoSender
    IPs = {100}
    Ports = {1}
    End = End
    AnyDst = AnyDst
SPECIFICATION Spec
CHECK_DEADLOCK FALSE
INVARIANTS
    TypeOK
    LockIsNotLeaked
    OnlyIdleReadsBreakTheLock
    OnlyErasuresDangle
