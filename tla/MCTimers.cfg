CONSTANTS
    KATimer = 1
    OfflineTimer = 5
    ClockSets <- MCClockSets
    MaxSets = 2
    WordSize = 1000
SPECIFICATION Spec
INVARIANTS
    TypeOK
    SilenceIsNoticed
PROPERTIES
    OnlySilenceOrALeapReleases
