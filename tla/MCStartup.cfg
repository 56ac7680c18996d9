CONSTANTS
    Lines <- MCLines
    MaxLines = 3
    MaxFaults = 2
    MaxRecords = 3
    UserLth = 48
SPECIFICATION Spec
CHECK_DEADLOCK FALSE
INVARIANTS
    TypeOK
    SettingsAreTheLastWords
    ServesWithItsSettings
PROPERTIES
    ServesUnlessStopped
