CONSTANTS
    F = F
    Listeners = {c1, c2}
    MaxWord = 5
    Interval = 2
    MaxGap = 2
    MediaLen = 1
    NoNode = NoNode
SPECIFICATION Spec
INVARIANTS
    TypeOK
    SuspendedHearsOutItsPrompt
    ReturnEndsTheRound
PROPERTIES
    PacedUnlessTheWordOverflows
    PromptEnds
