\* Every request of up to three lines is decoded once and answered at most once,
\* and then the model stops.
SPECIFICATION FairSpec
CONSTANTS
    Drafts <- MCDrafts
    Words <- MCWords
CHECK_DEADLOCK FALSE
INVARIANTS
    TypeOK
    GoodRequestsAreUnderstood
    AcceptedRequestsAreWhole
    RepliesMeanWhatWasSent
PROPERTY DecoderReturns
