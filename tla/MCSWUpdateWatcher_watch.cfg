CONSTANTS
    connectionAttempts = 2
    MaxFailures = 2
    MaxMessages = 2
SPECIFICATION FairSpec
INVARIANT ReconnectsAreBounded
PROPERTIES
    ReadSuccessIsInstalled
    ComesBack
CHECK_DEADLOCK FALSE
