CONSTANTS
    connectionAttempts = 2
    MaxFailures = 1
    MaxMessages = 1
SPECIFICATION Spec
INVARIANT ReconnectsOnce
CHECK_DEADLOCK FALSE
