CONSTANTS
    MaxScans = 2
    MaxAttempts = 2
    MaxProtocolStarts = 1
    MaxChanges = 1
SPECIFICATION WiFiSpec
INVARIANTS AttemptHoldsLock
CHECK_DEADLOCK FALSE
